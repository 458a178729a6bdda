----------------------------- MODULE ItemList ------------------------------
(***************************************************************************)
(* An item list: a bag pocket or the item PC (lib/item_list_impl.cpp) over *)
(* the native list of its game (item_list_gbimpl.ipp for Generations I and *)
(* II, item_list_modernimpl.cpp and item_list_gcnimpl.cpp after that).     *)
(*                                                                         *)
(* A list keeps a vector of slots, the number of slots in use and a native *)
(* copy of both, which is what a save is written from.  add() and remove() *)
(* run under the list's mutex from end to end.  move() and set_item() read *)
(* the number of items before they lock, so each of them is two steps.     *)
(*                                                                         *)
(* Positions count from 0, as in the code.  A count outside 0..Capacity    *)
(* sends the next scan or write outside the vector; C++ gives that no      *)
(* meaning and neither does this module (see InBounds).                    *)
(***************************************************************************)
EXTENDS Integers

CONSTANTS
  Items,           \* the items of the list's game
  PocketItems,     \* those that the database puts in this list's pocket
  NoItem,          \* e_item::NONE
  Capacity,        \* how many slots the list has
  MaxAmount,       \* 99
  IsPC,            \* is this the item PC, which takes items of any pocket?
  NativeHasCount,  \* does the native list have a count field (Game Boy)?
  Threads,         \* the callers that share the list
  CarefulCallers   \* do callers stay away from the end of the list in set_item
                   \* and from the item NONE in add and remove?

ASSUME ConstantsAssumption ==
  /\ PocketItems \subseteq Items
  /\ NoItem \notin Items
  /\ Capacity \in Nat \ {0}
  /\ MaxAmount \in Nat \ {0}
  /\ IsPC \in BOOLEAN
  /\ NativeHasCount \in BOOLEAN
  /\ CarefulCallers \in BOOLEAN

VARIABLES
  slots,     \* _item_slots
  numItems,  \* _num_items
  native,    \* the pksav or LibPkmGC list: its items and its count field
  call       \* what each thread has read before it takes the lock

vars == <<slots, numItems, native, call>>

Position == 0..Capacity-1
Slot == [item : Items \cup {NoItem}, amount : 0..MaxAmount]
EmptySlot == [item |-> NoItem, amount |-> 0]

Idle == [op |-> "none"]
Call ==
  {Idle}
    \cup [op : {"move"}, old : Position, new : Position]
    \cup [op : {"set"}, position : Position, item : Items \cup {NoItem},
          amount : 0..MaxAmount, endBoundary : Position]

Smaller(a, b) == IF a < b THEN a ELSE b

(* The slots that a scan up to numItems reads all exist. *)
InBounds == numItems \in 0..Capacity

\* Faulty variant of Belongs: nobody asks which pocket an item is for.
BelongsAnywhere(item) == item \in Items

(* The valid items of the list: NONE belongs to no pocket. *)
Belongs(item) == IsPC \/ item \in PocketItems

-----------------------------------------------------------------------------
(* std::vector, always Capacity long. *)

(* erase(begin + position), then resize or emplace_back an empty slot *)
Erased(s, position) ==
  [p \in Position |->
     IF p < position THEN s[p] ELSE IF p + 1 < Capacity THEN s[p + 1] ELSE EmptySlot]

\* Faulty variant of Moved: the position is counted before the erase.
MovedTooFar(s, old, new) ==
  [p \in Position |->
     IF p = new THEN s[old]
     ELSE IF p < old THEN s[p]
     ELSE IF p < new THEN s[p + 1] ELSE s[p]]

(* erase(begin + old), then insert(begin + new, the slot that was erased) *)
Moved(s, old, new) ==
  [p \in Position |->
     IF p = new THEN s[old]
     ELSE IF old <= p /\ p < new THEN s[p + 1]
     ELSE IF new < p /\ p <= old THEN s[p - 1]
     ELSE s[p]]

(* The native count is one byte wide. *)
NativeCount(n) == IF NativeHasCount THEN n % 256 ELSE 0

(* _to_native(): every slot and the count *)
ToNative == native' = [items |-> slots', count |-> NativeCount(numItems')]

\* Faulty variant of ToNativeAt: the slot that was there before is copied.
ToNativeBefore(p) ==
  native' = [items |-> [native.items EXCEPT ![p] = slots[p]],
             count |-> NativeCount(numItems')]

(* _to_native(p): one slot and the count *)
ToNativeAt(p) ==
  native' = [items |-> [native.items EXCEPT ![p] = slots'[p]],
             count |-> NativeCount(numItems')]

(* The list an object holds after it was constructed over a native list:   *)
(* only the Game Boy list has a count to restore, in every other game the  *)
(* number of items stays 0, whatever the slots hold.                       *)
FromNative(list) ==
  /\ slots' = list.items
  /\ numItems' = IF NativeHasCount THEN list.count ELSE 0
  /\ native' = list

-----------------------------------------------------------------------------
InUse(s, p) == s[p].item # NoItem

(* A list as the games write it: the items in front, each once, none of it *)
(* empty, and a count that says how many they are.                         *)
WellFormed(list) ==
  \E n \in 0..Capacity :
    /\ list.count = NativeCount(n)
    /\ \A p \in Position :
         IF p < n
           THEN /\ InUse(list.items, p)
                /\ list.items[p].amount > 0
                /\ \A q \in Position : q < p => list.items[q].item # list.items[p].item
           ELSE list.items[p] = EmptySlot

(* make() starts over an empty native list, a loaded save over the one it  *)
(* holds.                                                                  *)
Init ==
  /\ native \in [items : [Position -> Slot], count : {NativeCount(n) : n \in 0..Capacity}]
  /\ WellFormed(native)
  /\ slots = native.items
  /\ numItems = IF NativeHasCount THEN native.count ELSE 0
  /\ call = [t \in Threads |-> Idle]

-----------------------------------------------------------------------------
(* add() and remove() stop at the first slot in use that holds the item. *)
IsFirst(item, p) ==
  /\ p < numItems
  /\ slots[p].item = item
  /\ \A q \in Position : q < p => slots[q].item # item

Present(item) == \E p \in Position : p < numItems /\ slots[p].item = item

(* The item is there: its amount grows, unless that would pass MaxAmount. *)
AddMore(item, amount) ==
  \E p \in Position :
    /\ IsFirst(item, p)
    /\ slots[p].amount + amount <= MaxAmount
    /\ slots' = [slots EXCEPT ![p].amount = @ + amount]
    /\ UNCHANGED numItems
    /\ ToNativeAt(p)

(* The item is not there: it takes the slot after the last one in use.     *)
(* The pocket is only looked at here.                                      *)
AddNew(item, amount) ==
  /\ ~Present(item)
  /\ numItems # Capacity
  /\ Belongs(item)
  /\ slots' = [slots EXCEPT ![numItems] = [item |-> item, amount |-> amount]]
  /\ numItems' = numItems + 1
  /\ ToNativeAt(numItems)

Add(t, item, amount) ==
  /\ call[t] = Idle
  /\ InBounds
  /\ CarefulCallers => item # NoItem
  /\ AddMore(item, amount) \/ AddNew(item, amount)
  /\ UNCHANGED call

\* Faulty variant of RemoveSome: a slot that becomes empty stays.
RemoveSomeOrAll(item, amount) ==
  \E p \in Position :
    /\ IsFirst(item, p)
    /\ slots[p].amount >= amount
    /\ slots' = [slots EXCEPT ![p].amount = @ - amount]
    /\ UNCHANGED numItems
    /\ ToNativeAt(p)

(* Some are left: only the amount changes. *)
RemoveSome(item, amount) ==
  \E p \in Position :
    /\ IsFirst(item, p)
    /\ slots[p].amount > amount
    /\ slots' = [slots EXCEPT ![p].amount = @ - amount]
    /\ UNCHANGED numItems
    /\ ToNativeAt(p)

(* None is left: the slot goes and the later ones move up. *)
RemoveLast(item, amount) ==
  \E p \in Position :
    /\ IsFirst(item, p)
    /\ slots[p].amount = amount
    /\ slots' = Erased(slots, p)
    /\ numItems' = numItems - 1
    /\ ToNative

Remove(t, item, amount) ==
  /\ call[t] = Idle
  /\ InBounds
  /\ CarefulCallers => item # NoItem
  /\ RemoveSome(item, amount) \/ RemoveLast(item, amount)
  /\ UNCHANGED call

-----------------------------------------------------------------------------
(* move(): both positions are compared with the number of items first... *)
BeginMove(t, old, new) ==
  /\ call[t] = Idle
  /\ old < numItems /\ new < numItems
  /\ old # new
  /\ call' = [call EXCEPT ![t] = [op |-> "move", old |-> old, new |-> new]]
  /\ UNCHANGED <<slots, numItems, native>>

(* ...and the slots are moved under the lock, which looks at neither again. *)
Move(t) ==
  /\ call[t].op = "move"
  /\ slots' = Moved(slots, call[t].old, call[t].new)
  /\ UNCHANGED numItems
  /\ ToNative
  /\ call' = [call EXCEPT ![t] = Idle]

-----------------------------------------------------------------------------
(* The two uses of set_item() that break the count even for one thread:    *)
(* NONE written behind the last item, and the last slot of a full list     *)
(* written again.                                                          *)
TouchesEnd(position, item) ==
  \/ item = NoItem /\ position >= numItems
  \/ numItems >= Capacity /\ position = Capacity - 1

(* set_item() accepts NONE with no amount, or an item of this pocket. *)
Settable(item, amount) ==
  IF item = NoItem THEN amount = 0
  ELSE amount > 0 /\ Belongs(item)

(* set_item(): the position may be one past the last item, but never past  *)
(* the last slot; that boundary is kept for the rest of the call.          *)
BeginSetItem(t, position, item, amount) ==
  /\ call[t] = Idle
  /\ Settable(item, amount)
  /\ position <= Smaller(numItems, Capacity - 1)
  /\ CarefulCallers => ~TouchesEnd(position, item)
  /\ call' = [call EXCEPT ![t] =
                [op |-> "set", position |-> position, item |-> item, amount |-> amount,
                 endBoundary |-> Smaller(numItems, Capacity - 1)]]
  /\ UNCHANGED <<slots, numItems, native>>

PresentElsewhere(item, position) ==
  \E p \in Position : p # position /\ p < numItems /\ slots[p].item = item

(* Under the lock: an item that is in another slot is refused; NONE before *)
(* the boundary erases the slot; anything at the boundary counts as new.   *)
SetItem(t) ==
  /\ call[t].op = "set"
  /\ InBounds
  /\ LET c == call[t]
         written == [slots EXCEPT ![c.position] = [item |-> c.item, amount |-> c.amount]]
     IN  /\ c.item # NoItem => ~PresentElsewhere(c.item, c.position)
         /\ IF c.item = NoItem /\ c.position < c.endBoundary
              THEN /\ slots' = Erased(written, c.position)
                   /\ numItems' = numItems - 1
              ELSE /\ slots' = written
                   /\ numItems' = IF c.position = c.endBoundary THEN numItems + 1 ELSE numItems
  /\ ToNative
  /\ call' = [call EXCEPT ![t] = Idle]

(* "This item is already present in slot ...": nothing changes. *)
RefuseSetItem(t) ==
  /\ call[t].op = "set"
  /\ InBounds
  /\ call[t].item # NoItem
  /\ PresentElsewhere(call[t].item, call[t].position)
  /\ call' = [call EXCEPT ![t] = Idle]
  /\ UNCHANGED <<slots, numItems, native>>

-----------------------------------------------------------------------------
(* The native list is saved, and a new object is constructed over it when  *)
(* the save is loaded again.                                               *)
Reload ==
  /\ \A t \in Threads : call[t] = Idle
  /\ FromNative(native)
  /\ UNCHANGED call

Next ==
  \/ \E t \in Threads, item \in Items \cup {NoItem}, amount \in 1..MaxAmount :
       Add(t, item, amount) \/ Remove(t, item, amount)
  \/ \E t \in Threads, old, new \in Position : BeginMove(t, old, new)
  \/ \E t \in Threads, position \in Position, item \in Items \cup {NoItem},
        amount \in 0..MaxAmount : BeginSetItem(t, position, item, amount)
  \/ \E t \in Threads : Move(t) \/ SetItem(t) \/ RefuseSetItem(t)
  \/ Reload

Spec == Init /\ [][Next]_vars

-----------------------------------------------------------------------------
TypeOK ==
  /\ slots \in [Position -> Slot]
  /\ numItems \in Int
  /\ native \in [items : [Position -> Slot], count : 0..255]
  /\ call \in [Threads -> Call]

(* Whatever the callers do, the native list equals the slots and the count *)
(* that the next call will see: what is saved is what is shown, although   *)
(* most calls copy a single slot (item_list_gbimpl.ipp:90).                *)
NativeMirrors ==
  /\ native.items = slots
  /\ native.count = NativeCount(numItems)

(* get_num_items() is "how many unique items are currently in this list"   *)
(* (include/pkmn/item_list.hpp:77): the slots before it are in use and the *)
(* ones after it are empty.                                                *)
CountIsExact == \A p \in Position : InUse(slots, p) <=> p < numItems

(* Each slot "contains a unique item type" (include/pkmn/item_slot.hpp:20). *)
NoDuplicates ==
  \A p, q \in Position : InUse(slots, p) /\ slots[p].item = slots[q].item => p = q

(* A slot in use never shows an amount of 0, an empty slot never another. *)
AmountsFit == \A p \in Position : InUse(slots, p) <=> slots[p].amount > 0

(* A list as its callers see it: distinct items without gaps, each once,   *)
(* in an amount from 1 to MaxAmount, and the number of them.               *)
ListIsWellFormed == TypeOK /\ CountIsExact /\ NoDuplicates /\ AmountsFit

-----------------------------------------------------------------------------
(* How much of an item the list holds, wherever it is. *)
Held ==
  [item \in Items |->
     IF \E p \in Position : slots[p].item = item
       THEN slots[CHOOSE p \in Position : slots[p].item = item].amount
       ELSE 0]

(* For its callers a list is an inventory: an amount of each item, changed *)
(* by whole calls, whatever happens to the slots and the native list; that *)
(* it is saved and loaded again is no change (the comparison that          *)
(* testing/unit-tests/cpp/cpp_game_save_test.cpp:780 makes).               *)
Inventory == INSTANCE ItemInventory WITH held <- Held
ImplementsInventory == Inventory!Spec
=============================================================================
