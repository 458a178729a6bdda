--------------------------- MODULE KeyItemPocket ---------------------------
(***************************************************************************)
(* The key item pocket of Generation II                                    *)
(* (lib/item_list_gen2_keyitemimpl.cpp): an item list whose class derives  *)
(* from item_list_impl, so this module extends ItemList.  It inherits the  *)
(* state, the constructor and move(), and replaces add(), remove() and     *)
(* set_item().  Every amount is 1 (MaxAmount), the native list has a count *)
(* and keeps no amounts, and the pocket is never a PC.                     *)
(***************************************************************************)
EXTENDS ItemList

(* A second copy of a key item is refused. *)
AddKeyItem(t, item) ==
  /\ call[t] = Idle
  /\ InBounds
  /\ AddNew(item, 1)
  /\ UNCHANGED call

\* Faulty variant of RemoveKeyItem: the count is left alone.
RemoveKeyItemUncounted(t, item) ==
  /\ call[t] = Idle
  /\ InBounds
  /\ \E p \in Position :
       /\ IsFirst(item, p)
       /\ slots' = Erased(slots, p)
       /\ UNCHANGED numItems
       /\ ToNativeAt(p)
  /\ UNCHANGED call

(* remove() shifts every later slot up, and then copies to the native list *)
(* the one slot it started at.  An item that is not there is ignored.      *)
RemoveKeyItem(t, item) ==
  /\ call[t] = Idle
  /\ InBounds
  /\ \E p \in Position :
       /\ IsFirst(item, p)
       /\ slots' = Erased(slots, p)
       /\ numItems' = numItems - 1
       /\ ToNativeAt(p)
  /\ UNCHANGED call

(* The uses of set_item() after which the count is right: a new item       *)
(* behind the last one, and NONE over any item but the last slot's.        *)
AppendsOrErases(position, item) ==
  IF item = NoItem THEN position < Smaller(numItems, Capacity - 1)
  ELSE position = numItems

(* set_item(): here, too, the boundary is computed before the lock. *)
BeginSetKeyItem(t, position, item) ==
  /\ call[t] = Idle
  /\ item # NoItem => Belongs(item)
  /\ position <= Smaller(numItems, Capacity - 1)
  /\ CarefulCallers => AppendsOrErases(position, item)
  /\ call' = [call EXCEPT ![t] =
                [op |-> "set", position |-> position, item |-> item,
                 amount |-> IF item = NoItem THEN 0 ELSE 1,
                 endBoundary |-> Smaller(numItems, Capacity - 1)]]
  /\ UNCHANGED <<slots, numItems, native>>

(* Whatever is written without an erase counts as one item more, also an   *)
(* item that takes the place of another.                                   *)
SetKeyItem(t) ==
  /\ call[t].op = "set"
  /\ InBounds
  /\ LET c == call[t]
         written == [slots EXCEPT ![c.position] = [item |-> c.item, amount |-> c.amount]]
     IN  /\ c.item # NoItem => ~PresentElsewhere(c.item, c.position)
         /\ IF c.item = NoItem /\ c.position < c.endBoundary
              THEN /\ slots' = Erased(written, c.position)
                   /\ numItems' = numItems - 1
              ELSE /\ slots' = written
                   /\ numItems' = numItems + 1
  /\ ToNative
  /\ call' = [call EXCEPT ![t] = Idle]

NextKeyItem ==
  \/ \E t \in Threads, item \in Items : AddKeyItem(t, item) \/ RemoveKeyItem(t, item)
  \/ \E t \in Threads, old, new \in Position : BeginMove(t, old, new)
  \/ \E t \in Threads, position \in Position, item \in Items \cup {NoItem} :
       BeginSetKeyItem(t, position, item)
  \/ \E t \in Threads : Move(t) \/ SetKeyItem(t) \/ RefuseSetItem(t)

-----------------------------------------------------------------------------
(* The native list holds the items that the pocket shows, in the same      *)
(* slots, and their number.                                                *)
SavesWhatItShows ==
  native = [items |-> slots, count |-> numItems]

(* The native count never lags; where the native list was right before a   *)
(* call it is right after it, unless that call is remove(), and then it    *)
(* differs only behind the item that was removed.                          *)
OnlyRemovalLags ==
  [][ /\ native'.count = NativeCount(numItems')
      /\ SavesWhatItShows =>
           \/ SavesWhatItShows'
           \/ \E t \in Threads, item \in Items :
                /\ RemoveKeyItem(t, item)
                /\ \A p \in Position :
                     native'.items[p] # slots'[p] => \E q \in Position : q < p /\ slots[q].item = item ]_vars
=============================================================================
