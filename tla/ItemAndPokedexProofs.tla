------------------------ MODULE ItemAndPokedexProofs ------------------------
(***************************************************************************)
(* Theorems about items, in three parts.  Item lists, for every capacity,  *)
(* every set of items and any number of concurrent callers, careful or     *)
(* not.  The Pokedex, for every number of species: the vectors behind a    *)
(* lowered dirty flag are exact, no call makes a species caught but        *)
(* unseen, and the cached Pokedex implements the register without a cache. *)
(* Item bags: first the bag that several callers share                     *)
(* (module ItemBag), for any number of callers and any order of pockets:   *)
(* the discipline of its two kinds of mutex is enough for whole copies;    *)
(* then the bag of Generation II (module Gen2Bag), for any capacity of the *)
(* key item pocket and any number of machines.  What is said of both bags  *)
(* at once, CopiesAreCurrent, is stated in MCBags, of which nothing else   *)
(* is used.                                                                *)
(***************************************************************************)
EXTENDS MCBags, FiniteSetTheorems, TLAPS

(* The one-byte count of a native list always has a value. *)
LEMMA NativeCountType == \A n \in Int : NativeCount(n) \in 0..255
BY DEF NativeCount

(* A vector keeps its length and holds slots after an erase... *)
LEMMA ErasedType ==
  ASSUME NEW s \in [Position -> Slot], NEW position \in Position
  PROVE  Erased(s, position) \in [Position -> Slot]
<1>1. EmptySlot \in Slot
  BY ConstantsAssumption DEF EmptySlot, Slot
<1>2. \A p \in Position : p + 1 < Capacity => p + 1 \in Position
  BY ConstantsAssumption DEF Position
<1>3. QED
  BY <1>1, <1>2 DEF Erased

(* ...and after a move. *)
LEMMA MovedType ==
  ASSUME NEW s \in [Position -> Slot], NEW old \in Position, NEW new \in Position
  PROVE  Moved(s, old, new) \in [Position -> Slot]
<1>1. \A p \in Position : p < new => p + 1 \in Position
  BY ConstantsAssumption DEF Position
<1>2. \A p \in Position : new < p => p - 1 \in Position
  BY ConstantsAssumption DEF Position
<1>3. QED
  BY <1>1, <1>2, ConstantsAssumption DEF Moved, Position

(* A slot is a slot again after one of its fields is assigned. *)
LEMMA WrittenType ==
  ASSUME NEW s \in [Position -> Slot], NEW p \in Position, NEW amount \in 0..MaxAmount
  PROVE  /\ [s EXCEPT ![p].amount = amount] \in [Position -> Slot]
         /\ \A item \in Items \cup {NoItem} :
              [s EXCEPT ![p] = [item |-> item, amount |-> amount]] \in [Position -> Slot]
<1>1. [s[p] EXCEPT !.amount = amount] \in Slot
  BY DEF Slot
<1>2. \A item \in Items \cup {NoItem} : [item |-> item, amount |-> amount] \in Slot
  BY DEF Slot
<1>3. QED
  BY <1>1, <1>2

-----------------------------------------------------------------------------
(* What is inductive: the types, and that the native list mirrors the      *)
(* slots.  The mirror needs the types (a one-slot copy of a position       *)
(* outside the vector would copy nothing), the types need the mirror (a    *)
(* reload takes its slots from the native list).                           *)
IInv == TypeOK /\ NativeMirrors

(* _to_native() of one slot or of all of them restores the mirror. *)
LEMMA CopyRestoresMirror ==
  ASSUME IInv, slots' \in [Position -> Slot], numItems' \in Int,
         \/ ToNative
         \/ \E p \in Position :
              /\ ToNativeAt(p)
              /\ \A q \in Position \ {p} : slots'[q] = slots[q]
  PROVE  NativeMirrors' /\ native' \in [items : [Position -> Slot], count : 0..255]
<1>1. NativeCount(numItems') \in 0..255
  BY NativeCountType
<1>2. CASE ToNative
  BY <1>1, <1>2 DEF ToNative, NativeMirrors
<1>3. ASSUME NEW p \in Position, ToNativeAt(p),
             \A q \in Position \ {p} : slots'[q] = slots[q]
      PROVE  NativeMirrors' /\ native' \in [items : [Position -> Slot], count : 0..255]
  <2>1. [native.items EXCEPT ![p] = slots'[p]] = slots'
    BY <1>3 DEF IInv, TypeOK, NativeMirrors
  <2>2. QED
    BY <1>1, <1>3, <2>1 DEF ToNativeAt, NativeMirrors
<1>4. QED
  BY <1>2, <1>3

(* Every list starts as the image of its native list. *)
LEMMA InitInvariant == Init => IInv
<1> SUFFICES ASSUME Init PROVE IInv
  OBVIOUS
<1>1. native \in [items : [Position -> Slot], count : 0..255]
  <2>1. \A n \in 0..Capacity : NativeCount(n) \in 0..255
    BY NativeCountType, ConstantsAssumption
  <2>2. QED
    BY <2>1 DEF Init
<1>2. numItems \in Int
  BY <1>1 DEF Init
<1>3. native.count = NativeCount(numItems)
  BY <1>1 DEF Init, NativeCount
<1>4. call \in [Threads -> Call]
  BY DEF Init, Call
<1>5. QED
  BY <1>1, <1>2, <1>3, <1>4 DEF Init, IInv, TypeOK, NativeMirrors

(* Each call, and each half of a call that reads before it locks, keeps    *)
(* the mirror.                                                             *)
LEMMA StepInvariant == IInv /\ [Next]_vars => IInv'
<1> SUFFICES ASSUME IInv, [Next]_vars PROVE IInv'
  OBVIOUS
<1> USE ConstantsAssumption
<1>1. ASSUME NEW t \in Threads, NEW item \in Items \cup {NoItem}, NEW amount \in 1..MaxAmount,
             Add(t, item, amount)
      PROVE  IInv'
  <2>1. CASE AddMore(item, amount)
    <3>1. PICK p \in Position :
            /\ IsFirst(item, p)
            /\ slots[p].amount + amount <= MaxAmount
            /\ slots' = [slots EXCEPT ![p].amount = @ + amount]
            /\ UNCHANGED numItems
            /\ ToNativeAt(p)
      BY <2>1 DEF AddMore
    <3>2. slots[p].amount + amount \in 0..MaxAmount
      BY <3>1 DEF IInv, TypeOK, Slot
    <3>3. slots' \in [Position -> Slot]
      BY <3>1, <3>2, WrittenType DEF IInv, TypeOK
    <3>4. \A q \in Position \ {p} : slots'[q] = slots[q]
      BY <3>1 DEF IInv, TypeOK
    <3>5. numItems' \in Int
      BY <3>1 DEF IInv, TypeOK
    <3>6. QED
      BY <1>1, <3>1, <3>3, <3>4, <3>5, CopyRestoresMirror DEF Add, IInv, TypeOK
  <2>2. CASE AddNew(item, amount)
    <3>1. numItems \in Position
      BY <1>1, <2>2 DEF Add, AddNew, InBounds, Position
    <3>2. slots' \in [Position -> Slot]
      <4>1. amount \in 0..MaxAmount
        OBVIOUS
      <4>2. [slots EXCEPT ![numItems] = [item |-> item, amount |-> amount]]
              \in [Position -> Slot]
        BY <3>1, <4>1, WrittenType DEF IInv, TypeOK
      <4>3. QED
        BY <2>2, <4>2 DEF AddNew
    <3>3. \A q \in Position \ {numItems} : slots'[q] = slots[q]
      BY <2>2 DEF AddNew, IInv, TypeOK
    <3>4. numItems' \in Int /\ ToNativeAt(numItems)
      BY <2>2 DEF AddNew, IInv, TypeOK
    <3>5. QED
      BY <1>1, <3>1, <3>2, <3>3, <3>4, CopyRestoresMirror DEF Add, IInv, TypeOK
  <2>3. QED
    BY <1>1, <2>1, <2>2 DEF Add
<1>2. ASSUME NEW t \in Threads, NEW item \in Items \cup {NoItem}, NEW amount \in 1..MaxAmount,
             Remove(t, item, amount)
      PROVE  IInv'
  <2>1. CASE RemoveSome(item, amount)
    <3>1. PICK p \in Position :
            /\ IsFirst(item, p)
            /\ slots[p].amount > amount
            /\ slots' = [slots EXCEPT ![p].amount = @ - amount]
            /\ UNCHANGED numItems
            /\ ToNativeAt(p)
      BY <2>1 DEF RemoveSome
    <3>2. slots[p].amount - amount \in 0..MaxAmount
      BY <3>1 DEF IInv, TypeOK, Slot
    <3>3. slots' \in [Position -> Slot]
      BY <3>1, <3>2, WrittenType DEF IInv, TypeOK
    <3>4. \A q \in Position \ {p} : slots'[q] = slots[q]
      BY <3>1 DEF IInv, TypeOK
    <3>5. numItems' \in Int
      BY <3>1 DEF IInv, TypeOK
    <3>6. QED
      BY <1>2, <3>1, <3>3, <3>4, <3>5, CopyRestoresMirror DEF Remove, IInv, TypeOK
  <2>2. CASE RemoveLast(item, amount)
    <3>1. slots' \in [Position -> Slot]
      BY <2>2, ErasedType DEF RemoveLast, IInv, TypeOK
    <3>2. numItems' \in Int /\ ToNative
      BY <2>2 DEF RemoveLast, IInv, TypeOK
    <3>3. QED
      BY <1>2, <3>1, <3>2, CopyRestoresMirror DEF Remove, IInv, TypeOK
  <2>3. QED
    BY <1>2, <2>1, <2>2 DEF Remove
<1>3. ASSUME NEW t \in Threads, NEW old \in Position, NEW new \in Position,
             BeginMove(t, old, new)
      PROVE  IInv'
  <2>1. [op |-> "move", old |-> old, new |-> new] \in Call
    BY DEF Call
  <2>2. QED
    BY <1>3, <2>1 DEF BeginMove, IInv, TypeOK, NativeMirrors
<1>4. ASSUME NEW t \in Threads, NEW position \in Position, NEW item \in Items \cup {NoItem},
             NEW amount \in 0..MaxAmount, BeginSetItem(t, position, item, amount)
      PROVE  IInv'
  <2>1. Smaller(numItems, Capacity - 1) \in Position
    BY <1>4 DEF BeginSetItem, Smaller, Position, IInv, TypeOK
  <2>2. [op |-> "set", position |-> position, item |-> item, amount |-> amount,
         endBoundary |-> Smaller(numItems, Capacity - 1)] \in Call
    BY <2>1 DEF Call
  <2>3. QED
    BY <1>4, <2>2 DEF BeginSetItem, IInv, TypeOK, NativeMirrors
<1>5. ASSUME NEW t \in Threads, Move(t) PROVE IInv'
  <2>1. call[t].old \in Position /\ call[t].new \in Position
    BY <1>5 DEF Move, IInv, TypeOK, Call, Idle
  <2>2. slots' \in [Position -> Slot]
    BY <1>5, <2>1, MovedType DEF Move, IInv, TypeOK
  <2>3. numItems' \in Int /\ ToNative
    BY <1>5 DEF Move, IInv, TypeOK
  <2>4. call' \in [Threads -> Call]
    BY <1>5 DEF Move, IInv, TypeOK, Call
  <2>5. QED
    BY <2>2, <2>3, <2>4, CopyRestoresMirror DEF IInv, TypeOK
<1>6. ASSUME NEW t \in Threads, SetItem(t) PROVE IInv'
  <2> DEFINE c == call[t]
             written == [slots EXCEPT ![c.position] = [item |-> c.item, amount |-> c.amount]]
  <2>1. c.position \in Position /\ c.item \in Items \cup {NoItem} /\ c.amount \in 0..MaxAmount
    BY <1>6 DEF SetItem, IInv, TypeOK, Call, Idle
  <2>2. written \in [Position -> Slot]
    BY <2>1, WrittenType DEF IInv, TypeOK
  <2>3. Erased(written, c.position) \in [Position -> Slot]
    BY <2>1, <2>2, ErasedType
  <2>4. slots' \in [Position -> Slot]
    BY <1>6, <2>2, <2>3 DEF SetItem
  <2>5. numItems' \in Int /\ ToNative
    BY <1>6 DEF SetItem, IInv, TypeOK
  <2>6. call' \in [Threads -> Call]
    BY <1>6 DEF SetItem, IInv, TypeOK, Call
  <2>7. QED
    BY <2>4, <2>5, <2>6, CopyRestoresMirror DEF IInv, TypeOK
<1>7. ASSUME NEW t \in Threads, RefuseSetItem(t) PROVE IInv'
  <2>1. call' \in [Threads -> Call]
    BY <1>7 DEF RefuseSetItem, IInv, TypeOK, Call
  <2>2. QED
    BY <1>7, <2>1 DEF RefuseSetItem, IInv, TypeOK, NativeMirrors
<1>8. CASE Reload
  <2>1. native.count = NativeCount(numItems')
    <3>1. native.count \in 0..255
      BY DEF IInv, TypeOK
    <3>2. native.count = NativeCount(numItems)
      BY DEF IInv, NativeMirrors
    <3>3. QED
      BY <1>8, <3>1, <3>2 DEF Reload, FromNative, NativeCount
  <2>2. numItems' \in Int
    BY <1>8 DEF Reload, FromNative, IInv, TypeOK
  <2>3. QED
    BY <1>8, <2>1, <2>2 DEF Reload, FromNative, IInv, TypeOK, NativeMirrors
<1>9. CASE UNCHANGED vars
  BY <1>9 DEF vars, IInv, TypeOK, NativeMirrors
<1>10. QED
  BY <1>1, <1>2, <1>3, <1>4, <1>5, <1>6, <1>7, <1>8, <1>9 DEF Next

LEMMA Invariance == Spec => []IInv
BY InitInvariant, StepInvariant, PTL DEF Spec

(* Slots, counts and the calls under way always have their types, also     *)
(* where the number of items has left the list.                            *)
THEOREM ListTypeCorrect == Spec => []TypeOK
<1>1. IInv => TypeOK
  BY DEF IInv
<1>2. QED
  BY <1>1, Invariance, PTL

(* The native list, which is what a save is written from, equals the slots *)
(* and the count after every step of any number of callers.                *)
THEOREM NativeListMirrors == Spec => []NativeMirrors
<1>1. IInv => NativeMirrors
  BY DEF IInv
<1>2. QED
  BY <1>1, Invariance, PTL
-----------------------------------------------------------------------------
(* What a list is to its callers, as a fact about a vector and a count.    *)
Orderly(s, n) ==
  /\ \A p \in Position : InUse(s, p) <=> p < n
  /\ \A p, q \in Position : InUse(s, p) /\ s[p].item = s[q].item => p = q
  /\ \A p \in Position : InUse(s, p) <=> s[p].amount > 0

LEMMA OrderlyMeansWellFormed ==
  Orderly(slots, numItems) <=> CountIsExact /\ NoDuplicates /\ AmountsFit
BY DEF Orderly, CountIsExact, NoDuplicates, AmountsFit

(* Erasing an item lets the later ones move up and leaves a list of one    *)
(* item less.                                                              *)
LEMMA ErasedOrderly ==
  ASSUME NEW s \in [Position -> Slot], NEW n \in 0..Capacity, NEW position \in Position,
         position < n, Orderly(s, n)
  PROVE  Orderly(Erased(s, position), n - 1)
<1> DEFINE e == Erased(s, position)
<1>1. ASSUME NEW p \in Position
      PROVE  e[p] = IF p < position THEN s[p]
                    ELSE IF p + 1 < Capacity THEN s[p + 1] ELSE EmptySlot
  BY <1>1 DEF Erased
<1>2. \A p \in Position : p + 1 < Capacity => p + 1 \in Position
  BY ConstantsAssumption DEF Position
<1>3. ~InUse([p \in Position |-> EmptySlot], position) /\ EmptySlot.item = NoItem /\ EmptySlot.amount = 0
  BY DEF InUse, EmptySlot
<1>4. \A p \in Position : InUse(e, p) <=> p < n - 1
  BY <1>1, <1>2, <1>3, ConstantsAssumption DEF InUse, Orderly, Position
<1>5. \A p, q \in Position : InUse(e, p) /\ e[p].item = e[q].item => p = q
  BY <1>1, <1>2, <1>3, ConstantsAssumption DEF InUse, Orderly, Position
<1>6. \A p \in Position : InUse(e, p) <=> e[p].amount > 0
  BY <1>1, <1>2, <1>3, ConstantsAssumption DEF InUse, Orderly, Position
<1>7. QED
  BY <1>4, <1>5, <1>6 DEF Orderly

(* A move among the items of a list leaves the same items: each position   *)
(* gets the slot of another one, no two the same.                          *)
LEMMA MovedOrderly ==
  ASSUME NEW s \in [Position -> Slot], NEW n \in 0..Capacity,
         NEW old \in Position, NEW new \in Position, old < n, new < n, Orderly(s, n)
  PROVE  Orderly(Moved(s, old, new), n)
<1> DEFINE From(p) == IF p = new THEN old
                      ELSE IF old <= p /\ p < new THEN p + 1
                      ELSE IF new < p /\ p <= old THEN p - 1
                      ELSE p
<1>1. \A p \in Position : From(p) \in Position /\ (From(p) < n <=> p < n)
  BY ConstantsAssumption DEF Position
<1>2. \A p, q \in Position : From(p) = From(q) => p = q
  BY ConstantsAssumption DEF Position
<1>3. \A p \in Position : Moved(s, old, new)[p] = s[From(p)]
  BY DEF Moved
<1> HIDE DEF From
<1>4. QED
  BY <1>1, <1>2, <1>3 DEF Orderly, InUse

(* Another amount of the item in a slot. *)
LEMMA AmountOrderly ==
  ASSUME NEW s \in [Position -> Slot], NEW n \in 0..Capacity, NEW p \in Position,
         InUse(s, p), NEW amount \in 1..MaxAmount, Orderly(s, n)
  PROVE  Orderly([s EXCEPT ![p].amount = amount], n)
BY DEF Orderly, InUse, Slot

(* A slot that is written: an item that is nowhere else, over one of the   *)
(* list's items or right behind them.                                      *)
LEMMA WrittenOrderly ==
  ASSUME NEW s \in [Position -> Slot], NEW n \in 0..Capacity, NEW p \in Position, p <= n,
         NEW item \in Items, NEW amount \in 1..MaxAmount, Orderly(s, n),
         \A q \in Position : q # p /\ q < n => s[q].item # item
  PROVE  Orderly([s EXCEPT ![p] = [item |-> item, amount |-> amount]], IF p = n THEN n + 1 ELSE n)
<1> DEFINE w == [s EXCEPT ![p] = [item |-> item, amount |-> amount]]
<1>1. w[p].item = item /\ w[p].amount = amount /\ item # NoItem
  BY ConstantsAssumption
<1>2. \A q \in Position \ {p} : w[q] = s[q]
  OBVIOUS
<1>3. \A q \in Position \ {p} : s[q].item # item
  BY ConstantsAssumption DEF Orderly, InUse
<1> HIDE DEF w
<1>4. \A q \in Position : InUse(w, q) <=> q < IF p = n THEN n + 1 ELSE n
  BY <1>1, <1>2 DEF Orderly, InUse, Position
<1>5. \A q, r \in Position : InUse(w, q) /\ w[q].item = w[r].item => q = r
  BY <1>1, <1>2, <1>3 DEF Orderly, InUse
<1>6. \A q \in Position : InUse(w, q) <=> w[q].amount > 0
  BY <1>1, <1>2 DEF Orderly, InUse
<1>7. QED
  BY <1>4, <1>5, <1>6 DEF Orderly, w

-----------------------------------------------------------------------------
(* Callers for which a list keeps its promise: one after the other, and    *)
(* not over its end; on a list whose native form has a count, which one    *)
(* byte holds.                                                             *)
OneCarefulCaller ==
  /\ CarefulCallers
  /\ NativeHasCount /\ Capacity < 256
  /\ \A t, u \in Threads : t = u

(* What a half call has read still holds when it gets to the lock. *)
StillTrue(c) ==
  /\ c.op = "move" => c.old < numItems /\ c.new < numItems
  /\ c.op = "set" =>
       /\ Settable(c.item, c.amount)
       /\ c.endBoundary = Smaller(numItems, Capacity - 1)
       /\ c.position <= c.endBoundary
       /\ ~TouchesEnd(c.position, c.item)

(* The inductive invariant of ListIsWellFormed. *)
SoleInv ==
  /\ IInv
  /\ InBounds
  /\ Orderly(slots, numItems)
  /\ \A t \in Threads : StillTrue(call[t])

LEMMA SoleInit == OneCarefulCaller /\ Init => SoleInv
<1> SUFFICES ASSUME OneCarefulCaller, Init PROVE SoleInv
  OBVIOUS
<1>1. PICK n \in 0..Capacity :
        /\ native.count = NativeCount(n)
        /\ \A p \in Position :
             IF p < n
               THEN /\ InUse(native.items, p)
                    /\ native.items[p].amount > 0
                    /\ \A q \in Position : q < p => native.items[q].item # native.items[p].item
               ELSE native.items[p] = EmptySlot
  BY DEF Init, WellFormed
<1>2. numItems = n
  BY <1>1, ConstantsAssumption DEF Init, NativeCount, OneCarefulCaller
<1>3. Orderly(slots, n)
  BY <1>1 DEF Init, Orderly, InUse, EmptySlot, Position
<1>4. \A t \in Threads : StillTrue(call[t])
  BY DEF Init, Idle, StillTrue
<1>5. QED
  BY <1>1, <1>2, <1>3, <1>4, InitInvariant DEF SoleInv, InBounds

(* No half call is under way: nothing to be still true. *)
LEMMA NothingUnderWay ==
  ASSUME OneCarefulCaller, NEW t \in Threads, call'[t] = Idle
  PROVE  \A u \in Threads : StillTrue(call[u])'
BY DEF OneCarefulCaller, StillTrue, Idle

LEMMA SoleStep == OneCarefulCaller /\ SoleInv /\ [Next]_vars => SoleInv'
<1> SUFFICES ASSUME OneCarefulCaller, SoleInv, [Next]_vars PROVE SoleInv'
  OBVIOUS
<1> USE ConstantsAssumption
<1>0. IInv' /\ slots \in [Position -> Slot] /\ numItems \in 0..Capacity
  BY StepInvariant DEF SoleInv, IInv, TypeOK, InBounds
<1>1. ASSUME NEW t \in Threads, NEW item \in Items \cup {NoItem}, NEW amount \in 1..MaxAmount,
             Add(t, item, amount)
      PROVE  SoleInv'
  <2>1. item \in Items /\ call'[t] = Idle
    BY <1>1 DEF Add, OneCarefulCaller
  <2>2. CASE AddMore(item, amount)
    <3>1. PICK p \in Position :
            /\ IsFirst(item, p)
            /\ slots[p].amount + amount <= MaxAmount
            /\ slots' = [slots EXCEPT ![p].amount = @ + amount]
            /\ UNCHANGED numItems
      BY <2>2 DEF AddMore
    <3>2. InUse(slots, p) /\ slots[p].amount + amount \in 1..MaxAmount
      BY <2>1, <3>1, <1>0 DEF IsFirst, InUse, Slot
    <3>3. Orderly(slots, numItems)'
      BY <3>1, <3>2, <1>0, AmountOrderly DEF SoleInv
    <3>4. QED
      BY <1>0, <2>1, <3>1, <3>3, NothingUnderWay DEF SoleInv, InBounds
  <2>3. CASE AddNew(item, amount)
    <3>1. numItems \in Position /\ numItems' = numItems + 1
      BY <1>0, <2>3 DEF AddNew, Position
    <3>2. slots' = [slots EXCEPT ![numItems] = [item |-> item, amount |-> amount]]
      BY <2>3 DEF AddNew
    <3>3. \A q \in Position : q # numItems /\ q < numItems => slots[q].item # item
      BY <2>3 DEF AddNew, Present
    <3>4. Orderly([slots EXCEPT ![numItems] = [item |-> item, amount |-> amount]],
                  IF numItems = numItems THEN numItems + 1 ELSE numItems)
      <4> HIDE DEF Orderly
      <4>1. Orderly(slots, numItems) /\ numItems <= numItems
        BY <1>0 DEF SoleInv
      <4>2. QED
        BY <1>0, <2>1, <3>1, <3>3, <4>1, WrittenOrderly
    <3>5. Orderly(slots, numItems)'
      BY <3>1, <3>2, <3>4
    <3>6. QED
      BY <1>0, <2>1, <3>1, <3>5, NothingUnderWay DEF SoleInv, InBounds, Position
  <2>4. QED
    BY <1>1, <2>2, <2>3 DEF Add
<1>2. ASSUME NEW t \in Threads, NEW item \in Items \cup {NoItem}, NEW amount \in 1..MaxAmount,
             Remove(t, item, amount)
      PROVE  SoleInv'
  <2>1. item \in Items /\ call'[t] = Idle
    BY <1>2 DEF Remove, OneCarefulCaller
  <2>2. CASE RemoveSome(item, amount)
    <3>1. PICK p \in Position :
            /\ IsFirst(item, p)
            /\ slots[p].amount > amount
            /\ slots' = [slots EXCEPT ![p].amount = @ - amount]
            /\ UNCHANGED numItems
      BY <2>2 DEF RemoveSome
    <3>2. InUse(slots, p) /\ slots[p].amount - amount \in 1..MaxAmount
      BY <2>1, <3>1, <1>0 DEF IsFirst, InUse, Slot
    <3>3. Orderly(slots, numItems)'
      BY <3>1, <3>2, <1>0, AmountOrderly DEF SoleInv
    <3>4. QED
      BY <1>0, <2>1, <3>1, <3>3, NothingUnderWay DEF SoleInv, InBounds
  <2>3. CASE RemoveLast(item, amount)
    <3>1. PICK p \in Position :
            IsFirst(item, p) /\ slots' = Erased(slots, p) /\ numItems' = numItems - 1
      BY <2>3 DEF RemoveLast
    <3>2. p < numItems
      BY <3>1 DEF IsFirst
    <3>3. Orderly(slots, numItems)'
      BY <1>0, <3>1, <3>2, ErasedOrderly DEF SoleInv
    <3>4. numItems' \in 0..Capacity
      BY <1>0, <3>1, <3>2 DEF Position
    <3>5. QED
      BY <1>0, <2>1, <3>3, <3>4, NothingUnderWay DEF SoleInv, InBounds
  <2>4. QED
    BY <1>2, <2>2, <2>3 DEF Remove
<1>3. ASSUME NEW t \in Threads, NEW old \in Position, NEW new \in Position, BeginMove(t, old, new)
      PROVE  SoleInv'
  <2>1. StillTrue(call'[t]) /\ UNCHANGED <<slots, numItems>>
    BY <1>3 DEF BeginMove, StillTrue, SoleInv, IInv, TypeOK
  <2>2. \A u \in Threads : StillTrue(call[u])'
    BY <2>1 DEF OneCarefulCaller, StillTrue, TouchesEnd
  <2>3. QED
    BY <1>0, <2>1, <2>2 DEF SoleInv, InBounds
<1>4. ASSUME NEW t \in Threads, NEW position \in Position, NEW item \in Items \cup {NoItem},
             NEW amount \in 0..MaxAmount, BeginSetItem(t, position, item, amount)
      PROVE  SoleInv'
  <2>1. StillTrue(call'[t]) /\ UNCHANGED <<slots, numItems>>
    BY <1>4 DEF BeginSetItem, StillTrue, SoleInv, IInv, TypeOK, OneCarefulCaller
  <2>2. \A u \in Threads : StillTrue(call[u])'
    BY <2>1 DEF OneCarefulCaller, StillTrue, TouchesEnd
  <2>3. QED
    BY <1>0, <2>1, <2>2 DEF SoleInv, InBounds
<1>5. ASSUME NEW t \in Threads, Move(t) PROVE SoleInv'
  <2>1. call[t].old \in Position /\ call[t].new \in Position
    BY <1>5 DEF Move, SoleInv, IInv, TypeOK, Call, Idle
  <2>2. call[t].old < numItems /\ call[t].new < numItems
    BY <1>5 DEF Move, SoleInv, StillTrue
  <2>3. Orderly(slots, numItems)'
    BY <1>0, <1>5, <2>1, <2>2, MovedOrderly DEF Move, SoleInv
  <2>4. call'[t] = Idle
    BY <1>5 DEF Move, SoleInv, IInv, TypeOK
  <2>5. QED
    BY <1>0, <1>5, <2>3, <2>4, NothingUnderWay DEF Move, SoleInv, InBounds
<1>6. ASSUME NEW t \in Threads, SetItem(t) PROVE SoleInv'
  <2> DEFINE c == call[t]
             written == [slots EXCEPT ![c.position] = [item |-> c.item, amount |-> c.amount]]
  <2>1. /\ c.position \in Position /\ c.item \in Items \cup {NoItem} /\ c.amount \in 0..MaxAmount
        /\ Settable(c.item, c.amount)
        /\ c.endBoundary = Smaller(numItems, Capacity - 1)
        /\ c.position <= c.endBoundary
        /\ ~TouchesEnd(c.position, c.item)
    BY <1>6 DEF SetItem, SoleInv, IInv, TypeOK, Call, Idle, StillTrue
  <2>2. call'[t] = Idle
    BY <1>6 DEF SetItem, SoleInv, IInv, TypeOK
  <2>3. CASE c.item = NoItem
    <3>1. c.position < numItems /\ c.position < c.endBoundary
      BY <1>0, <2>1, <2>3 DEF TouchesEnd, Smaller, Position
    <3>2. slots' = Erased(written, c.position) /\ numItems' = numItems - 1
      BY <1>6, <2>3, <3>1 DEF SetItem
    <3>3. Erased(written, c.position) = Erased(slots, c.position)
      BY <1>0, <2>1 DEF Erased, Position
    <3>4. Orderly(slots, numItems)'
      BY <1>0, <2>1, <3>1, <3>2, <3>3, ErasedOrderly DEF SoleInv
    <3>5. numItems' \in 0..Capacity
      BY <1>0, <2>1, <3>1, <3>2 DEF Position
    <3>6. QED
      BY <1>0, <2>2, <3>4, <3>5, NothingUnderWay DEF SoleInv, InBounds
  <2>4. CASE c.item # NoItem
    <3>1. c.item \in Items /\ c.amount \in 1..MaxAmount
      BY <2>1, <2>4 DEF Settable
    <3>2. ~PresentElsewhere(c.item, c.position)
      BY <1>6, <2>4 DEF SetItem
    <3>3. slots' = written /\ numItems' = IF c.position = c.endBoundary THEN numItems + 1 ELSE numItems
      BY <1>6, <2>4 DEF SetItem
    <3>4. c.position <= numItems /\ (c.position = c.endBoundary <=> c.position = numItems)
      BY <1>0, <2>1 DEF TouchesEnd, Smaller, Position
    <3>5. \A q \in Position : q # c.position /\ q < numItems => slots[q].item # c.item
      BY <3>2 DEF PresentElsewhere
    <3>6. Orderly(slots, numItems)'
      BY <1>0, <2>1, <3>1, <3>3, <3>4, <3>5, WrittenOrderly DEF SoleInv
    <3>7. numItems' \in 0..Capacity
      BY <1>0, <2>1, <3>3, <3>4 DEF Position
    <3>8. QED
      BY <1>0, <2>2, <3>6, <3>7, NothingUnderWay DEF SoleInv, InBounds
  <2>5. QED
    BY <2>3, <2>4
<1>7. ASSUME NEW t \in Threads, RefuseSetItem(t) PROVE SoleInv'
  <2>1. call'[t] = Idle
    BY <1>7 DEF RefuseSetItem, SoleInv, IInv, TypeOK
  <2>2. QED
    BY <1>0, <1>7, <2>1, NothingUnderWay DEF RefuseSetItem, SoleInv, InBounds
<1>8. CASE Reload
  <2>1. slots' = slots /\ numItems' = numItems
    BY <1>0, <1>8 DEF Reload, FromNative, SoleInv, IInv, NativeMirrors, NativeCount, OneCarefulCaller
  <2>2. \A u \in Threads : StillTrue(call[u])'
    BY <1>8 DEF Reload, StillTrue, Idle
  <2>3. QED
    BY <1>0, <2>1, <2>2 DEF SoleInv, InBounds
<1>9. CASE UNCHANGED vars
  BY <1>0, <1>9 DEF vars, SoleInv, InBounds, StillTrue, TouchesEnd
<1>10. QED
  BY <1>1, <1>2, <1>3, <1>4, <1>5, <1>6, <1>7, <1>8, <1>9 DEF Next

(* One caller at a time who stays within the list, in a game whose native  *)
(* list has a count: the list is distinct items without gaps, each in an   *)
(* amount of at least 1, and the count says how many they are, whatever    *)
(* is added, removed, moved, set, saved and loaded.                        *)
THEOREM ListWellFormed ==
  ASSUME OneCarefulCaller
  PROVE  Spec => []ListIsWellFormed
<1>1. Init => SoleInv
  BY SoleInit
<1>2. SoleInv /\ [Next]_vars => SoleInv'
  BY SoleStep
<1>3. SoleInv => ListIsWellFormed
  BY OrderlyMeansWellFormed DEF SoleInv, IInv, ListIsWellFormed
<1>4. QED
  BY <1>1, <1>2, <1>3, PTL DEF Spec

-----------------------------------------------------------------------------
(* The amounts of a vector of slots, Held being those of the list's.       *)
HeldIn(s) ==
  [item \in Items |->
     IF \E p \in Position : s[p].item = item
       THEN s[CHOOSE p \in Position : s[p].item = item].amount
       ELSE 0]

(* In a list without duplicates, what is held of an item is the amount of  *)
(* the slot it is in, or 0 if it is in none.                               *)
LEMMA HeldThere ==
  ASSUME NEW s \in [Position -> Slot], NEW n \in 0..Capacity, Orderly(s, n),
         NEW p \in Position, InUse(s, p)
  PROVE  s[p].item \in Items /\ s[p].amount \in 1..MaxAmount /\ HeldIn(s)[s[p].item] = s[p].amount
<1>1. s[p].item \in Items /\ s[p].amount \in 1..MaxAmount
  BY ConstantsAssumption DEF InUse, Slot, Orderly
<1>2. \A q \in Position : s[q].item = s[p].item => q = p
  BY DEF Orderly
<1> DEFINE found == CHOOSE q \in Position : s[q].item = s[p].item
<1>3. found \in Position /\ s[found].item = s[p].item
  OBVIOUS
<1>4. found = p
  BY <1>2, <1>3
<1>5. HeldIn(s)[s[p].item] = s[found].amount
  BY <1>1 DEF HeldIn
<1>6. QED
  BY <1>1, <1>4, <1>5

LEMMA HeldNowhere ==
  ASSUME NEW s, NEW item \in Items, \A p \in Position : s[p].item # item
  PROVE  HeldIn(s)[item] = 0
BY DEF HeldIn

(* Two lists hold the same of an item if the slots it is in are alike.     *)
LEMMA HeldAlike ==
  ASSUME NEW s \in [Position -> Slot], NEW n \in 0..Capacity, Orderly(s, n),
         NEW r \in [Position -> Slot], NEW m \in 0..Capacity, Orderly(r, m),
         NEW item \in Items,
         \A p \in Position : s[p].item = item => \E q \in Position : r[q] = s[p],
         \A q \in Position : r[q].item = item => \E p \in Position : s[p].item = item
  PROVE  HeldIn(r)[item] = HeldIn(s)[item]
<1>1. CASE \E p \in Position : s[p].item = item
  <2>1. PICK p \in Position : s[p].item = item
    BY <1>1
  <2>2. PICK q \in Position : r[q] = s[p]
    BY <2>1
  <2>3. InUse(s, p) /\ InUse(r, q)
    BY <2>1, <2>2, ConstantsAssumption DEF InUse
  <2>4. QED
    BY <2>1, <2>2, <2>3, HeldThere
<1>2. CASE ~\E p \in Position : s[p].item = item
  BY <1>2, HeldNowhere
<1>3. QED
  BY <1>1, <1>2

LEMMA HeldType ==
  ASSUME NEW s \in [Position -> Slot], NEW n \in 0..Capacity, Orderly(s, n)
  PROVE  HeldIn(s) \in [Items -> 0..MaxAmount]
<1>1. ASSUME NEW item \in Items PROVE HeldIn(s)[item] \in 0..MaxAmount
  <2>1. CASE \E p \in Position : s[p].item = item
    <3>1. PICK p \in Position : s[p].item = item
      BY <2>1
    <3>2. InUse(s, p)
      BY <3>1, ConstantsAssumption DEF InUse
    <3>3. QED
      BY <3>1, <3>2, HeldThere, ConstantsAssumption
  <2>2. CASE ~\E p \in Position : s[p].item = item
    BY <2>2, HeldNowhere, ConstantsAssumption
  <2>3. QED
    BY <2>1, <2>2
<1>2. HeldIn(s) = [item \in Items |-> HeldIn(s)[item]]
  BY DEF HeldIn
<1>3. QED
  BY <1>1, <1>2

(* How each change of the slots changes the amounts: another amount in a   *)
(* slot...                                                                 *)
LEMMA HeldOfAmount ==
  ASSUME NEW s \in [Position -> Slot], NEW n \in 0..Capacity, Orderly(s, n),
         NEW p \in Position, InUse(s, p), NEW amount \in 1..MaxAmount
  PROVE  HeldIn([s EXCEPT ![p].amount = amount]) = [HeldIn(s) EXCEPT ![s[p].item] = amount]
<1> DEFINE r == [s EXCEPT ![p].amount = amount]
<1>1. r \in [Position -> Slot] /\ Orderly(r, n)
  <2>1. amount \in 0..MaxAmount
    OBVIOUS
  <2>2. r \in [Position -> Slot]
    BY <2>1, WrittenType
  <2>3. Orderly(r, n)
    BY AmountOrderly
  <2>4. QED
    BY <2>2, <2>3
<1>2. r[p].item = s[p].item /\ r[p].amount = amount /\ \A q \in Position \ {p} : r[q] = s[q]
  BY DEF Slot
<1> HIDE DEF r
<1>3. HeldIn(r)[s[p].item] = amount
  BY <1>1, <1>2, HeldThere DEF InUse
<1>4. ASSUME NEW item \in Items, item # s[p].item PROVE HeldIn(r)[item] = HeldIn(s)[item]
  BY <1>1, <1>2, <1>4, HeldAlike
<1>5. s[p].item \in Items
  BY HeldThere
<1>6. HeldIn(r) \in [Items -> 0..MaxAmount] /\ HeldIn(s) \in [Items -> 0..MaxAmount]
  BY <1>1, HeldType
<1>7. QED
  BY <1>3, <1>4, <1>5, <1>6 DEF r

(* ...a slot that is written, over another one or behind them all...       *)
WrittenOver(s, n, p, item, amount, r) ==
  /\ s \in [Position -> Slot] /\ n \in 0..Capacity /\ Orderly(s, n)
  /\ p \in Position /\ p <= n
  /\ item \in Items /\ amount \in 1..MaxAmount
  /\ \A q \in Position : q # p /\ q < n => s[q].item # item
  /\ r = [s EXCEPT ![p] = [item |-> item, amount |-> amount]]

Exchanged(held, old, item, amount) == [held EXCEPT ![old] = 0, ![item] = amount]

LEMMA HeldOfWritten ==
  ASSUME NEW s, NEW n, NEW p, NEW item, NEW amount, NEW r, WrittenOver(s, n, p, item, amount, r)
  PROVE  /\ p = n => HeldIn(r) = [HeldIn(s) EXCEPT ![item] = amount]
         /\ p # n => HeldIn(r) = Exchanged(HeldIn(s), s[p].item, item, amount)
<1> DEFINE m == IF p = n THEN n + 1 ELSE n
<1>0. /\ s \in [Position -> Slot] /\ n \in 0..Capacity /\ Orderly(s, n)
      /\ p \in Position /\ p <= n /\ item \in Items /\ amount \in 1..MaxAmount
      /\ \A q \in Position : q # p /\ q < n => s[q].item # item
      /\ r = [s EXCEPT ![p] = [item |-> item, amount |-> amount]]
  BY DEF WrittenOver
<1>1. r \in [Position -> Slot] /\ Orderly(r, m) /\ m \in 0..Capacity
  <2>1. Orderly(r, m)
    BY <1>0, WrittenOrderly
  <2>2. amount \in 0..MaxAmount
    BY <1>0, ConstantsAssumption
  <2>3. r \in [Position -> Slot]
    BY <1>0, <2>2, WrittenType
  <2>4. m \in 0..Capacity
    BY <1>0, ConstantsAssumption DEF Position
  <2>5. QED
    BY <2>1, <2>3, <2>4
<1>2. r[p] = [item |-> item, amount |-> amount] /\ \A q \in Position \ {p} : r[q] = s[q]
  BY <1>0
<1> HIDE DEF m
<1>3. HeldIn(r)[item] = amount
  BY <1>0, <1>1, <1>2, HeldThere, ConstantsAssumption DEF InUse
<1>4. ASSUME NEW other \in Items, other # item, other # s[p].item
      PROVE  HeldIn(r)[other] = HeldIn(s)[other]
  <2>1. \A q \in Position : s[q].item = other => \E t \in Position : r[t] = s[q]
    BY <1>2, <1>4
  <2>2. \A q \in Position : r[q].item = other => \E t \in Position : s[t].item = other
    BY <1>2, <1>4
  <2>3. QED
    BY <1>0, <1>1, <2>1, <2>2, HeldAlike
<1>5. HeldIn(r) \in [Items -> 0..MaxAmount] /\ HeldIn(s) \in [Items -> 0..MaxAmount]
  BY <1>0, <1>1, HeldType
<1>6. CASE p = n
  <2>1. s[p].item \notin Items
    BY <1>0, <1>6, ConstantsAssumption DEF Orderly, InUse, Slot
  <2>2. QED
    BY <1>0, <1>3, <1>4, <1>5, <1>6, <2>1
<1>7. CASE p # n
  <2>1. InUse(s, p)
    BY <1>0, <1>7 DEF Orderly, Position
  <2>2. s[p].item \in Items /\ \A q \in Position : q # p => s[q].item # s[p].item
    BY <1>0, <2>1, HeldThere DEF Orderly
  <2>3. s[p].item # item => HeldIn(r)[s[p].item] = 0
    BY <1>0, <1>2, <2>2, HeldNowhere
  <2>4. QED
    BY <1>0, <1>3, <1>4, <1>5, <1>7, <2>2, <2>3 DEF Exchanged
<1>8. QED
  BY <1>6, <1>7

(* ...an erased slot...                                                    *)
LEMMA HeldOfErased ==
  ASSUME NEW s \in [Position -> Slot], NEW n \in 0..Capacity, NEW position \in Position,
         position < n, Orderly(s, n)
  PROVE  HeldIn(Erased(s, position)) = [HeldIn(s) EXCEPT ![s[position].item] = 0]
<1> DEFINE r == Erased(s, position)
<1>1. r \in [Position -> Slot] /\ Orderly(r, n - 1) /\ n - 1 \in 0..Capacity
  BY ErasedOrderly, ErasedType, ConstantsAssumption DEF Position
<1>2. \A p \in Position : r[p] = IF p < position THEN s[p]
                                 ELSE IF p + 1 < Capacity THEN s[p + 1] ELSE EmptySlot
  BY DEF Erased
<1>3. \A p \in Position : p + 1 < Capacity => p + 1 \in Position
  BY ConstantsAssumption DEF Position
<1> HIDE DEF r
<1>4. InUse(s, position) /\ s[position].item \in Items
  BY HeldThere DEF Orderly
<1>5. \A p \in Position : r[p].item # s[position].item
  <2>1. \A p \in Position : s[p].item = s[position].item => p = position
    BY <1>4 DEF Orderly
  <2>2. QED
    BY <1>2, <1>3, <1>4, <2>1, ConstantsAssumption DEF EmptySlot, Position
<1>6. HeldIn(r)[s[position].item] = 0
  BY <1>4, <1>5, HeldNowhere
<1>7. ASSUME NEW item \in Items, item # s[position].item PROVE HeldIn(r)[item] = HeldIn(s)[item]
  <2>1. \A p \in Position : s[p].item = item => \E q \in Position : r[q] = s[p]
    <3>1. SUFFICES ASSUME NEW p \in Position, s[p].item = item
                   PROVE  \E q \in Position : r[q] = s[p]
      OBVIOUS
    <3>2. CASE p < position
      BY <1>2, <3>1, <3>2
    <3>3. CASE p > position
      <4>1. p - 1 \in Position /\ p - 1 >= position /\ (p - 1) + 1 = p /\ p < Capacity
        BY <3>1, <3>3, ConstantsAssumption DEF Position
      <4>2. r[p - 1] = s[p]
        BY <1>2, <3>1, <3>3, <4>1, ConstantsAssumption DEF Position
      <4>3. QED
        BY <4>1, <4>2
    <3>4. p # position
      BY <1>7, <3>1
    <3>5. QED
      BY <3>1, <3>2, <3>3, <3>4 DEF Position
  <2>2. \A q \in Position : r[q].item = item => \E p \in Position : s[p].item = item
    BY <1>2, <1>3, ConstantsAssumption DEF EmptySlot
  <2>3. QED
    BY <1>1, <2>1, <2>2, HeldAlike
<1>8. HeldIn(r) \in [Items -> 0..MaxAmount] /\ HeldIn(s) \in [Items -> 0..MaxAmount]
  BY <1>1, HeldType
<1>9. QED
  BY <1>4, <1>6, <1>7, <1>8 DEF r

(* ...and a move, which changes no amount.                                 *)
LEMMA HeldOfMoved ==
  ASSUME NEW s \in [Position -> Slot], NEW n \in 0..Capacity,
         NEW old \in Position, NEW new \in Position, old < n, new < n, Orderly(s, n)
  PROVE  HeldIn(Moved(s, old, new)) = HeldIn(s)
<1> DEFINE r == Moved(s, old, new)
           To(p) == IF p = old THEN new
                    ELSE IF old < p /\ p <= new THEN p - 1
                    ELSE IF new <= p /\ p < old THEN p + 1
                    ELSE p
<1>1. r \in [Position -> Slot] /\ Orderly(r, n)
  BY MovedOrderly, MovedType
<1>2. \A p \in Position : To(p) \in Position /\ r[To(p)] = s[p]
  BY ConstantsAssumption DEF Moved, Position
<1>3. \A q \in Position : \E p \in Position : r[q] = s[p]
  <2>1. \A p \in Position : (p < new => p + 1 \in Position) /\ (new < p => p - 1 \in Position)
    BY ConstantsAssumption DEF Position
  <2>2. QED
    BY <2>1 DEF Moved
<1> HIDE DEF r, To
<1>4. ASSUME NEW item \in Items PROVE HeldIn(r)[item] = HeldIn(s)[item]
  BY <1>1, <1>2, <1>3, HeldAlike
<1>5. HeldIn(r) \in [Items -> 0..MaxAmount] /\ HeldIn(s) \in [Items -> 0..MaxAmount]
  BY <1>1, HeldType
<1>6. QED
  BY <1>4, <1>5 DEF r

(* There are as many kinds of items as items are counted.                  *)
LEMMA KindsAreCounted ==
  ASSUME NEW s \in [Position -> Slot], NEW n \in 0..Capacity, Orderly(s, n)
  PROVE  Cardinality({item \in Items : HeldIn(s)[item] > 0}) = n
<1> DEFINE K == {item \in Items : HeldIn(s)[item] > 0}
           f == [i \in 1..n |-> s[i - 1].item]
<1>1. \A i \in 1..n : i - 1 \in Position /\ InUse(s, i - 1)
  BY ConstantsAssumption DEF Position, Orderly
<1>2. \A i \in 1..n : s[i - 1].item \in K
  BY <1>1, HeldThere
<1>3. f \in [1..n -> K]
  BY <1>2
<1>4. \A i, j \in 1..n : f[i] = f[j] => i = j
  <2>1. \A i, j \in 1..n : s[i - 1].item = s[j - 1].item => i - 1 = j - 1
    BY <1>1 DEF Orderly
  <2>2. QED
    BY <2>1
<1>5. \A item \in K : \E i \in 1..n : f[i] = item
  <2>1. SUFFICES ASSUME NEW item \in K PROVE \E i \in 1..n : f[i] = item
    OBVIOUS
  <2>2. PICK p \in Position : s[p].item = item
    BY HeldNowhere
  <2>3. p < n
    BY <2>2, ConstantsAssumption DEF Orderly, InUse
  <2>4. p + 1 \in 1..n /\ (p + 1) - 1 = p
    BY <2>3 DEF Position
  <2>5. QED
    BY <2>2, <2>4
<1> HIDE DEF f, K
<1>6. f \in Bijection(1..n, K)
  BY <1>3, <1>4, <1>5 DEF Bijection, Injection, Surjection, IsInjective
<1>7. n \in Nat /\ ExistsBijection(1..n, K)
  BY <1>6 DEF ExistsBijection
<1>8. QED
  BY <1>7, FS_CountingElements DEF K

-----------------------------------------------------------------------------
(* The instance of the inventory counts as everyone does. *)
LEMMA CardinalityIsCardinality == \A S : Inventory!Cardinality(S) = Cardinality(S)
BY DEF Inventory!Cardinality, Cardinality

(* The refinement.  A list in order, which may be a key item pocket...     *)
InOrder ==
  /\ slots \in [Position -> Slot]
  /\ numItems \in 0..Capacity
  /\ Orderly(slots, numItems)

LEMMA SoleListIsInOrder == SoleInv => InOrder
BY DEF SoleInv, IInv, TypeOK, InBounds, InOrder

(* ...shows an inventory...                                                *)
LEMMA ShowsInventory ==
  ASSUME InOrder
  PROVE  /\ Held = HeldIn(slots)
         /\ Held \in [Items -> 0..MaxAmount]
         /\ Inventory!Cardinality(Inventory!Kinds) = numItems
<1>1. slots \in [Position -> Slot] /\ numItems \in 0..Capacity /\ Orderly(slots, numItems)
  BY DEF InOrder
<1>2. Held = HeldIn(slots)
  BY DEF Held, HeldIn
<1>3. QED
  BY <1>1, <1>2, HeldType, KindsAreCounted, CardinalityIsCardinality DEF Inventory!Kinds

LEMMA InventoryInit == InOrder => Inventory!Init
<1> SUFFICES ASSUME InOrder PROVE Inventory!Init
  OBVIOUS
<1>1. numItems <= Capacity
  BY ConstantsAssumption DEF InOrder
<1>2. QED
  BY <1>1, ShowsInventory DEF Inventory!Init

(* ...which a change of one slot's amount makes a gain or a loss...        *)
LEMMA AmountStep ==
  ASSUME InOrder, NEW p \in Position, InUse(slots, p), NEW amount \in 1..MaxAmount,
         slots' = [slots EXCEPT ![p].amount = amount], amount # slots[p].amount
  PROVE  Inventory!Next
<1> DEFINE item == slots[p].item
           old == slots[p].amount
<1>1. slots \in [Position -> Slot] /\ numItems \in 0..Capacity /\ Orderly(slots, numItems)
  BY DEF InOrder
<1>2. item \in Items /\ old \in 1..MaxAmount /\ Held[item] = old
  BY <1>1, HeldThere, ShowsInventory
<1>3. Held' = HeldIn(slots')
  BY DEF Held, HeldIn
<1>4. Held' = [Held EXCEPT ![item] = amount]
  <2>1. HeldIn([slots EXCEPT ![p].amount = amount]) = [HeldIn(slots) EXCEPT ![item] = amount]
    BY <1>1, HeldOfAmount
  <2>2. QED
    BY <1>3, <2>1, ShowsInventory
<1>5. item \in Inventory!Kinds
  BY <1>2, ConstantsAssumption DEF Inventory!Kinds
<1> HIDE DEF item, old
<1>6. CASE amount > old
  <2>1. amount - old \in 1..MaxAmount /\ Held[item] + (amount - old) = amount /\ amount <= MaxAmount
    BY <1>2, <1>6, ConstantsAssumption
  <2>2. Inventory!Gain(item, amount - old)
    BY <1>4, <1>5, <2>1 DEF Inventory!Gain
  <2>3. QED
    BY <1>2, <2>1, <2>2 DEF Inventory!Next
<1>7. CASE amount < old
  <2>1. old - amount \in 1..MaxAmount /\ Held[item] - (old - amount) = amount /\ old - amount <= Held[item]
    BY <1>2, <1>7, ConstantsAssumption
  <2>2. Inventory!Lose(item, old - amount)
    BY <1>4, <2>1 DEF Inventory!Lose
  <2>3. QED
    BY <1>2, <2>1, <2>2 DEF Inventory!Next
<1>8. QED
  BY <1>2, <1>6, <1>7, ConstantsAssumption DEF old

(* ...an erased slot a loss of all of an item...                           *)
LEMMA EraseStep ==
  ASSUME InOrder, NEW p \in Position, p < numItems, slots' = Erased(slots, p)
  PROVE  Inventory!Next
<1> DEFINE item == slots[p].item
           amount == slots[p].amount
<1>1. slots \in [Position -> Slot] /\ numItems \in 0..Capacity /\ Orderly(slots, numItems)
  BY DEF InOrder
<1>2. item \in Items /\ amount \in 1..MaxAmount /\ Held[item] = amount
  BY <1>1, HeldThere, ShowsInventory DEF Orderly
<1>3. Held' = HeldIn(slots')
  BY DEF Held, HeldIn
<1>4. Held' = [Held EXCEPT ![item] = 0]
  BY <1>1, <1>3, HeldOfErased, ShowsInventory
<1> HIDE DEF item, amount
<1>5. Held[item] - amount = 0 /\ amount <= Held[item]
  BY <1>2, ConstantsAssumption
<1>6. Inventory!Lose(item, amount)
  BY <1>4, <1>5 DEF Inventory!Lose
<1>7. QED
  BY <1>2, <1>6 DEF Inventory!Next

(* ...and a slot that is written a gain of a new item, or a replacement.   *)
LEMMA WriteStep ==
  ASSUME InOrder, NEW p \in Position, p <= numItems, NEW item \in Items, NEW amount \in 1..MaxAmount,
         Belongs(item), \A q \in Position : q # p /\ q < numItems => slots[q].item # item,
         slots' = [slots EXCEPT ![p] = [item |-> item, amount |-> amount]]
  PROVE  Inventory!Next
<1>1. slots \in [Position -> Slot] /\ numItems \in 0..Capacity /\ Orderly(slots, numItems)
  BY DEF InOrder
<1>2. Held = HeldIn(slots) /\ Held \in [Items -> 0..MaxAmount]
      /\ Inventory!Cardinality(Inventory!Kinds) = numItems
  BY ShowsInventory
<1>3. Held' = HeldIn(slots')
  BY DEF Held, HeldIn
<1>4. /\ p = numItems => Held' = [Held EXCEPT ![item] = amount]
      /\ p # numItems => Held' = [Held EXCEPT ![slots[p].item] = 0, ![item] = amount]
  <2>1. /\ p = numItems => HeldIn(slots') = [HeldIn(slots) EXCEPT ![item] = amount]
        /\ p # numItems => HeldIn(slots') = Exchanged(HeldIn(slots), slots[p].item, item, amount)
    <3>1. WrittenOver(slots, numItems, p, item, amount, slots')
      BY <1>1 DEF WrittenOver
    <3>2. QED
      BY <3>1, HeldOfWritten
  <2>2. QED
    BY <1>2, <1>3, <2>1 DEF Exchanged
<1>5. \A q \in Position \ {p} : slots[q].item # item
  BY <1>1, ConstantsAssumption DEF Orderly, InUse
<1>6. CASE p = numItems
  <2>1. slots[p].item # item
    BY <1>1, <1>6, ConstantsAssumption DEF Orderly, InUse
  <2>2. Held[item] = 0
    BY <1>2, <1>5, <2>1, HeldNowhere
  <2>3. Inventory!Cardinality(Inventory!Kinds) < Capacity
    BY <1>2, <1>6, ConstantsAssumption DEF Position
  <2>4. Held[item] + amount = amount /\ amount <= MaxAmount
    BY <2>2, ConstantsAssumption
  <2>5. Inventory!Gain(item, amount)
    BY <1>4, <1>6, <2>3, <2>4 DEF Inventory!Gain, Belongs
  <2>6. QED
    BY <2>5 DEF Inventory!Next
<1>7. CASE p # numItems
  <2>1. InUse(slots, p)
    BY <1>1, <1>7, ConstantsAssumption DEF Orderly, Position
  <2>2. slots[p].item \in Items /\ Held[slots[p].item] \in 1..MaxAmount
    BY <1>1, <1>2, <2>1, HeldThere
  <2>3. slots[p].item \in Inventory!Kinds
    BY <2>2, ConstantsAssumption DEF Inventory!Kinds
  <2>4. item # slots[p].item => item \notin Inventory!Kinds
    <3>1. item # slots[p].item => Held[item] = 0
      BY <1>2, <1>5, HeldNowhere
    <3>2. QED
      BY <3>1 DEF Inventory!Kinds
  <2>5. Inventory!Replace(slots[p].item, item, amount)
    BY <1>4, <1>7, <2>3, <2>4 DEF Inventory!Replace, Belongs
  <2>6. QED
    BY <2>2, <2>5 DEF Inventory!Next
<1>8. QED
  BY <1>6, <1>7

LEMMA InventoryStep ==
  OneCarefulCaller /\ SoleInv /\ [Next]_vars => [Inventory!Next]_Held
<1> SUFFICES ASSUME OneCarefulCaller, SoleInv, [Next]_vars
             PROVE  Inventory!Next \/ UNCHANGED Held
  OBVIOUS
<1>0. InOrder /\ slots \in [Position -> Slot] /\ numItems \in 0..Capacity /\ Orderly(slots, numItems)
  BY SoleListIsInOrder DEF InOrder
<1>1. slots' = slots => UNCHANGED Held
  BY DEF Held
<1>2. ASSUME NEW t \in Threads, NEW item \in Items \cup {NoItem}, NEW amount \in 1..MaxAmount,
             Add(t, item, amount)
      PROVE  Inventory!Next
  <2>1. item \in Items
    BY <1>2 DEF Add, OneCarefulCaller
  <2>2. CASE AddMore(item, amount)
    <3>1. PICK p \in Position :
            /\ IsFirst(item, p)
            /\ slots[p].amount + amount <= MaxAmount
            /\ slots' = [slots EXCEPT ![p].amount = @ + amount]
      BY <2>2 DEF AddMore
    <3>2. /\ InUse(slots, p) /\ slots[p].amount + amount \in 1..MaxAmount
          /\ slots[p].amount + amount # slots[p].amount
      BY <2>1, <3>1, <1>0, ConstantsAssumption DEF IsFirst, InUse, Slot
    <3>3. slots' = [slots EXCEPT ![p].amount = slots[p].amount + amount]
      BY <3>1
    <3>4. QED
      BY <1>0, <3>2, <3>3, AmountStep
  <2>3. CASE AddNew(item, amount)
    <3>1. numItems \in Position /\ numItems <= numItems
      BY <1>0, <2>3, ConstantsAssumption DEF AddNew, Position
    <3>2. \A q \in Position : q # numItems /\ q < numItems => slots[q].item # item
      BY <2>3 DEF AddNew, Present
    <3>3. QED
      BY <1>0, <2>1, <2>3, <3>1, <3>2, WriteStep DEF AddNew
  <2>4. QED
    BY <1>2, <2>2, <2>3 DEF Add
<1>3. ASSUME NEW t \in Threads, NEW item \in Items \cup {NoItem}, NEW amount \in 1..MaxAmount,
             Remove(t, item, amount)
      PROVE  Inventory!Next
  <2>1. item \in Items
    BY <1>3 DEF Remove, OneCarefulCaller
  <2>2. CASE RemoveSome(item, amount)
    <3>1. PICK p \in Position :
            /\ IsFirst(item, p)
            /\ slots[p].amount > amount
            /\ slots' = [slots EXCEPT ![p].amount = @ - amount]
      BY <2>2 DEF RemoveSome
    <3>2. /\ InUse(slots, p) /\ slots[p].amount - amount \in 1..MaxAmount
          /\ slots[p].amount - amount # slots[p].amount
      BY <2>1, <3>1, <1>0, ConstantsAssumption DEF IsFirst, InUse, Slot
    <3>3. slots' = [slots EXCEPT ![p].amount = slots[p].amount - amount]
      BY <3>1
    <3>4. QED
      BY <1>0, <3>2, <3>3, AmountStep
  <2>3. CASE RemoveLast(item, amount)
    BY <1>0, <2>3, EraseStep DEF RemoveLast, IsFirst
  <2>4. QED
    BY <1>3, <2>2, <2>3 DEF Remove
<1>4. ASSUME NEW t \in Threads, Move(t) PROVE UNCHANGED Held
  <2>1. call[t].old \in Position /\ call[t].new \in Position
    BY <1>4 DEF Move, SoleInv, IInv, TypeOK, Call, Idle
  <2>2. call[t].old < numItems /\ call[t].new < numItems
    BY <1>4 DEF Move, SoleInv, StillTrue
  <2>3. HeldIn(slots') = HeldIn(slots)
    BY <1>0, <1>4, <2>1, <2>2, HeldOfMoved DEF Move
  <2>4. Held = HeldIn(slots) /\ Held' = HeldIn(slots')
    BY DEF Held, HeldIn
  <2>5. QED
    BY <2>3, <2>4
<1>5. ASSUME NEW t \in Threads, SetItem(t) PROVE Inventory!Next
  <2> DEFINE c == call[t]
             written == [slots EXCEPT ![c.position] = [item |-> c.item, amount |-> c.amount]]
  <2>1. /\ c.position \in Position /\ c.item \in Items \cup {NoItem} /\ c.amount \in 0..MaxAmount
        /\ Settable(c.item, c.amount)
        /\ c.endBoundary = Smaller(numItems, Capacity - 1)
        /\ c.position <= c.endBoundary
        /\ ~TouchesEnd(c.position, c.item)
    BY <1>5 DEF SetItem, SoleInv, IInv, TypeOK, Call, Idle, StillTrue
  <2>2. CASE c.item = NoItem
    <3>1. c.position < numItems /\ c.position < c.endBoundary
      BY <1>0, <2>1, <2>2, ConstantsAssumption DEF TouchesEnd, Smaller, Position
    <3>2. slots' = Erased(written, c.position)
      BY <1>5, <2>2, <3>1 DEF SetItem
    <3>3. Erased(written, c.position) = Erased(slots, c.position)
      BY <1>0, <2>1, ConstantsAssumption DEF Erased, Position
    <3>4. QED
      BY <1>0, <2>1, <3>1, <3>2, <3>3, EraseStep
  <2>3. CASE c.item # NoItem
    <3>1. c.item \in Items /\ c.amount \in 1..MaxAmount /\ Belongs(c.item)
      BY <2>1, <2>3, ConstantsAssumption DEF Settable
    <3>2. ~PresentElsewhere(c.item, c.position)
      BY <1>5, <2>3 DEF SetItem
    <3>3. slots' = written
      BY <1>5, <2>3 DEF SetItem
    <3>4. c.position <= numItems
      BY <1>0, <2>1, ConstantsAssumption DEF Smaller, Position
    <3>5. \A q \in Position : q # c.position /\ q < numItems => slots[q].item # c.item
      BY <3>2 DEF PresentElsewhere
    <3>6. QED
      BY <1>0, <2>1, <3>1, <3>3, <3>4, <3>5, WriteStep
  <2>4. QED
    BY <2>2, <2>3
<1>6. CASE Reload
  <2>1. slots' = slots
    BY <1>6 DEF Reload, FromNative, SoleInv, IInv, NativeMirrors
  <2>2. QED
    BY <1>1, <2>1
<1>7. QED
  BY <1>1, <1>2, <1>3, <1>4, <1>5, <1>6 DEF Next, vars, BeginMove, BeginSetItem, RefuseSetItem

(* To one careful caller the list is an inventory: each call that returns  *)
(* changes the amount of the item it names, or replaces an item by         *)
(* another one, and no move, copy, save or load changes any amount.        *)
THEOREM InventoryTheorem ==
  ASSUME OneCarefulCaller
  PROVE  Spec => ImplementsInventory
<1>1. Init => SoleInv
  BY SoleInit
<1>2. SoleInv /\ [Next]_vars => SoleInv'
  BY SoleStep
<1>3. Init => Inventory!Init
  BY <1>1, SoleListIsInOrder, InventoryInit
<1>4. SoleInv /\ [Next]_vars => [Inventory!Next]_Held
  BY InventoryStep
<1>5. QED
  BY <1>1, <1>2, <1>3, <1>4, PTL DEF Spec, ImplementsInventory, Inventory!Spec

-----------------------------------------------------------------------------
(* The Pokedex.  What the vectors hold while their flag is up is not asked. *)
PokedexIInv == PokedexTypeOK /\ CleanVectorsAreExact

(* A new or loaded Pokedex has both flags up, so both vectors are rebuilt  *)
(* before anyone sees them.                                                *)
LEMMA PokedexInitInvariant == PokedexInit => PokedexIInv
BY DEF PokedexInit, PokedexIInv, PokedexTypeOK, CleanVectorsAreExact

(* Every call keeps the vectors exact: a setter raises the flag of every   *)
(* buffer it changes, a query rebuilds before it lowers a flag.            *)
LEMMA PokedexStepInvariant == PokedexIInv /\ [PokedexNext]_pokedexVars => PokedexIInv'
<1> SUFFICES ASSUME PokedexIInv, [PokedexNext]_pokedexVars PROVE PokedexIInv'
  OBVIOUS
<1> USE DEF PokedexIInv, PokedexTypeOK, CleanVectorsAreExact
<1>1. ASSUME NEW s \in Species, SetSeen(s) PROVE PokedexIInv'
  BY <1>1 DEF SetSeen
<1>2. ASSUME NEW s \in Species, ClearSeen(s) PROVE PokedexIInv'
  <2>1. ~dirtyCaught' => caughtBits' = caughtBits
    BY <1>2 DEF ClearSeen
  <2>2. QED
    BY <1>2, <2>1 DEF ClearSeen
<1>3. ASSUME NEW s \in Species, SetCaught(s) PROVE PokedexIInv'
  <2>1. ~dirtySeen' => seenBits' = seenBits
    BY <1>3 DEF SetCaught
  <2>2. QED
    BY <1>3, <2>1 DEF SetCaught
<1>4. ASSUME NEW s \in Species, ClearCaught(s) PROVE PokedexIInv'
  BY <1>4 DEF ClearCaught
<1>5. CASE GetAllSeen
  BY <1>5 DEF GetAllSeen, RefreshSeen
<1>6. CASE GetNumSeen
  BY <1>6 DEF GetNumSeen, RefreshSeen
<1>7. CASE GetAllCaught
  BY <1>7 DEF GetAllCaught, RefreshCaught
<1>8. CASE GetNumCaught
  BY <1>8 DEF GetNumCaught, RefreshCaught
<1>9. ASSUME NEW s \in Species, HasSeen(s) \/ HasCaught(s) PROVE PokedexIInv'
  BY <1>9 DEF HasSeen, HasCaught
<1>10. CASE UNCHANGED pokedexVars
  BY <1>10 DEF pokedexVars
<1>11. QED
  BY <1>1, <1>2, <1>3, <1>4, <1>5, <1>6, <1>7, <1>8, <1>9, <1>10 DEF PokedexNext

LEMMA PokedexInvariance == PokedexSpec => []PokedexIInv
BY PokedexInitInvariant, PokedexStepInvariant, PTL DEF PokedexSpec

(* Bits and flags keep their types, whatever a save had in its buffers.    *)
THEOREM PokedexTypeCorrect == PokedexSpec => []PokedexTypeOK
<1>1. PokedexIInv => PokedexTypeOK
  BY DEF PokedexIInv
<1>2. QED
  BY <1>1, PokedexInvariance, PTL

(* The cached vectors are never stale when a call returns them: neither    *)
(* the direct nor the nested change of a bit escapes its dirty flag.       *)
THEOREM CachesExact == PokedexSpec => []CleanVectorsAreExact
<1>1. PokedexIInv => CleanVectorsAreExact
  BY DEF PokedexIInv
<1>2. QED
  BY <1>1, PokedexInvariance, PTL

(* Caught implies seen is never broken by a call, also when the save the   *)
(* Pokedex was loaded from had broken it already.                          *)
THEOREM NoCallContradicts == PokedexSpec => NoNewContradiction
<1>1. [PokedexNext]_pokedexVars => [caughtBits' \ seenBits' \subseteq caughtBits \ seenBits]_pokedexVars
  <2> SUFFICES ASSUME [PokedexNext]_pokedexVars
               PROVE  caughtBits' \ seenBits' \subseteq caughtBits \ seenBits
    OBVIOUS
  <2>1. ASSUME NEW s \in Species, SetSeen(s) \/ ClearSeen(s) \/ SetCaught(s) \/ ClearCaught(s)
        PROVE  caughtBits' \ seenBits' \subseteq caughtBits \ seenBits
    BY <2>1 DEF SetSeen, ClearSeen, SetCaught, ClearCaught
  <2>2. CASE GetAllSeen \/ GetNumSeen \/ GetAllCaught \/ GetNumCaught
    BY <2>2 DEF GetAllSeen, GetNumSeen, GetAllCaught, GetNumCaught
  <2>3. ASSUME NEW s \in Species, HasSeen(s) \/ HasCaught(s)
        PROVE  caughtBits' \ seenBits' \subseteq caughtBits \ seenBits
    BY <2>3 DEF HasSeen, HasCaught
  <2>4. CASE UNCHANGED pokedexVars
    BY <2>4 DEF pokedexVars
  <2>5. QED
    BY <2>1, <2>2, <2>3, <2>4 DEF PokedexNext
<1>2. QED
  BY <1>1, PTL DEF PokedexSpec, NoNewContradiction

-----------------------------------------------------------------------------
(* The two modules describe a listing with the same operator. *)
LEMMA SameListing == \A bits : Register!InNationalOrder(bits) = MemberVector(bits)
BY DEF Register!InNationalOrder, MemberVector

(* A call of the Pokedex is a step of the register, or no step at all. *)
LEMMA PokedexStepRefines == PokedexIInv /\ [PokedexNext]_pokedexVars => [Register!Next]_(Register!vars)
<1> SUFFICES ASSUME PokedexIInv, [PokedexNext]_pokedexVars PROVE [Register!Next]_(Register!vars)
  OBVIOUS
<1>0. Species = Register!Species /\ NoAnswer = Register!NoAnswer
  BY DEF Species, Register!Species, NoAnswer, Register!NoAnswer
<1>1. ASSUME NEW s \in Species, SetSeen(s) PROVE Register!See(s)
  BY <1>0, <1>1 DEF SetSeen, Register!See
<1>2. ASSUME NEW s \in Species, ClearSeen(s) PROVE Register!Unsee(s)
  BY <1>0, <1>2 DEF ClearSeen, Register!Unsee
<1>3. ASSUME NEW s \in Species, SetCaught(s) PROVE Register!Catch(s)
  BY <1>0, <1>3 DEF SetCaught, Register!Catch
<1>4. ASSUME NEW s \in Species, ClearCaught(s) PROVE Register!Release(s)
  BY <1>0, <1>4 DEF ClearCaught, Register!Release
<1>5. CASE GetAllSeen
  <2>1. allSeen' = Register!InNationalOrder(seenBits)
    BY <1>5, SameListing DEF GetAllSeen, RefreshSeen, PokedexIInv, CleanVectorsAreExact
  <2>2. Register!Ask
    BY <1>5, <2>1 DEF GetAllSeen, Register!Ask, Listing, Register!Listing
  <2>3. QED
    BY <2>2 DEF Register!Next
<1>6. CASE GetNumSeen
  <2>1. allSeen' = Register!InNationalOrder(seenBits)
    BY <1>6, SameListing DEF GetNumSeen, RefreshSeen, PokedexIInv, CleanVectorsAreExact
  <2>2. Register!Ask
    BY <1>6, <2>1 DEF GetNumSeen, Register!Ask, Count, Register!Count
  <2>3. QED
    BY <2>2 DEF Register!Next
<1>7. CASE GetAllCaught
  <2>1. allCaught' = Register!InNationalOrder(caughtBits)
    BY <1>7, SameListing DEF GetAllCaught, RefreshCaught, PokedexIInv, CleanVectorsAreExact
  <2>2. Register!Ask
    BY <1>7, <2>1 DEF GetAllCaught, Register!Ask, Listing, Register!Listing
  <2>3. QED
    BY <2>2 DEF Register!Next
<1>8. CASE GetNumCaught
  <2>1. allCaught' = Register!InNationalOrder(caughtBits)
    BY <1>8, SameListing DEF GetNumCaught, RefreshCaught, PokedexIInv, CleanVectorsAreExact
  <2>2. Register!Ask
    BY <1>8, <2>1 DEF GetNumCaught, Register!Ask, Count, Register!Count
  <2>3. QED
    BY <2>2 DEF Register!Next
<1>9. ASSUME NEW s \in Species, HasSeen(s) \/ HasCaught(s) PROVE Register!Ask
  <2>1. \A set : Flag(s \in set) = Register!Flag(s \in set)
    BY DEF Flag, Register!Flag
  <2>2. CASE HasSeen(s)
    BY <1>0, <2>1, <2>2 DEF HasSeen, Register!Ask
  <2>3. CASE HasCaught(s)
    BY <1>0, <2>1, <2>3 DEF HasCaught, Register!Ask
  <2>4. QED
    BY <1>9, <2>2, <2>3
<1>10. CASE UNCHANGED pokedexVars
  BY <1>10 DEF pokedexVars, Register!vars
<1>11. QED
  BY <1>0, <1>1, <1>2, <1>3, <1>4, <1>5, <1>6, <1>7, <1>8, <1>9, <1>10 DEF PokedexNext, Register!Next

(* The Pokedex with vectors and dirty flags implements the register        *)
(* without them: callers cannot tell that answers are cached.              *)
THEOREM PokedexImplementsRegister == PokedexSpec => ImplementsRegister
<1>1. PokedexInit => Register!Init
  BY DEF PokedexInit, Register!Init, Species, Register!Species, NoAnswer, Register!NoAnswer
<1>2. QED
  BY <1>1, PokedexInvariance, PokedexStepRefines, PTL DEF PokedexSpec, ImplementsRegister, Register!Spec

-----------------------------------------------------------------------------
(* Who is past the doors of the bag and of its pockets...                  *)
Inside(t) == at[t] \in {"changing", "writing", "asking", "loading", "storing"}
Copying(t) == at[t] \in {"asking", "loading", "storing"}
Locked(t) == calling[t] \in LockedCalls

OneInside ==
  /\ \A t \in Callers : at[t] = "entering" => Locked(t)
  /\ \A t \in Callers : Inside(t) /\ Locked(t) => bagLock = t
  /\ \A t, u \in Callers : t # u /\ at[t] # "idle" /\ ~Locked(t) => at[u] = "idle"

PocketsAreWritten ==
  \A p \in Pockets, w \in Words :
    \/ pocketNative[p][w] = version[p]
    \/ \E t \in Callers : at[t] = "writing" /\ Here(t) = p /\ word[t] <= w

WholeCopy(p) == \E v \in 0..version[p] : \A w \in Words : bagCopy[p][w] = v
CurrentCopy(p) == \A w \in Words : bagCopy[p][w] = version[p]

CopiesAreWhole ==
  \A p \in Pockets :
    \/ WholeCopy(p)
    \/ \E t \in Callers : at[t] \in {"loading", "storing"} /\ Here(t) = p

CopiedSoFar(t) ==
  /\ \A i \in 1..Len(PocketOrder) : i < pocket[t] => CurrentCopy(PocketOrder[i])
  /\ at[t] # "asking" => \A w \in Words : w < word[t] => bagCopy[Here(t)][w] = version[Here(t)]
  /\ at[t] = "storing" => loaded[t] = version[Here(t)]

SharedInv ==
  /\ SharedTypeOK
  /\ OneInside
  /\ PocketsAreWritten
  /\ CopiesAreWhole
  /\ \A t \in Callers : Copying(t) => CopiedSoFar(t)

(* At most one caller is past the doors.                                   *)
LEMMA NobodyElse ==
  ASSUME OneInside, NEW t \in Callers, Inside(t)
  PROVE  \A u \in Callers : u # t => ~Inside(u) /\ at[u] \notin {"writing", "asking", "loading", "storing"}
BY DEF OneInside, Inside

LEMMA SharedInitInv == SharedInit => SharedInv
<1> SUFFICES ASSUME SharedInit PROVE SharedInv
  OBVIOUS
<1>1. SharedTypeOK
  BY ItemBagAssumption DEF SharedInit, SharedTypeOK, LockedCalls, Words
<1>2. OneInside
  BY DEF SharedInit, OneInside, Inside
<1>3. PocketsAreWritten
  BY DEF SharedInit, PocketsAreWritten
<1>4. CopiesAreWhole
  BY DEF SharedInit, CopiesAreWhole, WholeCopy
<1>5. \A t \in Callers : ~Copying(t)
  BY DEF SharedInit, Copying
<1>6. QED
  BY <1>1, <1>2, <1>3, <1>4, <1>5 DEF SharedInv

(* A step that leaves the lists alone keeps what is said of them, as long  *)
(* as no caller starts or leaves a list.                                   *)
LEMMA ListsStay ==
  ASSUME SharedInv, UNCHANGED lists, NEW t \in Callers,
         at[t] \notin {"writing", "loading", "storing"},
         \A u \in Callers : u # t => at'[u] = at[u] /\ pocket'[u] = pocket[u] /\ word'[u] = word[u]
  PROVE  PocketsAreWritten' /\ CopiesAreWhole'
<1>1. \A u \in Callers : at[u] \in {"writing", "loading", "storing"} => at'[u] = at[u] /\ Here(u)' = Here(u) /\ word'[u] = word[u]
  BY DEF Here
<1>2. PocketsAreWritten'
  BY <1>1 DEF SharedInv, PocketsAreWritten, lists
<1>3. CopiesAreWhole'
  BY <1>1 DEF SharedInv, CopiesAreWhole, WholeCopy, lists
<1>4. QED
  BY <1>2, <1>3

(* Wherever a thread goes is a place, a pocket and a word.                 *)
LEMMA GoType ==
  ASSUME SharedTypeOK, NEW t \in Callers,
         NEW place \in {"idle", "entering", "changing", "writing", "asking", "loading", "storing"},
         NEW p \in 1..Len(PocketOrder), NEW w \in Words, Go(t, place, p, w)
  PROVE  /\ at' \in [Callers -> {"idle", "entering", "changing", "writing", "asking", "loading", "storing"}]
         /\ pocket' \in [Callers -> 1..Len(PocketOrder)]
         /\ word' \in [Callers -> Words]
BY DEF SharedTypeOK, Go

(* Where a call returns to, and the first and the next place of a list.    *)
LEMMA Places ==
  /\ DOMAIN PocketOrder = 1..Len(PocketOrder)
  /\ 1 \in 1..Len(PocketOrder)
  /\ 0 \in Words
  /\ \A i \in 1..Len(PocketOrder) : i < Len(PocketOrder) => i + 1 \in 1..Len(PocketOrder)
BY ItemBagAssumption DEF Words

(* What storing one word of a pocket does to the copies: that pocket's is  *)
(* current up to the word, the others stay as they are.                    *)
LEMMA StoredWord ==
  ASSUME SharedInv, NEW t \in Callers, StoreWord(t), NEW here \in Pockets, here = Here(t)
  PROVE  /\ bagCopy' \in [Pockets -> [Words -> 0..MaxVersion]]
         /\ \A p \in Pockets : p # here => WholeCopy(p)'
         /\ \A w \in Words : w < word[t] + 1 => bagCopy'[here][w] = version[here]
         /\ word[t] + 1 \notin Words => CurrentCopy(here)'
         /\ \A i \in 1..Len(PocketOrder) : i < pocket[t] => CurrentCopy(PocketOrder[i])'
<1>i. /\ SharedTypeOK /\ OneInside /\ PocketsAreWritten /\ CopiesAreWhole
      /\ \A u \in Callers : Copying(u) => CopiedSoFar(u)
  BY DEF SharedInv
<1>0. Inside(t) /\ \A u \in Callers : u # t => ~Inside(u)
  BY <1>i, NobodyElse DEF StoreWord, Inside
<1>1. /\ at[t] = "storing"
      /\ bagCopy' = [bagCopy EXCEPT ![Here(t)][word[t]] = loaded[t]]
      /\ UNCHANGED <<pocketLock, version, pocketNative, calling, loaded>>
  BY DEF StoreWord
<1>2. pocket[t] \in 1..Len(PocketOrder) /\ word[t] \in Words /\ loaded[t] = version[Here(t)]
  BY <1>i, <1>1 DEF SharedTypeOK, Copying, CopiedSoFar
<1>3. bagCopy \in [Pockets -> [Words -> 0..MaxVersion]] /\ version \in [Pockets -> 0..MaxVersion]
  BY <1>i DEF SharedTypeOK
<1>4. bagCopy' \in [Pockets -> [Words -> 0..MaxVersion]]
  BY <1>i, <1>1, <1>2, <1>3
<1>5. /\ \A p \in Pockets : p # here => bagCopy'[p] = bagCopy[p]
      /\ \A w \in Words : w # word[t] => bagCopy'[here][w] = bagCopy[here][w]
      /\ bagCopy'[here][word[t]] = version[here]
  BY <1>i, <1>1, <1>2, <1>3
<1>6. \A p \in Pockets : CurrentCopy(p) => CurrentCopy(p)'
  BY <1>1, <1>5 DEF CurrentCopy
<1>7. \A p \in Pockets : p # here => WholeCopy(p)'
  <2>1. \A p \in Pockets : p # here => WholeCopy(p)
    BY <1>i, <1>0 DEF CopiesAreWhole, Inside
  <2>2. QED
    BY <1>1, <1>5, <2>1 DEF WholeCopy
<1>8. \A w \in Words : w < word[t] + 1 => bagCopy'[here][w] = version[here]
  <2>1. \A w \in Words : w < word[t] => bagCopy[here][w] = version[here]
    BY <1>i, <1>1 DEF Copying, CopiedSoFar
  <2>2. \A w \in Words : w < word[t] + 1 => w < word[t] \/ w = word[t]
    BY <1>2 DEF Words
  <2>3. QED
    BY <1>5, <2>1, <2>2
<1>9. word[t] + 1 \notin Words => CurrentCopy(here)'
  <2>1. word[t] + 1 \notin Words => \A w \in Words : w < word[t] + 1
    BY <1>2 DEF Words
  <2>2. QED
    BY <1>i, <1>1, <1>8, <2>1 DEF CurrentCopy
<1>10. \A i \in 1..Len(PocketOrder) : i < pocket[t] => CurrentCopy(PocketOrder[i])'
  <2>1. \A i \in 1..Len(PocketOrder) : PocketOrder[i] \in Pockets
    BY Places DEF Pockets
  <2>2. QED
    BY <1>i, <1>1, <1>6, <2>1 DEF Copying, CopiedSoFar
<1>11. QED
  BY <1>4, <1>7, <1>8, <1>9, <1>10

(* A step of any caller keeps it.                                          *)
LEMMA SharedStepInv == CarefulSharing /\ SharedInv /\ [SharedNext]_sharedVars => SharedInv'
<1> SUFFICES ASSUME CarefulSharing, SharedInv, [SharedNext]_sharedVars PROVE SharedInv'
  OBVIOUS
<1> USE ItemBagAssumption
<1>0. /\ SharedTypeOK /\ OneInside /\ PocketsAreWritten /\ CopiesAreWhole
      /\ \A t \in Callers : Copying(t) => CopiedSoFar(t)
      /\ \A t \in Callers : Here(t) \in Pockets
  BY DEF SharedInv, SharedTypeOK, Here, Pockets
<1>1. ASSUME NEW t \in Callers, NEW p \in DOMAIN PocketOrder, CallPocket(t, p) PROVE SharedInv'
  <2>1. SharedTypeOK'
    BY <1>0, <1>1, GoType, Places DEF CallPocket, SharedTypeOK, locks, lists, LockedCalls
  <2>2. OneInside'
    BY <1>0, <1>1 DEF CallPocket, Go, OneInside, Inside, Locked, Resting, SharedTypeOK, locks, LockedCalls
  <2>3. PocketsAreWritten' /\ CopiesAreWhole'
    BY <1>0, <1>1, ListsStay DEF CallPocket, Go, SharedTypeOK
  <2>4. \A u \in Callers : ~Copying(u)'
    BY <1>0, <1>1 DEF CallPocket, Go, Resting, SharedTypeOK, Copying
  <2>5. QED
    BY <2>1, <2>2, <2>3, <2>4 DEF SharedInv
<1>2. ASSUME NEW t \in Callers, NEW operation \in LockedCalls, NEW p \in DOMAIN PocketOrder,
             CallBag(t, operation, p)
      PROVE  SharedInv'
  <2>1. SharedTypeOK'
    BY <1>0, <1>2, GoType, Places DEF CallBag, SharedTypeOK, locks, lists, LockedCalls
  <2>2. OneInside'
    BY <1>0, <1>2 DEF CallBag, Go, OneInside, Inside, Locked, SharedTypeOK, locks
  <2>3. PocketsAreWritten' /\ CopiesAreWhole'
    BY <1>0, <1>2, ListsStay DEF CallBag, Go, SharedTypeOK
  <2>4. ASSUME NEW u \in Callers, Copying(u)' PROVE CopiedSoFar(u)'
    BY <1>0, <1>2, <2>4 DEF CallBag, Go, SharedTypeOK, Copying, CopiedSoFar, CurrentCopy, Here, lists
  <2>5. QED
    BY <2>1, <2>2, <2>3, <2>4 DEF SharedInv
<1>3. ASSUME NEW t \in Callers, CallGetPockets(t) PROVE SharedInv'
  <2>1. SharedTypeOK'
    BY <1>0, <1>3, GoType, Places DEF CallGetPockets, SharedTypeOK, locks, lists, LockedCalls
  <2>2. OneInside'
    BY <1>0, <1>3 DEF CallGetPockets, Go, OneInside, Inside, Locked, Resting, SharedTypeOK, locks, LockedCalls
  <2>3. PocketsAreWritten' /\ CopiesAreWhole'
    BY <1>0, <1>3, ListsStay DEF CallGetPockets, Go, SharedTypeOK
  <2>4. ASSUME NEW u \in Callers, Copying(u)' PROVE CopiedSoFar(u)'
    <3>1. at'[t] = "asking" /\ pocket'[t] = 1 /\ \A v \in Callers : v # t => at'[v] = "idle"
      BY <1>0, <1>3 DEF CallGetPockets, Go, Resting, SharedTypeOK
    <3>2. u = t
      BY <2>4, <3>1 DEF Copying
    <3>3. QED
      BY <3>1, <3>2 DEF CopiedSoFar
  <2>5. QED
    BY <2>1, <2>2, <2>3, <2>4 DEF SharedInv
<1>4. ASSUME NEW t \in Callers, Enter(t) PROVE SharedInv'
  <2>1. SharedTypeOK'
    BY <1>0, <1>4, GoType, Places DEF Enter, Entered, SharedTypeOK, lists, LockedCalls
  <2>2. OneInside'
    <3>1. /\ \A u \in Callers : u # t => at'[u] = at[u]
          /\ at'[t] \in {"asking", "changing"}
          /\ at[t] = "entering" /\ bagLock = NoOne /\ bagLock' = t
          /\ \A u \in Callers : Locked(u)' = Locked(u)
      BY <1>0, <1>4 DEF Enter, Entered, Go, SharedTypeOK, Locked
    <3>2. \A u \in Callers : at[u] # "idle" => Locked(u)
      BY <1>0, <3>1 DEF OneInside
    <3>3. \A u \in Callers : ~Inside(u)
      <4>1. \A u \in Callers : Inside(u) => at[u] # "idle"
        BY DEF Inside
      <4>2. \A u \in Callers : Inside(u) => bagLock = u
        BY <1>0, <3>2, <4>1 DEF OneInside
      <4>3. QED
        BY <3>1, <4>2
    <3>4. QED
      BY <3>1, <3>2, <3>3 DEF OneInside, Inside
  <2>3. PocketsAreWritten' /\ CopiesAreWhole'
    BY <1>0, <1>4, ListsStay DEF Enter, Entered, Go, SharedTypeOK
  <2>4. ASSUME NEW u \in Callers, Copying(u)' PROVE CopiedSoFar(u)'
    <3>1. CASE u = t
      BY <1>0, <1>4, <2>4, <3>1 DEF Enter, Entered, Go, SharedTypeOK, Copying, CopiedSoFar
    <3>2. CASE u # t
      <4>1. /\ at'[u] = at[u] /\ pocket'[u] = pocket[u] /\ word'[u] = word[u]
            /\ UNCHANGED <<version, bagCopy, loaded>>
        BY <1>0, <1>4, <3>2 DEF Enter, Entered, Go, SharedTypeOK, lists
      <4>2. CopiedSoFar(u)
        BY <1>0, <2>4, <4>1 DEF Copying
      <4>3. QED
        BY <4>1, <4>2 DEF CopiedSoFar, CurrentCopy, Here
    <3>3. QED
      BY <3>1, <3>2
  <2>5. QED
    BY <2>1, <2>2, <2>3, <2>4 DEF SharedInv
<1>5. ASSUME NEW t \in Callers, ChangePocket(t) PROVE SharedInv'
  <2>0. Inside(t) /\ \A u \in Callers : u # t => ~Inside(u)
    BY <1>0, <1>5, NobodyElse DEF ChangePocket, Inside
  <2>1. SharedTypeOK'
    <3>1. version' \in [Pockets -> 0..MaxVersion] /\ pocketLock' \in [Pockets -> Callers \cup {NoOne}]
      <4>1. version[Here(t)] \in 0..MaxVersion /\ version[Here(t)] < MaxVersion
        BY <1>0, <1>5 DEF ChangePocket, SharedTypeOK
      <4>2. version[Here(t)] + 1 \in 0..MaxVersion
        BY <4>1
      <4>3. version' = [version EXCEPT ![Here(t)] = version[Here(t)] + 1]
            /\ pocketLock' = [pocketLock EXCEPT ![Here(t)] = t]
        BY <1>5 DEF ChangePocket
      <4>4. QED
        BY <1>0, <4>2, <4>3 DEF SharedTypeOK
    <3>2. Go(t, "writing", pocket[t], 0) /\ pocket[t] \in 1..Len(PocketOrder)
      BY <1>0, <1>5 DEF ChangePocket, SharedTypeOK
    <3>3. QED
      BY <1>0, <1>5, <3>1, <3>2, GoType, Places DEF ChangePocket, SharedTypeOK
  <2>2. OneInside'
    BY <1>0, <1>5 DEF ChangePocket, Go, OneInside, Inside, Locked, SharedTypeOK
  <2>3. PocketsAreWritten'
    <3>1. at'[t] = "writing" /\ Here(t)' = Here(t) /\ word'[t] = 0
      BY <1>0, <1>5 DEF ChangePocket, Go, SharedTypeOK, Here
    <3>2. \A u \in Callers : at[u] # "writing"
      BY <2>0, <1>5 DEF ChangePocket, Inside
    <3>3. \A p \in Pockets, w \in Words : pocketNative[p][w] = version[p]
      BY <1>0, <3>2 DEF PocketsAreWritten
    <3>4. \A p \in Pockets : p # Here(t) => version'[p] = version[p]
      BY <1>0, <1>5 DEF ChangePocket, SharedTypeOK
    <3>5. \A w \in Words : 0 <= w
      BY DEF Words
    <3>6. QED
      BY <1>5, <3>1, <3>3, <3>4, <3>5 DEF ChangePocket, PocketsAreWritten
  <2>4. CopiesAreWhole'
    <3>1. \A p \in Pockets : WholeCopy(p)
      BY <1>0, <1>5, <2>0 DEF ChangePocket, CopiesAreWhole, Inside
    <3>2. \A p \in Pockets : version[p] \in Nat /\ version'[p] \in Nat /\ version[p] <= version'[p]
      <4>1. version \in [Pockets -> 0..MaxVersion] /\ version' \in [Pockets -> 0..MaxVersion]
        BY <1>0, <2>1 DEF SharedTypeOK
      <4>2. version' = [version EXCEPT ![Here(t)] = @ + 1]
        BY <1>5 DEF ChangePocket
      <4>3. QED
        BY <1>0, <4>1, <4>2
    <3>3. \A p \in Pockets : 0..version[p] \subseteq 0..version'[p]
      BY <3>2
    <3>4. QED
      BY <1>5, <3>1, <3>3 DEF ChangePocket, CopiesAreWhole, WholeCopy
  <2>5. \A u \in Callers : ~Copying(u)'
    BY <1>0, <1>5, <2>0 DEF ChangePocket, Go, SharedTypeOK, Copying, Inside
  <2>6. QED
    BY <2>1, <2>2, <2>3, <2>4, <2>5 DEF SharedInv
<1>6. ASSUME NEW t \in Callers, Refuse(t) PROVE SharedInv'
  <2>0. Inside(t) /\ \A u \in Callers : u # t => ~Inside(u)
    BY <1>0, <1>6, NobodyElse DEF Refuse, Inside
  <2>1. SharedTypeOK'
    BY <1>0, <1>6, GoType, Places DEF Refuse, Return, SharedTypeOK, lists, LockedCalls
  <2>2. OneInside'
    BY <1>0, <1>6, <2>0 DEF Refuse, Return, Go, OneInside, Inside, Locked, SharedTypeOK
  <2>3. PocketsAreWritten' /\ CopiesAreWhole'
    BY <1>0, <1>6, ListsStay DEF Refuse, Return, Go, SharedTypeOK
  <2>4. \A u \in Callers : ~Copying(u)'
    BY <1>0, <1>6, <2>0 DEF Refuse, Return, Go, SharedTypeOK, Copying, Inside
  <2>5. QED
    BY <2>1, <2>2, <2>3, <2>4 DEF SharedInv
<1>7. ASSUME NEW t \in Callers, WriteWord(t) PROVE SharedInv'
  <2>0. Inside(t) /\ \A u \in Callers : u # t => ~Inside(u)
    BY <1>0, <1>7, NobodyElse DEF WriteWord, Inside
  <2> DEFINE next == word[t] + 1
  <2>1. /\ pocketNative' = [pocketNative EXCEPT ![Here(t)][word[t]] = version[Here(t)]]
        /\ UNCHANGED <<version, bagCopy, calling, loaded>>
        /\ at[t] = "writing"
    BY <1>7 DEF WriteWord
  <2>2. SharedTypeOK'
    BY <1>0, <1>7, GoType, Places DEF WriteWord, Return, SharedTypeOK, locks
  <2>3. OneInside'
    <3>1. /\ \A u \in Callers : u # t => at'[u] = at[u]
          /\ at'[t] \in {"idle", "writing", "asking"}
          /\ at'[t] # "idle" => bagLock' = bagLock
      BY <1>0, <1>7 DEF WriteWord, Return, Go, SharedTypeOK, locks
    <3>2. \A u \in Callers : Locked(u)' = Locked(u)
      BY <2>1 DEF Locked
    <3>3. \A u \in Callers : u # t => ~Inside(u)'
      BY <2>0, <3>1 DEF Inside
    <3>4. QED
      BY <1>0, <2>0, <2>1, <3>1, <3>2, <3>3 DEF OneInside, Inside
  <2>4. PocketsAreWritten'
    <3>1. ASSUME NEW p \in Pockets, NEW w \in Words
          PROVE  \/ pocketNative'[p][w] = version'[p]
                 \/ at'[t] = "writing" /\ Here(t)' = p /\ word'[t] <= w
      <4>1. CASE pocketNative[p][w] = version[p]
        BY <1>0, <2>1, <4>1 DEF SharedTypeOK
      <4>2. CASE pocketNative[p][w] # version[p]
        <5>1. Here(t) = p /\ word[t] <= w
          BY <1>0, <2>0, <4>2 DEF PocketsAreWritten, Inside
        <5>2. CASE word[t] = w
          BY <1>0, <2>1, <5>1, <5>2 DEF SharedTypeOK
        <5>3. CASE word[t] # w
          <6>1. word[t] + 1 \in Words /\ word[t] + 1 <= w
            <7>1. word[t] \in Words
              BY <1>0 DEF SharedTypeOK
            <7>2. QED
              BY <5>1, <5>3, <7>1 DEF Words
          <6>2. at'[t] = "writing" /\ Here(t)' = p /\ word'[t] = word[t] + 1
            BY <1>0, <1>7, <5>1, <6>1 DEF WriteWord, Go, SharedTypeOK, Here
          <6>3. QED
            BY <6>1, <6>2
        <5>4. QED
          BY <5>2, <5>3
      <4>3. QED
        BY <4>1, <4>2
    <3>2. QED
      BY <3>1 DEF PocketsAreWritten
  <2>5. CopiesAreWhole'
    <3>1. \A p \in Pockets : WholeCopy(p)
      BY <1>0, <2>0, <2>1 DEF CopiesAreWhole, Inside
    <3>2. QED
      BY <2>1, <3>1 DEF CopiesAreWhole, WholeCopy
  <2>6. ASSUME NEW u \in Callers, Copying(u)' PROVE CopiedSoFar(u)'
    <3>1. u = t
      BY <1>0, <1>7, <2>0, <2>6 DEF WriteWord, Return, Go, SharedTypeOK, Copying, Inside
    <3>2. at'[t] = "asking" /\ pocket'[t] = 1
      BY <1>0, <1>7, <2>6, <3>1 DEF WriteWord, Return, Go, SharedTypeOK, Copying
    <3>3. QED
      BY <3>1, <3>2 DEF CopiedSoFar
  <2>7. QED
    BY <2>2, <2>3, <2>4, <2>5, <2>6 DEF SharedInv
<1>8. ASSUME NEW t \in Callers, AskPocket(t) PROVE SharedInv'
  <2>0. Inside(t) /\ \A u \in Callers : u # t => ~Inside(u)
    BY <1>0, <1>8, NobodyElse DEF AskPocket, Inside
  <2>1. SharedTypeOK'
    BY <1>0, <1>8, GoType, Places DEF AskPocket, SharedTypeOK, locks, lists, LockedCalls
  <2>2. OneInside'
    BY <1>0, <1>8 DEF AskPocket, Go, OneInside, Inside, Locked, SharedTypeOK, locks
  <2>3. PocketsAreWritten' /\ CopiesAreWhole'
    BY <1>0, <1>8, ListsStay DEF AskPocket, Go, SharedTypeOK
  <2>4. ASSUME NEW u \in Callers, Copying(u)' PROVE CopiedSoFar(u)'
    <3>1. u = t
      BY <1>0, <1>8, <2>0, <2>4 DEF AskPocket, Go, SharedTypeOK, Copying, Inside
    <3>2. at'[t] = "loading" /\ word'[t] = 0 /\ pocket'[t] = pocket[t] /\ \A w \in Words : ~(w < 0)
      BY <1>0, <1>8 DEF AskPocket, Go, SharedTypeOK, Words
    <3>3. CopiedSoFar(t)
      BY <1>0, <1>8 DEF AskPocket, Copying
    <3>4. QED
      BY <1>8, <3>1, <3>2, <3>3 DEF AskPocket, CopiedSoFar, CurrentCopy, lists
  <2>5. QED
    BY <2>1, <2>2, <2>3, <2>4 DEF SharedInv
<1>9. ASSUME NEW t \in Callers, LoadWord(t) PROVE SharedInv'
  <2>0. Inside(t) /\ \A u \in Callers : u # t => ~Inside(u)
    BY <1>0, <1>9, NobodyElse DEF LoadWord, Inside
  <2>1. SharedTypeOK'
    <3>1. pocketNative[Here(t)][word[t]] \in 0..MaxVersion
      BY <1>0 DEF SharedTypeOK
    <3>2. loaded' \in [Callers -> 0..MaxVersion]
      BY <1>0, <1>9, <3>1 DEF LoadWord, SharedTypeOK
    <3>3. /\ at' \in [Callers -> {"idle", "entering", "changing", "writing", "asking", "loading", "storing"}]
          /\ pocket' \in [Callers -> 1..Len(PocketOrder)]
          /\ word' \in [Callers -> Words]
      <4>1. Go(t, "storing", pocket[t], word[t]) /\ pocket[t] \in 1..Len(PocketOrder) /\ word[t] \in Words
        BY <1>0, <1>9 DEF LoadWord, SharedTypeOK
      <4>2. QED
        BY <1>0, <4>1, GoType
    <3>4. QED
      BY <1>0, <1>9, <3>2, <3>3 DEF LoadWord, SharedTypeOK, locks, lists
  <2>2. OneInside'
    BY <1>0, <1>9 DEF LoadWord, Go, OneInside, Inside, Locked, SharedTypeOK, locks
  <2>3. /\ at[t] = "loading" /\ at'[t] = "storing" /\ word'[t] = word[t] /\ pocket'[t] = pocket[t]
        /\ Here(t)' = Here(t) /\ UNCHANGED lists
        /\ \A u \in Callers : u # t => at'[u] = at[u]
    BY <1>0, <1>9 DEF LoadWord, Go, SharedTypeOK, Here
  <2>4. PocketsAreWritten'
    BY <1>0, <2>0, <2>3 DEF PocketsAreWritten, Inside, lists
  <2>5. CopiesAreWhole'
    BY <1>0, <2>0, <2>3 DEF CopiesAreWhole, WholeCopy, Inside, lists
  <2>6. ASSUME NEW u \in Callers, Copying(u)' PROVE CopiedSoFar(u)'
    <3>1. u = t
      BY <2>0, <2>3, <2>6 DEF Copying, Inside
    <3>2. CopiedSoFar(t)
      BY <1>0, <2>3 DEF Copying
    <3>3. loaded'[t] = version[Here(t)]
      <4>1. pocketNative[Here(t)][word[t]] = version[Here(t)]
        BY <1>0, <2>0, <2>3 DEF PocketsAreWritten, SharedTypeOK, Inside
      <4>2. QED
        BY <1>0, <1>9, <4>1 DEF LoadWord, SharedTypeOK
    <3>4. QED
      BY <2>3, <3>1, <3>2, <3>3 DEF CopiedSoFar, CurrentCopy, lists
  <2>7. QED
    BY <2>1, <2>2, <2>4, <2>5, <2>6 DEF SharedInv
<1>10. ASSUME NEW t \in Callers, StoreWord(t) PROVE SharedInv'
  <2>0. Inside(t) /\ \A u \in Callers : u # t => ~Inside(u)
    BY <1>0, <1>10, NobodyElse DEF StoreWord, Inside
  <2>1. /\ at[t] = "storing"
        /\ UNCHANGED <<pocketLock, version, pocketNative, calling, loaded>>
    BY <1>10 DEF StoreWord
  <2>2. pocket[t] \in 1..Len(PocketOrder) /\ word[t] \in Words
    BY <1>0, <2>1 DEF SharedTypeOK
  <2>3. version \in [Pockets -> 0..MaxVersion]
    BY <1>0 DEF SharedTypeOK
  <2>a. PICK here \in Pockets : here = Here(t)
    BY <1>0
  <2>b. /\ bagCopy' \in [Pockets -> [Words -> 0..MaxVersion]]
        /\ \A p \in Pockets : p # here => WholeCopy(p)'
        /\ \A w \in Words : w < word[t] + 1 => bagCopy'[here][w] = version[here]
        /\ word[t] + 1 \notin Words => CurrentCopy(here)'
        /\ \A i \in 1..Len(PocketOrder) : i < pocket[t] => CurrentCopy(PocketOrder[i])'
    BY <1>10, <2>a, StoredWord
  <2>11. \A p \in Pockets : CurrentCopy(p)' => WholeCopy(p)'
    <3>1. \A p \in Pockets : version'[p] \in 0..version'[p]
      BY <2>1, <2>3
    <3>2. QED
      BY <3>1 DEF CurrentCopy, WholeCopy
  <2>12. PocketsAreWritten'
    <3>1. \A p \in Pockets, w \in Words : pocketNative[p][w] = version[p]
      BY <1>0, <2>0, <2>1 DEF PocketsAreWritten, Inside
    <3>2. QED
      BY <2>1, <3>1 DEF PocketsAreWritten
  <2>13. ASSUME NEW place \in {"idle", "asking", "loading"}, NEW p \in 1..Len(PocketOrder), NEW w \in Words,
                Go(t, place, p, w), bagLock' \in {bagLock, NoOne}, place # "idle" => bagLock' = bagLock,
                place = "loading" => p = pocket[t] /\ w = word[t] + 1,
                place # "loading" => word[t] + 1 \notin Words,
                place = "asking" => p = pocket[t] + 1
         PROVE  SharedInv'
    <3>1. /\ at'[t] = place /\ pocket'[t] = p /\ word'[t] = w
          /\ \A u \in Callers : u # t => at'[u] = at[u]
      BY <1>0, <2>13 DEF Go, SharedTypeOK
    <3>2. SharedTypeOK'
      <4>1. place \in {"idle", "entering", "changing", "writing", "asking", "loading", "storing"}
        OBVIOUS
      <4>2. /\ at' \in [Callers -> {"idle", "entering", "changing", "writing", "asking", "loading", "storing"}]
            /\ pocket' \in [Callers -> 1..Len(PocketOrder)]
            /\ word' \in [Callers -> Words]
        BY <1>0, <2>13, <4>1, GoType
      <4>3. bagLock' \in Callers \cup {NoOne}
        BY <1>0, <2>13 DEF SharedTypeOK
      <4>4. QED
        BY <1>0, <2>1, <2>b, <4>2, <4>3 DEF SharedTypeOK
    <3>3. \A u \in Callers : u # t => ~Inside(u)'
      BY <2>0, <3>1 DEF Inside
    <3>4. OneInside'
      <4>1. \A u \in Callers : Locked(u)' = Locked(u)
        BY <2>1 DEF Locked
      <4>2. QED
        BY <1>0, <2>0, <2>1, <2>13, <3>1, <3>3, <4>1 DEF OneInside, Inside
    <3>5. CopiesAreWhole'
      <4>1. place = "loading" => Here(t)' = here
        BY <2>a, <2>13, <3>1 DEF Here
      <4>2. place # "loading" => WholeCopy(here)'
        BY <1>0, <2>b, <2>11, <2>13
      <4>3. ASSUME NEW q \in Pockets, ~WholeCopy(q)' PROVE at'[t] = "loading" /\ Here(t)' = q
        <5>1. q = here
          BY <2>b, <4>3
        <5>2. place = "loading"
          BY <4>2, <4>3, <5>1
        <5>3. QED
          BY <3>1, <4>1, <5>1, <5>2
      <4>4. QED
        BY <4>3 DEF CopiesAreWhole
    <3>6. ASSUME NEW u \in Callers, Copying(u)' PROVE CopiedSoFar(u)'
      <4>1. u = t
        BY <3>3, <3>6 DEF Copying, Inside
      <4>2. CASE place = "loading"
        <5>1. Here(t)' = here
          BY <2>a, <2>13, <3>1, <4>2 DEF Here
        <5>2. QED
          BY <2>1, <2>b, <2>13, <3>1, <4>1, <4>2, <5>1 DEF CopiedSoFar
      <4>3. CASE place = "asking"
        <5>1. \A i \in 1..Len(PocketOrder) : i < pocket[t] + 1 => i < pocket[t] \/ i = pocket[t]
          BY <2>2
        <5>2. CurrentCopy(here)' /\ here = PocketOrder[pocket[t]]
          BY <2>a, <2>b, <2>13, <4>3 DEF Here
        <5>3. QED
          BY <2>1, <2>b, <2>13, <3>1, <4>1, <4>3, <5>1, <5>2 DEF CopiedSoFar
      <4>4. CASE place = "idle"
        BY <3>1, <3>6, <4>1, <4>4 DEF Copying
      <4>5. QED
        BY <2>13, <4>2, <4>3, <4>4
    <3>7. QED
      BY <2>12, <3>2, <3>4, <3>5, <3>6 DEF SharedInv
  <2>14. CASE word[t] + 1 \in Words
    BY <1>10, <2>2, <2>13, <2>14 DEF StoreWord
  <2>15. CASE word[t] + 1 \notin Words /\ pocket[t] < Len(PocketOrder)
    BY <1>10, <2>2, <2>13, <2>15, Places DEF StoreWord
  <2>16. CASE word[t] + 1 \notin Words /\ ~(pocket[t] < Len(PocketOrder))
    BY <1>10, <2>2, <2>13, <2>16, Places DEF StoreWord, Return
  <2>17. QED
    BY <2>14, <2>15, <2>16
<1>11. CASE UNCHANGED sharedVars
  BY <1>0, <1>11 DEF SharedInv, sharedVars, SharedTypeOK, OneInside, Inside, Locked, PocketsAreWritten, Here,
     CopiesAreWhole, WholeCopy, Copying, CopiedSoFar, CurrentCopy
<1>12. QED
  BY <1>1, <1>2, <1>3, <1>4, <1>5, <1>6, <1>7, <1>8, <1>9, <1>10, <1>11, Places DEF SharedNext, Step, LockedCalls

(* The bag is shared: callers keep calls on pockets and get_pockets() to   *)
(* themselves and share the others.  The copies that a save is made from   *)
(* are then never half old and half new.                                   *)
THEOREM WholePocketsTheorem ==
  ASSUME CarefulSharing
  PROVE  SharedSpec => []WholePockets
<1>1. SharedInit => SharedInv
  BY SharedInitInv
<1>2. SharedInv /\ [SharedNext]_sharedVars => SharedInv'
  BY SharedStepInv
<1>3. SharedInv => WholePockets
  BY DEF SharedInv, CopiesAreWhole, WholeCopy, WholePockets, Resting
<1>4. QED
  BY <1>1, <1>2, <1>3, PTL DEF SharedSpec

(* The call that ends has brought every pocket into the bag: those before  *)
(* the last one were copied earlier and no call got between.               *)
THEOREM UpToDateTheorem ==
  ASSUME CarefulSharing
  PROVE  SharedSpec => ReturnsUpToDate
<1>1. SharedInit => SharedInv
  BY SharedInitInv
<1>2. SharedInv /\ [SharedNext]_sharedVars => SharedInv'
  BY SharedStepInv
<1>3. SharedInv /\ [SharedNext]_sharedVars => [\A t \in Callers : LeavesUpToDate(t)]_sharedVars
  <2> SUFFICES ASSUME SharedInv, SharedNext, NEW t \in Callers, at[t] = "storing", at'[t] = "idle"
               PROVE  bagCopy' = pocketNative'
    BY DEF LeavesUpToDate
  <2>1. SharedTypeOK
    BY DEF SharedInv
  <2>2. StoreWord(t)
    <3>1. ASSUME NEW u \in Callers, NEW p \in DOMAIN PocketOrder, CallPocket(u, p) PROVE FALSE
      BY <2>1, <3>1 DEF CallPocket, Go, SharedTypeOK
    <3>2. ASSUME NEW u \in Callers, NEW operation, NEW p \in DOMAIN PocketOrder, CallBag(u, operation, p)
          PROVE  FALSE
      BY <2>1, <3>2 DEF CallBag, Go, SharedTypeOK
    <3>3. ASSUME NEW u \in Callers, CallGetPockets(u) \/ Enter(u) PROVE FALSE
      BY <2>1, <3>3 DEF CallGetPockets, Enter, Entered, Go, SharedTypeOK
    <3>4. ASSUME NEW u \in Callers, ChangePocket(u) \/ Refuse(u) \/ WriteWord(u) PROVE FALSE
      BY <2>1, <3>4 DEF ChangePocket, Refuse, WriteWord, Return, Go, SharedTypeOK
    <3>5. ASSUME NEW u \in Callers, AskPocket(u) \/ LoadWord(u) PROVE FALSE
      BY <2>1, <3>5 DEF AskPocket, LoadWord, Go, SharedTypeOK
    <3>6. ASSUME NEW u \in Callers, StoreWord(u) PROVE u = t
      BY <2>1, <3>6 DEF StoreWord, Return, Go, SharedTypeOK
    <3>7. QED
      BY <3>1, <3>2, <3>3, <3>4, <3>5, <3>6, Places DEF SharedNext, Step
  <2>3. word[t] + 1 \notin Words /\ ~(pocket[t] < Len(PocketOrder)) /\ pocket[t] \in 1..Len(PocketOrder)
    BY <2>1, <2>2 DEF StoreWord, Go, SharedTypeOK
  <2>4. PICK here \in Pockets : here = Here(t)
    BY <2>3 DEF Here, Pockets
  <2>5. \A i \in 1..Len(PocketOrder) : i < pocket[t] => CurrentCopy(PocketOrder[i])'
    BY <2>2, <2>4, StoredWord
  <2>6. CurrentCopy(here)' /\ bagCopy' \in [Pockets -> [Words -> 0..MaxVersion]]
    BY <2>2, <2>3, <2>4, StoredWord
  <2>7. ASSUME NEW p \in Pockets PROVE CurrentCopy(p)'
    <3>1. PICK i \in 1..Len(PocketOrder) : p = PocketOrder[i]
      BY Places DEF Pockets
    <3>2. i < pocket[t] \/ i = pocket[t]
      BY <2>3
    <3>3. CASE i < pocket[t]
      BY <2>5, <3>1, <3>3
    <3>4. CASE i = pocket[t]
      BY <2>4, <2>6, <3>1, <3>4 DEF Here
    <3>5. QED
      BY <3>2, <3>3, <3>4
  <2>8. \A p \in Pockets, w \in Words : pocketNative'[p][w] = version'[p]
    <3>1. \A u \in Callers : at[u] # "writing"
      BY <2>2, NobodyElse DEF SharedInv, StoreWord, Inside
    <3>2. QED
      BY <2>2, <3>1 DEF SharedInv, PocketsAreWritten, StoreWord
  <2>9. pocketNative' \in [Pockets -> [Words -> 0..MaxVersion]]
    BY <2>1, <2>2 DEF SharedTypeOK, StoreWord
  <2>10. \A p \in Pockets, w \in Words : bagCopy'[p][w] = pocketNative'[p][w]
    BY <2>7, <2>8 DEF CurrentCopy
  <2>11. \A p \in Pockets : bagCopy'[p] = pocketNative'[p]
    <3>1. \A p \in Pockets : bagCopy'[p] \in [Words -> 0..MaxVersion] /\ pocketNative'[p] \in [Words -> 0..MaxVersion]
      BY <2>6, <2>9
    <3>2. QED
      BY <2>10, <3>1
  <2>12. QED
    BY <2>6, <2>9, <2>11
<1>4. QED
  BY <1>1, <1>2, <1>3, PTL DEF SharedSpec, ReturnsUpToDate

-----------------------------------------------------------------------------
(* The key item pocket.  What a half call has read still holds when it     *)
(* gets to the lock.                                                       *)
KeyStillTrue(c) ==
  /\ c.op = "move" => c.old < numItems /\ c.new < numItems
  /\ c.op = "set" =>
       /\ c.item # NoItem => Belongs(c.item)
       /\ c.amount = IF c.item = NoItem THEN 0 ELSE 1
       /\ c.endBoundary = Smaller(numItems, Capacity - 1)
       /\ AppendsOrErases(c.position, c.item)

(* Unlike the other lists it does not keep its native slots up to date,    *)
(* only their number.                                                      *)
KeyInv ==
  /\ TypeOK
  /\ InOrder
  /\ native.count = NativeCount(numItems)
  /\ \A t \in Threads : KeyStillTrue(call[t])

LEMMA KeyInitInv == Init => KeyInv
<1> SUFFICES ASSUME Init PROVE KeyInv
  OBVIOUS
<1>1. PICK n \in 0..Capacity :
        /\ native.count = NativeCount(n)
        /\ \A p \in Position :
             IF p < n
               THEN /\ InUse(native.items, p)
                    /\ native.items[p].amount > 0
                    /\ \A q \in Position : q < p => native.items[q].item # native.items[p].item
               ELSE native.items[p] = EmptySlot
  BY DEF Init, WellFormed
<1>2. numItems = n /\ native.count = NativeCount(numItems)
  BY <1>1, ConstantsAssumption, Gen2BagAssumption DEF Init, NativeCount
<1>3. Orderly(slots, n)
  BY <1>1 DEF Init, Orderly, InUse, EmptySlot, Position
<1>4. \A t \in Threads : KeyStillTrue(call[t])
  BY DEF Init, Idle, KeyStillTrue
<1>5. TypeOK
  BY InitInvariant DEF IInv
<1>6. QED
  BY <1>1, <1>2, <1>3, <1>4, <1>5 DEF KeyInv, InOrder, TypeOK

(* The two copies to the native list keep its type and its count.          *)
LEMMA KeyNativeType ==
  ASSUME TypeOK, slots' \in [Position -> Slot], numItems' \in Int,
         ToNative \/ \E p \in Position : ToNativeAt(p)
  PROVE  /\ native' \in [items : [Position -> Slot], count : 0..255]
         /\ native'.count = NativeCount(numItems')
<1>1. NativeCount(numItems') \in 0..255
  BY NativeCountType
<1>2. CASE ToNative
  BY <1>1, <1>2 DEF ToNative
<1>3. ASSUME NEW p \in Position, ToNativeAt(p)
      PROVE  /\ native' \in [items : [Position -> Slot], count : 0..255]
             /\ native'.count = NativeCount(numItems')
  <2>1. [native.items EXCEPT ![p] = slots'[p]] \in [Position -> Slot]
    BY DEF TypeOK
  <2>2. QED
    BY <1>1, <1>3, <2>1 DEF ToNativeAt
<1>4. QED
  BY <1>2, <1>3

(* A whole call leaves no half call behind: there is one caller.           *)
LEMMA KeyNothingUnderWay ==
  ASSUME NEW t \in Threads, call'[t] = Idle
  PROVE  \A u \in Threads : KeyStillTrue(call[u])'
BY Gen2BagAssumption DEF KeyStillTrue, Idle

(* How a whole call leaves the pocket, from how it leaves the slots.       *)
LEMMA KeyCallEnds ==
  ASSUME KeyInv, NEW t \in Threads, call' \in [Threads -> Call], call'[t] = Idle,
         slots' \in [Position -> Slot], numItems' \in 0..Capacity, Orderly(slots, numItems)',
         ToNative \/ \E p \in Position : ToNativeAt(p)
  PROVE  KeyInv'
<1>1. numItems' \in Int
  BY ConstantsAssumption
<1>2. /\ native' \in [items : [Position -> Slot], count : 0..255]
      /\ native'.count = NativeCount(numItems')
  BY <1>1, KeyNativeType DEF KeyInv
<1>3. \A u \in Threads : KeyStillTrue(call[u])'
  BY KeyNothingUnderWay
<1>4. QED
  BY <1>1, <1>2, <1>3 DEF KeyInv, InOrder, TypeOK

(* Every step of a careful caller keeps the pocket in order, and is to it  *)
(* a step of an inventory, or none.                                        *)
LEMMA KeyStep ==
  CarefulCallers /\ KeyInv /\ [NextKeyItem]_vars => KeyInv' /\ [Inventory!Next]_Held
<1> SUFFICES ASSUME CarefulCallers, KeyInv, [NextKeyItem]_vars
             PROVE  KeyInv' /\ (Inventory!Next \/ UNCHANGED Held)
  OBVIOUS
<1> USE ConstantsAssumption
<1>0. /\ TypeOK /\ InOrder /\ Orderly(slots, numItems)
      /\ slots \in [Position -> Slot] /\ numItems \in 0..Capacity
      /\ call \in [Threads -> Call]
      /\ 1 \in 1..MaxAmount /\ 1 \in 0..MaxAmount
  BY Gen2BagAssumption DEF KeyInv, InOrder, TypeOK
<1>1. ASSUME NEW t \in Threads, NEW item \in Items, AddKeyItem(t, item)
      PROVE  KeyInv' /\ Inventory!Next
  <2>1. /\ numItems \in Position /\ numItems' = numItems + 1 /\ numItems' \in 0..Capacity
        /\ slots' = [slots EXCEPT ![numItems] = [item |-> item, amount |-> 1]]
        /\ ToNativeAt(numItems) /\ Belongs(item) /\ call' = call /\ call[t] = Idle
    BY <1>0, <1>1 DEF AddKeyItem, AddNew, Position
  <2>2. \A q \in Position : q # numItems /\ q < numItems => slots[q].item # item
    BY <1>1 DEF AddKeyItem, AddNew, Present
  <2>3. slots' \in [Position -> Slot]
    BY <1>0, <2>1, WrittenType
  <2>4. Orderly(slots, numItems)'
    <3>1. numItems <= numItems
      BY <1>0
    <3>2. Orderly([slots EXCEPT ![numItems] = [item |-> item, amount |-> 1]],
                  IF numItems = numItems THEN numItems + 1 ELSE numItems)
      BY <1>0, <2>1, <2>2, <3>1, WrittenOrderly
    <3>3. QED
      BY <2>1, <3>2
  <2>5. KeyInv'
    BY <1>0, <2>1, <2>3, <2>4, KeyCallEnds
  <2>6. Inventory!Next
    <3>1. numItems <= numItems
      BY <1>0
    <3>2. QED
      BY <1>0, <2>1, <2>2, <3>1, WriteStep
  <2>7. QED
    BY <2>5, <2>6
<1>2. ASSUME NEW t \in Threads, NEW item \in Items, RemoveKeyItem(t, item)
      PROVE  KeyInv' /\ Inventory!Next
  <2>1. PICK p \in Position :
          IsFirst(item, p) /\ slots' = Erased(slots, p) /\ numItems' = numItems - 1 /\ ToNativeAt(p)
    BY <1>2 DEF RemoveKeyItem
  <2>2. p < numItems /\ call' = call /\ call[t] = Idle
    BY <1>2, <2>1 DEF RemoveKeyItem, IsFirst
  <2>3. Orderly(slots, numItems)' /\ slots' \in [Position -> Slot]
    BY <1>0, <2>1, <2>2, ErasedOrderly, ErasedType
  <2>4. numItems' \in 0..Capacity
    BY <1>0, <2>1, <2>2 DEF Position
  <2>5. KeyInv'
    BY <1>0, <2>1, <2>2, <2>3, <2>4, KeyCallEnds
  <2>6. QED
    BY <1>0, <2>1, <2>2, <2>5, EraseStep
<1>3. ASSUME NEW t \in Threads, NEW old \in Position, NEW new \in Position, BeginMove(t, old, new)
      PROVE  KeyInv' /\ UNCHANGED Held
  <2>1. /\ UNCHANGED <<slots, numItems, native>>
        /\ call' = [call EXCEPT ![t] = [op |-> "move", old |-> old, new |-> new]]
        /\ old < numItems /\ new < numItems
    BY <1>3 DEF BeginMove
  <2>2. [op |-> "move", old |-> old, new |-> new] \in Call
    BY DEF Call
  <2>3. TypeOK' /\ InOrder'
    BY <1>0, <2>1, <2>2 DEF TypeOK, InOrder, Orderly, InUse
  <2>4. KeyStillTrue(call[t])'
    BY <1>0, <2>1 DEF KeyStillTrue
  <2>5. QED
    BY <2>1, <2>3, <2>4, Gen2BagAssumption DEF KeyInv, Held
<1>4. ASSUME NEW t \in Threads, NEW position \in Position, NEW item \in Items \cup {NoItem},
             BeginSetKeyItem(t, position, item)
      PROVE  KeyInv' /\ UNCHANGED Held
  <2> DEFINE c == [op |-> "set", position |-> position, item |-> item,
                   amount |-> IF item = NoItem THEN 0 ELSE 1,
                   endBoundary |-> Smaller(numItems, Capacity - 1)]
  <2>1. /\ UNCHANGED <<slots, numItems, native>>
        /\ call' = [call EXCEPT ![t] = c]
        /\ item # NoItem => Belongs(item)
        /\ AppendsOrErases(position, item)
    BY <1>4 DEF BeginSetKeyItem
  <2>2. Smaller(numItems, Capacity - 1) \in Position
    BY <1>0 DEF Smaller, Position
  <2>3. c \in Call
    BY <1>0, <2>2 DEF Call
  <2>4. TypeOK' /\ InOrder'
    BY <1>0, <2>1, <2>3 DEF TypeOK, InOrder, Orderly, InUse
  <2>5. KeyStillTrue(call[t])'
    BY <1>0, <2>1 DEF KeyStillTrue, AppendsOrErases
  <2>6. QED
    BY <2>1, <2>4, <2>5, Gen2BagAssumption DEF KeyInv, Held
<1>5. ASSUME NEW t \in Threads, Move(t) PROVE KeyInv' /\ UNCHANGED Held
  <2>1. /\ call[t].old \in Position /\ call[t].new \in Position
        /\ call[t].old < numItems /\ call[t].new < numItems
    BY <1>0, <1>5 DEF Move, Call, Idle, KeyInv, KeyStillTrue
  <2>2. /\ slots' = Moved(slots, call[t].old, call[t].new) /\ numItems' = numItems /\ ToNative
        /\ call' = [call EXCEPT ![t] = Idle]
    BY <1>5 DEF Move
  <2>3. slots' \in [Position -> Slot] /\ Orderly(slots, numItems)'
    BY <1>0, <2>1, <2>2, MovedType, MovedOrderly
  <2>4. call' \in [Threads -> Call] /\ call'[t] = Idle
    BY <1>0, <2>2 DEF Call
  <2>5. KeyInv'
    BY <1>0, <2>2, <2>3, <2>4, KeyCallEnds
  <2>6. HeldIn(slots') = HeldIn(slots)
    BY <1>0, <2>1, <2>2, HeldOfMoved
  <2>7. QED
    BY <2>5, <2>6 DEF Held, HeldIn
<1>6. ASSUME NEW t \in Threads, SetKeyItem(t) PROVE KeyInv' /\ Inventory!Next
  <2> DEFINE c == call[t]
             written == [slots EXCEPT ![c.position] = [item |-> c.item, amount |-> c.amount]]
  <2>1. /\ c.position \in Position /\ c.item \in Items \cup {NoItem}
        /\ c.item # NoItem => Belongs(c.item)
        /\ c.amount = IF c.item = NoItem THEN 0 ELSE 1
        /\ c.endBoundary = Smaller(numItems, Capacity - 1)
        /\ AppendsOrErases(c.position, c.item)
    BY <1>0, <1>6 DEF SetKeyItem, Call, Idle, KeyInv, KeyStillTrue
  <2>2. ToNative /\ call' = [call EXCEPT ![t] = Idle]
    BY <1>6 DEF SetKeyItem
  <2>3. call' \in [Threads -> Call] /\ call'[t] = Idle
    BY <1>0, <2>2 DEF Call
  <2>4. CASE c.item = NoItem
    <3>1. c.position < c.endBoundary /\ c.position < numItems
      BY <1>0, <2>1, <2>4 DEF AppendsOrErases, Smaller, Position
    <3>2. slots' = Erased(written, c.position) /\ numItems' = numItems - 1
      BY <1>6, <2>4, <3>1 DEF SetKeyItem
    <3>3. Erased(written, c.position) = Erased(slots, c.position)
      BY <1>0, <2>1 DEF Erased, Position
    <3>4. slots' \in [Position -> Slot] /\ Orderly(slots, numItems)'
      BY <1>0, <2>1, <3>1, <3>2, <3>3, ErasedOrderly, ErasedType
    <3>5. numItems' \in 0..Capacity
      BY <1>0, <2>1, <3>1, <3>2 DEF Position
    <3>6. KeyInv'
      BY <2>2, <2>3, <3>4, <3>5, KeyCallEnds
    <3>7. QED
      BY <1>0, <2>1, <3>1, <3>2, <3>3, <3>6, EraseStep
  <2>5. CASE c.item # NoItem
    <3>1. c.item \in Items /\ c.amount = 1 /\ Belongs(c.item) /\ c.position = numItems
      BY <2>1, <2>5 DEF AppendsOrErases
    <3>2. slots' = written /\ numItems' = numItems + 1 /\ ~PresentElsewhere(c.item, c.position)
      BY <1>6, <2>5 DEF SetKeyItem
    <3>3. \A q \in Position : q # c.position /\ q < numItems => slots[q].item # c.item
      BY <3>2 DEF PresentElsewhere
    <3>4. slots' \in [Position -> Slot]
      BY <1>0, <2>1, <3>1, <3>2, WrittenType
    <3>5. numItems' \in 0..Capacity /\ c.position <= numItems
      BY <1>0, <2>1, <3>1, <3>2 DEF Position
    <3>6. Orderly(slots, numItems)'
      <4>1. Orderly(written, IF c.position = numItems THEN numItems + 1 ELSE numItems)
        BY <1>0, <2>1, <3>1, <3>3, <3>5, WrittenOrderly
      <4>2. QED
        BY <3>1, <3>2, <4>1
    <3>7. KeyInv'
      BY <2>2, <2>3, <3>4, <3>5, <3>6, KeyCallEnds
    <3>8. QED
      BY <1>0, <2>1, <3>1, <3>2, <3>3, <3>5, <3>7, WriteStep
  <2>6. QED
    BY <2>4, <2>5
<1>7. ASSUME NEW t \in Threads, RefuseSetItem(t) PROVE KeyInv' /\ UNCHANGED Held
  <2>1. UNCHANGED <<slots, numItems, native>> /\ call' = [call EXCEPT ![t] = Idle]
    BY <1>7 DEF RefuseSetItem
  <2>2. TypeOK' /\ InOrder' /\ call'[t] = Idle
    BY <1>0, <2>1 DEF TypeOK, InOrder, Orderly, InUse, Call
  <2>3. QED
    BY <2>1, <2>2, KeyNothingUnderWay DEF KeyInv, Held
<1>8. CASE UNCHANGED vars
  BY <1>0, <1>8 DEF vars, KeyInv, TypeOK, InOrder, Orderly, InUse, KeyStillTrue, AppendsOrErases, Held
<1>9. QED
  BY <1>1, <1>2, <1>3, <1>4, <1>5, <1>6, <1>7, <1>8 DEF NextKeyItem

-----------------------------------------------------------------------------
(* The bag of Generation II.  Whatever is done to it, its key item pocket  *)
(* takes a step of its own or none.                                        *)
LEMMA BagStepsThePocket == [BagNext]_bagVars => [NextKeyItem]_vars
<1> SUFFICES ASSUME [BagNext]_bagVars PROVE NextKeyItem \/ UNCHANGED vars
  OBVIOUS
<1>1. CASE OnKeyPocket
  BY <1>1 DEF OnKeyPocket
<1>2. ASSUME NEW item \in Items, BagAddsKeyItem(item) \/ BagRemovesKeyItem(item)
      PROVE  NextKeyItem \/ UNCHANGED vars
  BY <1>2 DEF BagAddsKeyItem, BagRemovesKeyItem, NextKeyItem
<1>3. CASE UNCHANGED bagVars
  BY <1>3 DEF bagVars
<1>4. QED
  BY <1>1, <1>2, <1>3 DEF BagNext, OnMachinePocket, AddMachine, RemoveMachine, GetNative

(* The native amounts of the machines are right but for the first one's.   *)
MachineInv ==
  /\ Machines!AmountsInRange
  /\ \A machine \in Machines!Machine : machine # 0 => machineNative[machine] = amounts[machine]

(* The steps of the machines' pocket, alone or through the bag.            *)
MachineStep ==
  \E machine \in Machines!Machine, amount \in 1..MaxMachines :
    \/ Machines!Add(machine, amount)
    \/ Machines!Remove(machine, amount)
    \/ Machines!SetFirst(amount)

LEMMA BagStepsTheMachines == [BagNext]_bagVars => MachineStep \/ UNCHANGED machineVars
<1> SUFFICES ASSUME [BagNext]_bagVars PROVE MachineStep \/ UNCHANGED machineVars
  OBVIOUS
<1>1. 0 \in Machines!Machine
  BY Gen2BagAssumption DEF Machines!Machine
<1>2. CASE OnMachinePocket
  BY <1>1, <1>2 DEF OnMachinePocket, Machines!Next, MachineStep
<1>3. ASSUME NEW machine \in Machines!Machine, NEW amount \in 1..MaxMachines,
             AddMachine(machine, amount) \/ RemoveMachine(machine, amount)
      PROVE  MachineStep
  BY <1>3 DEF AddMachine, RemoveMachine, MachineStep
<1>4. CASE UNCHANGED bagVars
  BY <1>4 DEF bagVars
<1>5. QED
  BY <1>2, <1>3, <1>4 DEF BagNext, OnKeyPocket, BagAddsKeyItem, BagRemovesKeyItem, GetNative

LEMMA MachineStepInv ==
  ASSUME MachineInv, MachineStep \/ UNCHANGED machineVars
  PROVE  MachineInv' /\ (Machines!OnlyFirstLags \/ UNCHANGED machineVars)
<1> USE Gen2BagAssumption DEF Machines!Machine
<1>1. /\ amounts \in [Machines!Machine -> 0..MaxMachines]
      /\ machineNative \in [Machines!Machine -> 0..MaxMachines]
  BY DEF MachineInv, Machines!AmountsInRange
<1>2. ASSUME NEW machine \in Machines!Machine, NEW amount \in 1..MaxMachines,
             Machines!Add(machine, amount) \/ Machines!Remove(machine, amount)
      PROVE  MachineInv' /\ Machines!OnlyFirstLags
  <2>1. /\ Machines!Smaller(MaxMachines, amounts[machine] + amount) \in 0..MaxMachines
        /\ Machines!Larger(0, amounts[machine] - amount) \in 0..MaxMachines
    BY <1>1 DEF Machines!Smaller, Machines!Larger
  <2>2. amounts' \in [Machines!Machine -> 0..MaxMachines] /\ machineNative' = amounts'
    <3>1. PICK some \in 0..MaxMachines : amounts' = [amounts EXCEPT ![machine] = some]
      BY <1>2, <2>1 DEF Machines!Add, Machines!Remove
    <3>2. machineNative' = amounts'
      BY <1>2 DEF Machines!Add, Machines!Remove, Machines!ToNative
    <3>3. QED
      BY <1>1, <3>1, <3>2
  <2>3. QED
    BY <2>2 DEF MachineInv, Machines!AmountsInRange, Machines!OnlyFirstLags
<1>3. ASSUME NEW amount \in 1..MaxMachines, Machines!SetFirst(amount)
      PROVE  MachineInv' /\ Machines!OnlyFirstLags
  <2>1. amounts' = [amounts EXCEPT ![0] = amount] /\ machineNative' = machineNative
    BY <1>3 DEF Machines!SetFirst
  <2>2. MachineInv'
    BY <1>1, <2>1 DEF MachineInv, Machines!AmountsInRange
  <2>3. amounts' = [machineNative' EXCEPT ![0] = amount]
    BY <1>1, <2>1 DEF MachineInv
  <2>4. QED
    BY <1>3, <2>2, <2>3 DEF Machines!OnlyFirstLags
<1>4. CASE UNCHANGED machineVars
  BY <1>4 DEF machineVars, MachineInv, Machines!AmountsInRange
<1>5. QED
  BY <1>2, <1>3, <1>4 DEF MachineStep

(* The inductive invariant of the bag.                                     *)
BagInv ==
  /\ KeyInv
  /\ MachineInv
  /\ bagNative.keyItems \in [items : [Position -> Slot], count : 0..255]
  /\ bagNative.machines \in [Machines!Machine -> 0..MaxMachines]

LEMMA BagInitInv == BagInit => BagInv
<1> SUFFICES ASSUME BagInit PROVE BagInv
  OBVIOUS
<1>1. KeyInv
  BY KeyInitInv DEF BagInit
<1>2. MachineInv
  BY DEF BagInit, Machines!Init, MachineInv, Machines!AmountsInRange
<1>3. QED
  BY <1>1, <1>2 DEF BagInit, BagInv, PocketNatives, KeyInv, TypeOK, MachineInv, Machines!AmountsInRange

(* A step that changes the bag's copy copies both pockets.                 *)
LEMMA BagCopies == [BagNext]_bagVars => UNCHANGED bagNative \/ bagNative' = PocketNatives'
BY DEF BagNext, bagVars, OnKeyPocket, OnMachinePocket, BagAddsKeyItem, BagRemovesKeyItem, AddMachine,
   RemoveMachine, GetNative, CopyPockets

LEMMA BagStepInv == CarefulCallers /\ BagInv /\ [BagNext]_bagVars => BagInv'
<1> SUFFICES ASSUME CarefulCallers, BagInv, [BagNext]_bagVars PROVE BagInv'
  OBVIOUS
<1>1. KeyInv'
  BY KeyStep, BagStepsThePocket DEF BagInv
<1>2. MachineInv'
  BY MachineStepInv, BagStepsTheMachines DEF BagInv
<1>3. /\ (bagNative.keyItems \in [items : [Position -> Slot], count : 0..255])'
      /\ (bagNative.machines \in [Machines!Machine -> 0..MaxMachines])'
  <2>1. CASE UNCHANGED bagNative
    BY <2>1 DEF BagInv
  <2>2. CASE bagNative' = PocketNatives'
    BY <1>1, <1>2, <2>2 DEF PocketNatives, KeyInv, TypeOK, MachineInv, Machines!AmountsInRange
  <2>3. QED
    BY <2>1, <2>2, BagCopies
<1>4. QED
  BY <1>1, <1>2, <1>3 DEF BagInv

LEMMA BagInvariance == ASSUME CarefulCallers PROVE BagSpec => []BagInv
<1>1. BagInit => BagInv
  BY BagInitInv
<1>2. BagInv /\ [BagNext]_bagVars => BagInv'
  BY BagStepInv
<1>3. QED
  BY <1>1, <1>2, PTL DEF BagSpec

(* To a caller who only appends and erases with set_item, the key item     *)
(* pocket is distinct items without gaps, one of each, and their number,   *)
(* for every capacity, through every call on the pocket and on the bag.    *)
THEOREM PocketsTheorem ==
  ASSUME CarefulCallers
  PROVE  BagSpec => []PocketsAreWellFormed
<1>1. BagInv => PocketsAreWellFormed
  BY OrderlyMeansWellFormed
  DEF BagInv, KeyInv, InOrder, MachineInv, PocketsAreWellFormed, BagTypeOK, ListIsWellFormed
<1>2. QED
  BY <1>1, BagInvariance, PTL

(* To the same caller the pocket is an inventory of at most one of each    *)
(* key item.                                                               *)
THEOREM KeysTheorem ==
  ASSUME CarefulCallers
  PROVE  BagSpec => KeysImplementInventory
<1>1. BagInit => Inventory!Init
  BY KeyInitInv, InventoryInit DEF BagInit, KeyInv
<1>2. BagInv /\ [BagNext]_bagVars => [Inventory!Next]_Held
  BY KeyStep, BagStepsThePocket DEF BagInv
<1>3. QED
  BY <1>1, <1>2, BagInvariance, PTL DEF BagSpec, KeysImplementInventory, ImplementsInventory, Inventory!Spec

(* Only two calls leave a native list behind, and how far: remove() of a   *)
(* key item, for the slots behind it, and set_item() of a machine, for the *)
(* amount of the first one.                                                *)
LEMMA OnlyRemovalLagsStep ==
  ASSUME CarefulCallers, KeyInv, NextKeyItem
  PROVE  /\ native'.count = NativeCount(numItems')
         /\ SavesWhatItShows =>
              \/ SavesWhatItShows'
              \/ \E t \in Threads, item \in Items :
                   /\ RemoveKeyItem(t, item)
                   /\ \A p \in Position :
                        native'.items[p] # slots'[p] => \E q \in Position : q < p /\ slots[q].item = item
<1>1. KeyInv'
  BY KeyStep
<1>2. native'.count = NativeCount(numItems') /\ numItems' \in 0..Capacity /\ NativeCount(numItems') = numItems'
  BY <1>1, Gen2BagAssumption, ConstantsAssumption DEF KeyInv, InOrder, NativeCount
<1>3. /\ slots \in [Position -> Slot] /\ slots' \in [Position -> Slot]
      /\ native' \in [items : [Position -> Slot], count : 0..255]
  BY <1>1 DEF KeyInv, TypeOK
<1>4. ASSUME native'.items = slots' PROVE SavesWhatItShows'
  BY <1>2, <1>3, <1>4 DEF SavesWhatItShows
<1>5. CASE ToNative
  BY <1>4, <1>5 DEF ToNative
<1>6. CASE UNCHANGED <<slots, numItems, native>>
  BY <1>2, <1>6 DEF SavesWhatItShows
<1>7. ASSUME NEW t \in Threads, NEW item \in Items, AddKeyItem(t, item), SavesWhatItShows
      PROVE  SavesWhatItShows'
  <2>1. native.items = slots /\ slots' = [slots EXCEPT ![numItems] = [item |-> item, amount |-> 1]]
        /\ native'.items = [native.items EXCEPT ![numItems] = slots'[numItems]]
    BY <1>7 DEF AddKeyItem, AddNew, ToNativeAt, SavesWhatItShows
  <2>2. numItems \in Position
    BY <1>7, ConstantsAssumption DEF AddKeyItem, AddNew, KeyInv, InOrder, Position
  <2>3. native'.items = slots'
    BY <1>3, <2>1, <2>2
  <2>4. QED
    BY <1>4, <2>3
<1>8. ASSUME NEW t \in Threads, NEW item \in Items, RemoveKeyItem(t, item), SavesWhatItShows,
             NEW p \in Position, native'.items[p] # slots'[p]
      PROVE  \E q \in Position : q < p /\ slots[q].item = item
  <2>1. PICK first \in Position :
          /\ IsFirst(item, first)
          /\ slots' = Erased(slots, first)
          /\ native'.items = [native.items EXCEPT ![first] = slots'[first]]
    BY <1>8 DEF RemoveKeyItem, ToNativeAt
  <2>2. native.items = slots /\ slots[first].item = item
    BY <1>8, <2>1 DEF SavesWhatItShows, IsFirst
  <2>3. p # first
    BY <1>3, <1>8, <2>1, <2>2
  <2>4. ~(p < first)
    BY <1>3, <1>8, <2>1, <2>2 DEF Erased
  <2>5. first < p
    BY <2>3, <2>4, ConstantsAssumption DEF Position
  <2>6. QED
    BY <2>2, <2>5
<1>9. QED
  BY <1>2, <1>5, <1>6, <1>7, <1>8
  DEF NextKeyItem, BeginMove, Move, BeginSetKeyItem, SetKeyItem, RefuseSetItem

THEOREM OnlyTwoCallsLag ==
  ASSUME CarefulCallers
  PROVE  BagSpec => NativesLagOnlyThere
<1>1. BagInv /\ [BagNext]_bagVars =>
        [ /\ native'.count = NativeCount(numItems')
          /\ SavesWhatItShows =>
               \/ SavesWhatItShows'
               \/ \E t \in Threads, item \in Items :
                    /\ RemoveKeyItem(t, item)
                    /\ \A p \in Position :
                         native'.items[p] # slots'[p] => \E q \in Position : q < p /\ slots[q].item = item ]_vars
  BY BagStepsThePocket, OnlyRemovalLagsStep DEF BagInv
<1>2. BagInv /\ [BagNext]_bagVars => [Machines!OnlyFirstLags]_<<amounts, machineNative>>
  BY BagStepsTheMachines, MachineStepInv DEF BagInv, machineVars
<1>3. QED
  BY <1>1, <1>2, BagInvariance, PTL DEF BagSpec, NativesLagOnlyThere, OnlyRemovalLags

(* Each call on the bag that changes its copy copies every pocket.         *)
THEOREM BagCallsTheorem == BagSpec => BagCallsCopyEverything
<1>1. [BagNext]_bagVars => [bagNative' # bagNative => bagNative' = PocketNatives']_bagVars
  BY BagCopies
<1>2. QED
  BY <1>1, PTL DEF BagSpec, BagCallsCopyEverything

(* Both bags together: the copy that a call leaves in the bag is what the  *)
(* pockets are, and the native lists lag where two calls say.              *)
THEOREM CopiesTheorem ==
  ASSUME CarefulCallers, CarefulSharing
  PROVE  BagSpec /\ SharedSpec => CopiesAreCurrent
BY OnlyTwoCallsLag, BagCallsTheorem, UpToDateTheorem, PTL DEF CopiesAreCurrent
=============================================================================
