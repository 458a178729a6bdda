---------------------------- MODULE TmhmPocket -----------------------------
(***************************************************************************)
(* The TM/HM pocket of Generation II (lib/item_list_gen2_tmhmimpl.cpp).    *)
(*                                                                         *)
(* Each machine has a slot of its own that never moves; only amounts       *)
(* change, there are no gaps to close, and the inherited _num_items stays  *)
(* 0 for good.  The native list is one amount for each machine.            *)
(***************************************************************************)
EXTENDS Integers

CONSTANTS
  NumMachines,  \* 50 TMs and 7 HMs
  MaxAmount     \* 99

VARIABLES
  amounts,  \* _item_slots[p].amount
  native    \* _pksav_list.tm_count, then hm_count: one byte each

vars == <<amounts, native>>

Machine == 0..NumMachines-1
Smaller(a, b) == IF a < b THEN a ELSE b
Larger(a, b) == IF a > b THEN a ELSE b

(* A new pocket is empty, a loaded one has the amounts of the save. *)
Init ==
  /\ native \in [Machine -> 0..MaxAmount]
  /\ amounts = native

\* Faulty variant of ToNative: the amounts from before the call are copied.
ToNativeBefore == native' = amounts

(* _to_native copies every amount, whatever position it is given; the      *)
(* number of items, get_num_items(), is counted in the native list.        *)
ToNative == native' = amounts'

(* More than MaxAmount is cut off without a word... *)
Add(machine, amount) ==
  /\ amounts' = [amounts EXCEPT ![machine] = Smaller(MaxAmount, @ + amount)]
  /\ ToNative

(* ...and so is less than nothing. *)
Remove(machine, amount) ==
  /\ amounts' = [amounts EXCEPT ![machine] = Larger(0, @ - amount)]
  /\ ToNative

(* set_item() lets no position pass but 0, because it compares with        *)
(* _num_items; the item has to be the one of that slot.  It does not copy  *)
(* the amount to the native list.  move() always throws.                   *)
SetFirst(amount) ==
  /\ amounts' = [amounts EXCEPT ![0] = amount]
  /\ UNCHANGED native

Next ==
  \/ \E machine \in Machine, amount \in 1..MaxAmount : Add(machine, amount) \/ Remove(machine, amount)
  \/ \E amount \in 1..MaxAmount : SetFirst(amount)

-----------------------------------------------------------------------------
AmountsInRange ==
  /\ amounts \in [Machine -> 0..MaxAmount]
  /\ native \in [Machine -> 0..MaxAmount]

(* Every call leaves the native list as the pocket shows it, but set_item, *)
(* which leaves the one amount it wrote missing there                      *)
(* (item_list_gen2_tmhmimpl.cpp:200, "No need to copy everything").        *)
OnlyFirstLags ==
  \/ native' = amounts'
  \/ \E amount \in 1..MaxAmount : SetFirst(amount) /\ amounts' = [native' EXCEPT ![0] = amount]
=============================================================================
