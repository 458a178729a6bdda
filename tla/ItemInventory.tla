--------------------------- MODULE ItemInventory ---------------------------
(***************************************************************************)
(* What an item list promises its callers (include/pkmn/item_list.hpp): a  *)
(* bounded amount of each of a bounded number of items.  There are no      *)
(* positions here: how items are ordered, shifted and copied to a save is  *)
(* not part of the promise, and no call may change an amount by accident.  *)
(***************************************************************************)
EXTENDS Integers, FiniteSets

CONSTANTS Items, PocketItems, Capacity, MaxAmount, IsPC

VARIABLE held  \* the amount of each item, 0 when it is not in the list

Kinds == {item \in Items : held[item] > 0}

Init ==
  /\ held \in [Items -> 0..MaxAmount]
  /\ Cardinality(Kinds) <= Capacity

(* More of an item that is there, or some of a new one that belongs here. *)
Gain(item, amount) ==
  /\ held[item] + amount <= MaxAmount
  /\ item \notin Kinds => (IsPC \/ item \in PocketItems) /\ Cardinality(Kinds) < Capacity
  /\ held' = [held EXCEPT ![item] = @ + amount]

Lose(item, amount) ==
  /\ amount <= held[item]
  /\ held' = [held EXCEPT ![item] = @ - amount]

(* One slot is written: what was in it goes, another item or another       *)
(* amount of the same one takes its place.                                 *)
Replace(old, new, amount) ==
  /\ old \in Kinds
  /\ new = old \/ new \notin Kinds
  /\ IsPC \/ new \in PocketItems
  /\ held' = [held EXCEPT ![old] = 0, ![new] = amount]

Next ==
  \E item \in Items, amount \in 1..MaxAmount :
    \/ Gain(item, amount)
    \/ Lose(item, amount)
    \/ \E old \in Items : Replace(old, item, amount)

Spec == Init /\ [][Next]_held
=============================================================================
