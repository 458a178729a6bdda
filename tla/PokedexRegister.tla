-------------------------- MODULE PokedexRegister --------------------------
(***************************************************************************)
(* What a pkmn::pokedex promises its callers (include/pkmn/pokedex.hpp): a *)
(* register of which species were seen and which were caught, whose        *)
(* queries always answer from the current register.  There is no cache and *)
(* no dirty flag here; lib/pokedex_impl.cpp has both, and module Pokedex   *)
(* shows that they cannot be noticed.                                      *)
(***************************************************************************)
EXTENDS Integers, Sequences

CONSTANT NumPokemon  \* National Pokedex numbers run from 1 to NumPokemon

VARIABLES
  seen,    \* the species registered as seen
  caught,  \* the species registered as caught
  answer   \* what the last call returned: a list, a number, a flag, or NoAnswer

NoAnswer == [kind |-> "none"]
Listing(list) == [kind |-> "list", value |-> list]
Count(n) == [kind |-> "number", value |-> n]
Flag(b) == [kind |-> "flag", value |-> b]

Species == 1..NumPokemon

(* "ordered by National Pokedex number" *)
InNationalOrder(set) ==
  SelectSeq([n \in 1..NumPokemon |-> n], LAMBDA n : n \in set)

vars == <<seen, caught, answer>>

Init ==
  /\ seen \in SUBSET Species
  /\ caught \in SUBSET Species
  /\ answer = NoAnswer

(* A species that is made unseen is made uncaught as well. *)
Unsee(s) ==
  /\ seen' = seen \ {s}
  /\ caught' = caught \ {s}
  /\ answer' = NoAnswer

See(s) ==
  /\ seen' = seen \cup {s}
  /\ answer' = NoAnswer
  /\ UNCHANGED caught

(* A species that is caught is made seen as well. *)
Catch(s) ==
  /\ caught' = caught \cup {s}
  /\ seen' = seen \cup {s}
  /\ answer' = NoAnswer

Release(s) ==
  /\ caught' = caught \ {s}
  /\ answer' = NoAnswer
  /\ UNCHANGED seen

Ask ==
  /\ \E set \in {seen, caught} :
       \/ answer' = Listing(InNationalOrder(set))
       \/ answer' = Count(Len(InNationalOrder(set)))
       \/ \E s \in Species : answer' = Flag(s \in set)
  /\ UNCHANGED <<seen, caught>>

Next ==
  \/ \E s \in Species : See(s) \/ Unsee(s) \/ Catch(s) \/ Release(s)
  \/ Ask

Spec == Init /\ [][Next]_vars
=============================================================================
