-------------------------- MODULE PokemonSequence --------------------------
(***************************************************************************)
(* What a party, or a box of Generations I and II, promises its callers    *)
(* (include/pkmn/pokemon_party.hpp, pokemon_box.hpp): "Parties store       *)
(* Pokemon contiguously", so it is a sequence.  It grows and shrinks at    *)
(* its end only, a Pokemon in it can be replaced by another or be changed  *)
(* by whoever holds it, and its order is nobody's business but the         *)
(* caller's.                                                               *)
(***************************************************************************)
EXTENDS Integers, Sequences

CONSTANTS
  Creatures,  \* the Pokemon there can be
  Capacity    \* 6 in a party, 20 (or 30 in Japan) in a box

VARIABLE team

Init == team \in UNION {[1..n -> Creatures] : n \in 0..Capacity}

Join(creature) ==
  /\ Len(team) < Capacity
  /\ team' = Append(team, creature)

LastLeaves ==
  /\ team # <<>>
  /\ team' = SubSeq(team, 1, Len(team) - 1)

Replace(place, creature) == team' = [team EXCEPT ![place] = creature]

Next ==
  \/ \E creature \in Creatures : Join(creature)
  \/ LastLeaves
  \/ \E place \in DOMAIN team, creature \in Creatures : Replace(place, creature)

Spec == Init /\ [][Next]_team
=============================================================================
