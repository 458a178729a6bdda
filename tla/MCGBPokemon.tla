---------------------------- MODULE MCGBPokemon ----------------------------
(* A starter, a Pokemon of Generation II only and Unown.  Level 100 is     *)
(* above what a level met can say; one move has 40 PP, more than which six *)
(* bits cannot hold with all PP Ups; one learnset is longer than a         *)
(* Pokemon's memory and not finished at level 5.                           *)
EXTENDS GBPokemon, TLC

Learnset(levels) == [i \in 1..Len(levels) |-> [level |-> levels[i], move |-> i]]

ThreeSpecies == {
  [ratio |-> "7/8", unown |-> FALSE, inGen1 |-> TRUE, learnset |-> Learnset(<<1, 1, 2, 3, 4, 100>>)],
  [ratio |-> "1/2", unown |-> FALSE, inGen1 |-> FALSE, learnset |-> Learnset(<<1, 100>>)],
  [ratio |-> "none", unown |-> TRUE, inGen1 |-> FALSE, learnset |-> Learnset(<<1>>)] }

SixMoves == 1..6
PPs == [m \in SixMoves |-> IF m = 2 THEN 40 ELSE 35]
Curve == (1 :> 0) @@ (5 :> 125) @@ (100 :> 1000000)
OneStart == {[ATTACK |-> 6, DEFENSE |-> 10, SPEED |-> 10, SPECIAL |-> 9]}
SomeIVs == {<<"ATTACK", 2>>, <<"HP", 5>>}
SomeEVs == {<<"HP", 65535>>}
=============================================================================
