--------------------------- MODULE MCGen3Pokemon ---------------------------
(* The setters touch parts of the structure that only a trade, a copy and  *)
(* a reload bring together, so each behaviour takes the setters of one     *)
(* topic, and all of those three.                                          *)
(*                                                                         *)
(* Of the random personalities there is one of every kind that the         *)
(* properties tell apart.                                                  *)
EXTENDS Gen3Pokemon, TLC

VARIABLE topic

Topics == {"traits", "growth", "moves", "honours", "history"}

TwoSpecies == {[ratio |-> "7/8", unown |-> FALSE, two |-> TRUE],
               [ratio |-> "none", unown |-> TRUE, two |-> FALSE]}
TwoIDs == {{}, {3, 4}}

(* Nature 0 or 1, even or odd, female or not, shiny with the first ID or   *)
(* not; the last two are shiny with the second ID.                         *)
OneOfEachKind == {
  {}, {1, 4, 5}, {5, 17, 18, 21}, {1, 4, 25}, {0, 4, 5, 20}, {0, 3, 5, 18, 19, 21},
  {0, 3, 24}, {0, 1, 17}, {5, 18}, {4, 5, 20, 21}, {20}, {3, 16, 18, 19},
  {0}, {0, 1, 4, 5}, {0, 5, 17, 18, 21}, {0, 1, 4, 25}, {0, 3, 4}, {1, 5, 19, 20, 21} }

OneSpecial == {<<"champion", 1>>}
Curve == (1 :> 0) @@ (5 :> 125) @@ (100 :> 1000000)
GCNCurve == (0 :> 0) @@ (1 :> 1) @@ (5 :> 125) @@ (100 :> 1000000)
PPs == [m \in {1, 2} |-> 5 * m]
KnownItems == [g \in {"emerald", "colosseum", "xd"} |->
                 IF g = "emerald" THEN {"both", "gba"} ELSE {"both", g}]

AnyPersonality == {1, 4, 5}

MCInit ==
  /\ Gen3Init
  /\ topic \in Topics
  /\ topic \notin {"growth", "moves"} => native.level = 5
  /\ topic # "moves" => native.moves = [i \in Slots |-> 1]
  /\ topic # "traits" => ~species.unown /\ native.pid = AnyPersonality

MCNext ==
  /\ \/ TradeNext
     \/ topic = "traits"  /\ TraitsNext
     \/ topic = "growth"  /\ GrowthNext
     \/ topic = "moves"   /\ MovesNext
     \/ topic = "honours" /\ HonoursNext
     \/ topic = "history" /\ HistoryNext
  /\ UNCHANGED topic

MCSpec == MCInit /\ [][MCNext]_<<gen3Vars, topic>>
=============================================================================
