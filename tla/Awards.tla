------------------------------- MODULE Awards --------------------------------
(***************************************************************************)
(* Ribbons, markings, contest stats and obedience of a Pokemon of          *)
(* Generation III.                                                         *)
(*                                                                         *)
(* The GBA keeps all ribbons and the obedience in one word: for each       *)
(* contest the level that was won, in three bits, and a bit for each other *)
(* ribbon.  The GameCube has a cell for each.  Beside the structure an     *)
(* object has maps, which its getters return; in them a contest that was   *)
(* won at one level is four ribbons.                                       *)
(***************************************************************************)
EXTENDS NativeRows, Sequences

CONSTANTS
  RibbonInputs,  \* <<contest, level>>, or <<ribbon, 0>>
  MarkInputs,
  ContestInputs  \* <<contest stat, value>>

Contests == <<"Cool", "Beauty", "Cute", "Smart", "Tough">>
Levels == 1..4  \* none in the name, Super, Hyper, Master
Specials == <<"Champion", "Winning", "Victory", "Artist", "Effort", "Marine", "Land", "Sky",
              "Country", "National", "Earth", "World">>
Marks == <<"CIRCLE", "TRIANGLE", "SQUARE", "HEART">>
ContestStats == {"COOL", "BEAUTY", "CUTE", "SMART", "TOUGH", "FEEL"}
InOrder(names) == {names[i] : i \in DOMAIN names}

(* Only contests have levels. *)
ASSUME AwardsAssumption ==
  \A ribbon \in RibbonInputs :
    ribbon = <<ribbon[1], ribbon[2]>> /\ (ribbon[1] \in InOrder(Specials) => ribbon[2] = 0)

VARIABLES
  console,  \* "gba" or "gcn", the class of the object
  awards,   \* this part of the structure
  ribbons,  \* which of _ribbons are true
  marks,    \* which of _markings are true
  contest   \* _contest_stats
awardVars == <<console, awards, ribbons, marks, contest>>

-----------------------------------------------------------------------------
Place(names, name) == CHOOSE i \in DOMAIN names : names[i] = name

GBARibbons ==
  [c \in InOrder(Contests) |-> Number("ribbons_obedience", 3 * (Place(Contests, c) - 1), 3, 0..7)]
    ++ [r \in InOrder(Specials) |-> Bit("ribbons_obedience", 14 + Place(Specials, r))]

GBAObedience == [obedient |-> Bit("ribbons_obedience", 31)]
GBAMarks == [m \in InOrder(Marks) |-> Bit("markings", Place(Marks, m) - 1)]
GBAContest == [s \in ContestStats |-> Cell(s, 0..255)]

GCNRibbons == [c \in InOrder(Contests) |-> Cell(c, 0..4)] ++ [r \in InOrder(Specials) |-> Cell(r, BOOLEAN)]
GCNObedience == [obedient |-> Cell("obedient", BOOLEAN)]
GCNMarks == [m \in InOrder(Marks) |-> Cell(m, BOOLEAN)]
GCNContest == [s \in ContestStats |-> Cell(s, 0..255)]

AwardRows ==
  [gba |-> GBARibbons ++ GBAObedience ++ GBAMarks ++ GBAContest,
   gcn |-> GCNRibbons ++ GCNObedience ++ GCNMarks ++ GCNContest]

Award(on, data, name) == ToldOf(AwardRows[on][name], data)

(* _update_ribbons_map() of either class. *)
RibbonsOf(on, data) ==
  {won \in InOrder(Contests) \X Levels : won[2] <= Award(on, data, won[1])}
    \cup {<<r, 0>> : r \in {s \in InOrder(Specials) : Award(on, data, s)}}

MarksOf(on, data) == {m \in InOrder(Marks) : Award(on, data, m)}
ContestOf(on, data) == [s \in ContestStats |-> Award(on, data, s)]

(* The constructors read all of the structure they are given.              *)
Over(on, data) ==
  /\ console' = on
  /\ awards' = data
  /\ ribbons' = RibbonsOf(on, data)
  /\ marks' = MarksOf(on, data)
  /\ contest' = ContestOf(on, data)

Blank ==
  [ gba |-> [cell \in {"ribbons_obedience", "markings"} |-> {}] ++ [s \in ContestStats |-> 0],
    gcn |-> [c \in InOrder(Contests) |-> 0] ++ [s \in ContestStats |-> 0]
              ++ [x \in InOrder(Specials) \cup InOrder(Marks) \cup {"obedient"} |-> FALSE] ]

With(on, data, name, value) == Stored(data, AwardRows[on][name], value)

(* Mew and Deoxys are made obedient, others are not. *)
AwardsInit ==
  /\ console \in {"gba", "gcn"}
  /\ \E obedient \in BOOLEAN : awards = With(console, Blank[console], "obedient", obedient)
  /\ ribbons = {} /\ marks = {}
  /\ contest = [s \in ContestStats |-> 0]

-----------------------------------------------------------------------------
Lower(a, b) == IF a < b THEN a ELSE b
Higher(a, b) == IF a < b THEN b ELSE a

(* On the GBA a ribbon is given with those below it and taken away with    *)
(* those above it.  On the GameCube what was won before does not matter.   *)
GBALevel(c, level, value) ==
  LET current == Award("gba", awards, c)
  IN IF value THEN Higher(level, current) ELSE Lower(level - 1, current)

GCNLevel(level, value) == IF value THEN level ELSE level - 1

SetContestRibbon(c, level, value) ==
  /\ level \in Levels
  /\ awards' = With(console, awards, c,
                    IF console = "gba" THEN GBALevel(c, level, value) ELSE GCNLevel(level, value))

SetSpecialRibbon(ribbon, value) ==
  /\ ribbon \in InOrder(Specials)
  /\ awards' = With(console, awards, ribbon, value)

SetRibbon(ribbon, value) ==
  /\ IF ribbon[1] \in InOrder(Contests) THEN SetContestRibbon(ribbon[1], ribbon[2], value)
                                        ELSE SetSpecialRibbon(ribbon[1], value)
  /\ ribbons' = RibbonsOf(console, awards')
  /\ UNCHANGED <<console, marks, contest>>

SetMarking(mark, value) ==
  /\ mark \in InOrder(Marks)
  /\ awards' = With(console, awards, mark, value)
  /\ marks' = IF value THEN marks \cup {mark} ELSE marks \ {mark}
  /\ UNCHANGED <<console, ribbons, contest>>

SetContestStat(stat, value) ==
  /\ stat \in ContestStats /\ value \in 0..255
  /\ awards' = With(console, awards, stat, value)
  /\ contest' = [contest EXCEPT ![stat] = value]
  /\ UNCHANGED <<console, ribbons, marks>>

SetObedient(value) ==
  /\ awards' = With(console, awards, "obedient", value)
  /\ UNCHANGED <<console, ribbons, marks, contest>>

(* From one structure into a blank one of the other kind.                  *)
Gathered(to, told) ==
  [cell \in DOMAIN Blank[to] |->
     LET rows == {n \in DOMAIN AwardRows[to] : AwardRows[to][n].cell = cell}
         codes == {AwardRows[to][n].code[told[n]] : n \in rows}
     IN IF \E n \in rows : AwardRows[to][n].mask # {} THEN UNION codes ELSE CHOOSE code \in codes : TRUE]

(* Faulty variant of AwardsAcross: the contests are read off by one. *)
AwardsAcrossShifted(to) ==
  Gathered(to, [n \in DOMAIN AwardRows[to] |-> Award(console, awards, IF n = "Beauty" THEN "Cool" ELSE n)])

AwardsAcross(to) == Gathered(to, [n \in DOMAIN AwardRows[to] |-> Award(console, awards, n)])

(* to_game(), and within a class also lists and files: a new object over   *)
(* the structure.                                                          *)
TradeAwards(to) == Over(to, IF to = console THEN awards ELSE AwardsAcross(to))

AwardsNext ==
  \/ \E ribbon \in RibbonInputs, value \in BOOLEAN : SetRibbon(ribbon, value)
  \/ \E mark \in MarkInputs, value \in BOOLEAN : SetMarking(mark, value)
  \/ \E input \in ContestInputs : SetContestStat(input[1], input[2])
  \/ \E value \in BOOLEAN : SetObedient(value)
  \/ \E to \in {"gba", "gcn"} : TradeAwards(to)

AwardsSpec == AwardsInit /\ [][AwardsNext]_awardVars

-----------------------------------------------------------------------------
(* What the getters return is in the structure, whatever was set beside    *)
(* it, and no contest has a ribbon without those below it.                 *)
MapsAreCurrent ==
  /\ ribbons = RibbonsOf(console, awards)
  /\ marks = MarksOf(console, awards)
  /\ contest = ContestOf(console, awards)

Obedient == Award(console, awards, "obedient")

(* gen3_pokemon_tests.cpp:80: a ribbon is there, or not there, when it was *)
(* set so, with those below it and without those above it, and other       *)
(* contests and ribbons stay as they were.  On the GBA nothing is lost by  *)
(* giving and nothing won by taking away.                                  *)
RibbonsAreExact ==
  \A ribbon \in RibbonInputs, value \in BOOLEAN : SetRibbon(ribbon, value) =>
    /\ (ribbon \in ribbons') = value
    /\ \A other \in ribbons \cup ribbons' :
         other[1] # ribbon[1] => other \in ribbons \cap ribbons'
    /\ \A l \in Levels : ribbon[2] > 0 /\ <<ribbon[1], l>> \in ribbons' =>
         \A k \in 1..l : <<ribbon[1], k>> \in ribbons'
    /\ console = "gba" => IF value THEN ribbons \subseteq ribbons' ELSE ribbons' \subseteq ribbons
    /\ Obedient' = Obedient

ObedienceIsApart == \A value \in BOOLEAN : SetObedient(value) => Obedient' = value /\ UNCHANGED ribbons

(* conversions_test.cpp: a trade keeps all of it. *)
TradesKeepAwards ==
  \A to \in {"gba", "gcn"} : TradeAwards(to) =>
    ribbons' = ribbons /\ marks' = marks /\ contest' = contest /\ Obedient' = Obedient

(* Awards are what was given, in one word as in many cells, through        *)
(* setters, trades and new objects over the same structure.                *)
AwardsAreKept ==
  [][MapsAreCurrent' /\ RibbonsAreExact /\ ObedienceIsApart /\ TradesKeepAwards]_awardVars
=============================================================================
