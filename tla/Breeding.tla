------------------------------ MODULE Breeding ------------------------------
(***************************************************************************)
(* What two Pokemon can have as a child (lib/breeding/compatibility.cpp,   *)
(* child_info.cpp): its species, the moves it hatches with, and the best   *)
(* IVs it can have.                                                        *)
(*                                                                         *)
(* The parents are objects that callers change between two questions; what *)
(* the questions are answered from in the database is constant.            *)
(***************************************************************************)
EXTENDS Integers, Sequences, FiniteSets, FiniteSetsExt, Functions

CONSTANTS
  Species, NoSpecies,
  EvolvesFrom,       \* [Species -> Species \cup {NoSpecies}]
  Since,             \* the generation that introduced a species
  Genders,           \* the genders of which there are Pokemon of a species, of two at most
  EggGroups,
  IncenseLines,      \* [species, add]: lines whose baby came later
  Games, Generation,
  EggMoves,          \* of a game and a species that nothing evolves into
  MachineMoves,      \* of a game and a species
  TutorMoves,        \* of a species, in Crystal
  LevelMoves,        \* of a game and a species, [move, level] in order of level
  MoveLists,         \* moves that callers teach
  IVLists,           \* of a generation, the IVs that callers set
  Rank               \* the order of the stats

(* The IVs of a generation are maps of the same stats to small numbers. *)
ASSUME IVAssumption ==
  \A g \in 2..3 :
    /\ IVLists[g] # {}
    /\ \A a, b \in IVLists[g] : DOMAIN a = DOMAIN b /\ \A s \in DOMAIN a : a[s] \in Nat

ASSUME EmeraldAssumption == "EMERALD" \in Games => Generation["EMERALD"] = 3

(* The database: species evolve from species of it, and somewhere a line   *)
(* begins.                                                                 *)
ASSUME SpeciesAssumption ==
  /\ NoSpecies \notin Species
  /\ EvolvesFrom \in [Species -> Species \cup {NoSpecies}]
  /\ \A some \in (SUBSET Species) \ {{}} : \E s \in some : EvolvesFrom[s] \notin some
  /\ Since \in [Species -> Nat] /\ Generation \in [Games -> Nat]

(* The species that the code names.                                        *)
ASSUME TwinsAssumption ==
  /\ {"NIDORAN_F", "NIDORAN_M", "VOLBEAT", "ILLUMISE", "MANAPHY", "PHIONE"} \subseteq Species
  /\ Since["NIDORAN_F"] = Since["NIDORAN_M"] /\ Since["VOLBEAT"] = Since["ILLUMISE"]
  /\ Since["PHIONE"] <= Since["MANAPHY"]

ASSUME IncenseAssumption ==
  \A line \in IncenseLines :
    /\ line.add \in line.species /\ line.species \subseteq Species \ {"DITTO"}
    /\ \A s \in line.species : /\ Since[line.add] <= Since[s]
                               /\ s # line.add => EvolvesFrom[s] \in line.species

(* The maps of IVs that a Pokemon of Generation II (but HP, which follows) *)
(* and of Generation III has, and the order of their keys.                 *)
Stats(generation) ==
  IF generation = 2 THEN {"ATTACK", "DEFENSE", "SPEED", "SPECIAL"}
  ELSE {"HP", "ATTACK", "DEFENSE", "SPEED", "SPATK", "SPDEF"}

ASSUME StatsAssumption ==
  /\ IVLists[2] \subseteq [Stats(2) -> 0..15] /\ IVLists[3] \subseteq [Stats(3) -> 0..31]
  /\ \A s \in Stats(3) : Rank[s] \in Nat
  /\ "RUBY" \in Games => Generation["RUBY"] = 3

(* A Pokemon has four places for moves; the database knows no move "NONE". *)
ASSUME MovesAssumption ==
  /\ \A moves \in MoveLists : moves = [i \in 1..4 |-> moves[i]]
  /\ \A g \in Games, s \in Species :
       /\ LevelMoves[g][s] \in Seq(Range(LevelMoves[g][s]))
       /\ "NONE" \notin EggMoves[g][s] \cup MachineMoves[g][s] \cup TutorMoves[s]
       /\ \A entry \in Range(LevelMoves[g][s]) : entry.move # "NONE"

VARIABLES
  mother, father,  \* [species, game, moves, item, IVs]
  answer           \* the last one, as long as nobody changed the parents

vars == <<mother, father, answer>>

NumMoves == 4
NoMove == "NONE"
LightBall == "LIGHT_BALL"
MaxIV(generation) == IF generation = 2 THEN 15 ELSE 31
Nothing == [asked |-> "nothing"]

-----------------------------------------------------------------------------
(* Compatibility, of which a gender's chance says whether there is one. *)
Compatible(a, b) ==
  /\ {a, b} # {"DITTO"}
  /\ {a, b} \cap {"NIDOQUEEN", "NIDOKING"} = {}
  /\ "UNDISCOVERED" \notin EggGroups[a] \cup EggGroups[b]
  /\ "DITTO" \in {a, b} \/ EggGroups[a] \cap EggGroups[b] # {}
  /\ ~(Genders[a] = Genders[b] /\ Cardinality(Genders[a]) = 1)

(* The database has an entry of a species in the games that know it. *)
InGame(species, game) == Since[species] <= Generation[game]

CanBePair(m, f, game) ==
  /\ Compatible(m, f)
  /\ InGame(m, game) /\ Genders[m] # {"MALE"}
  /\ InGame(f, game) /\ Genders[f] # {"FEMALE"}

(* The first species of a line in any game: what egg moves are looked up   *)
(* with. (As a variant of Earliest it is faulty.)                          *)
EarliestEver(species, generation) ==
  LET before[s \in Species] == IF EvolvesFrom[s] = NoSpecies THEN s ELSE before[EvolvesFrom[s]]
  IN before[species]

(* get_earliest_species_in_evolutionary_line() *)
Earliest(species, generation) ==
  LET before[s \in Species] ==
        IF EvolvesFrom[s] = NoSpecies \/ Since[EvolvesFrom[s]] > generation THEN s
        ELSE before[EvolvesFrom[s]]
  IN before[species]

LineOf(m, f, generation) ==
  CASE m = "NIDORAN_F" -> {"NIDORAN_F", "NIDORAN_M"}
    [] m = "DITTO" /\ f = "NIDORAN_M" -> {"NIDORAN_M"} \cup (IF generation >= 5 THEN {"NIDORAN_F"} ELSE {})
    [] m = "DITTO" /\ f = "VOLBEAT" -> {"VOLBEAT"} \cup (IF generation >= 5 THEN {"ILLUMISE"} ELSE {})
    [] m = "ILLUMISE" -> {"VOLBEAT", "ILLUMISE"}
    [] {m, f} = {"MANAPHY", "DITTO"} -> {"PHIONE"}
    [] OTHER -> {Earliest(IF m = "DITTO" THEN f ELSE m, generation)}

(* "either itself or the pre-evolution" *)
WithIncense(m, f) ==
  {line.add : line \in {l \in IncenseLines : m \in l.species \/ (m = "DITTO" /\ f \in l.species)}}

PossibleChildren(m, f, game) == LineOf(m, f, Generation[game]) \cup WithIncense(m, f)

-----------------------------------------------------------------------------
(* The moves of a child: of the first of these, those that are wanted. *)
Kept(moves, wanted) ==
  LET kept[n \in 0..Len(moves)] ==
        IF n = 0 THEN <<>>
        ELSE IF moves[n] \in wanted THEN Append(kept[n - 1], moves[n]) ELSE kept[n - 1]
  IN kept

Of(moves, wanted) == Kept(moves, wanted)[Len(moves)]

VoltTackle(child) ==
  IF /\ child = "PICHU"
     /\ Generation[mother.game] >= 4 \/ mother.game = "EMERALD"
     /\ LightBall \in {mother.item, father.item}
  THEN <<"VOLT_TACKLE">> ELSE <<>>

(* The egg moves of a line are those of its first species, of whichever    *)
(* generation that is.                                                     *)
EggMovesOf(child) == EggMoves[mother.game][EarliestEver(child, Generation[mother.game])]

(* Up to Generation V machines, in Crystal what the tutor teaches. *)
FromFather(child) ==
  (IF Generation[mother.game] <= 5 THEN Of(father.moves, MachineMoves[mother.game][child]) ELSE <<>>)
    \o (IF mother.game = "CRYSTAL" THEN Of(father.moves, TutorMoves[child]) ELSE <<>>)

LevelMovesOf(child) == LevelMoves[mother.game][child]

LearnedByLevel(child) == [i \in DOMAIN LevelMovesOf(child) |-> LevelMovesOf(child)[i].move]

(* Of any level, other than the comment says. *)
KnownToBoth(child) == Of(LearnedByLevel(child), Range(mother.moves) \cap Range(father.moves))

HatchingLevel == IF Generation[mother.game] >= 4 THEN 1 ELSE 5

(* What it learns by that level: up to the first entry above it. *)
LearnedEarly(child) ==
  {i \in DOMAIN LevelMovesOf(child) : \A j \in 1..i : LevelMovesOf(child)[j].level <= HatchingLevel}

Natural(child) == [i \in LearnedEarly(child) |-> LevelMovesOf(child)[i].move]

Inherited(child) ==
  VoltTackle(child)
    \o Of(mother.moves, EggMovesOf(child)) \o Of(father.moves, EggMovesOf(child))
    \o FromFather(child) \o KnownToBoth(child)

UpToFour(moves) == [i \in 1..NumMoves |-> IF i <= Len(moves) THEN moves[i] ELSE NoMove]

(* Faulty variant of ChildMoves: what it would learn anyway comes first. *)
ChildMovesNaturalFirst(child) == UpToFour(Natural(child) \o Inherited(child))

ChildMoves(child) == UpToFour(Inherited(child) \o Natural(child))

-----------------------------------------------------------------------------
(* The best IVs of a child. *)
HPIV(iv) == 8 * (iv.ATTACK % 2) + 4 * (iv.DEFENSE % 2) + 2 * (iv.SPEED % 2) + (iv.SPECIAL % 2)

WithHP(iv) == [s \in DOMAIN iv \cup {"HP"} |-> IF s = "HP" THEN HPIV(iv) ELSE iv[s]]

BestSpecial(special) == IF special < 8 THEN special + 8 ELSE special

GiverOfIVs(gender) ==
  CASE mother.species = "DITTO" -> mother.IVs
    [] father.species = "DITTO" -> father.IVs
    [] OTHER -> IF gender = "MALE" THEN mother.IVs ELSE father.IVs

GoldIVs(giver) ==
  WithHP([ATTACK |-> 15, DEFENSE |-> giver.DEFENSE, SPEED |-> 15, SPECIAL |-> BestSpecial(giver.SPECIAL)])

(* combine_maps_with_higher_values() *)
Combined(a, b) == [s \in DOMAIN a |-> IF a[s] > b[s] THEN a[s] ELSE b[s]]

(* Of the highest ones, the first. *)
Highest(IVs) ==
  CHOOSE s \in DOMAIN IVs :
    \A t \in DOMAIN IVs : IVs[t] < IVs[s] \/ (IVs[t] = IVs[s] /\ Rank[s] <= Rank[t])

Without(IVs, stats) == Restrict(IVs, DOMAIN IVs \ stats)

(* Faulty variant of HighestThree: they stay in the map. *)
HighestThreeTimes(IVs) == {Highest(IVs)}

HighestThree(IVs) ==
  LET first == Highest(IVs)
      second == Highest(Without(IVs, {first}))
  IN {first, second, Highest(Without(IVs, {first, second}))}

RubyIVs(a, b) ==
  LET better == Combined(a, b)
  IN [s \in DOMAIN better |-> IF s \in HighestThree(better) THEN better[s] ELSE 31]

(* get_filtered_map() copies a map and then erases from the copy what an   *)
(* iterator of the map itself points to, to which C++ gives no meaning.    *)
(* The entry is cut out of where it is, which is the map, and the copy     *)
(* keeps it; whether the map still shows it is a matter of what is left of *)
(* its memory.  Or the loop never ends, and nothing is ever answered.      *)
LeftByFilter(IVs, stats) == {Without(IVs, gone) : gone \in SUBSET stats}

(* The second and the third stat are chosen from copies which lack no more *)
(* than what they were copied from, and are not taken out of it, so they   *)
(* may be the same; the rest is what is left of the map.                   *)
EmeraldIVs(a, b) ==
  LET better == Combined(a, b)
      first == Highest(better)
      rest == Without(better, {first})
      second == Highest(rest)
      ThirdOf(map) == {Restrict(better, {first, second, Highest(map)} \cup DOMAIN left) :
                         left \in LeftByFilter(map, {"HP", "DEFENSE"})}
  IN UNION {ThirdOf(left) : left \in LeftByFilter(rest, {"HP"})}

(* What a caller may be told: in Emerald one of several answers. *)
IdealIVs(gender) ==
  CASE Generation[mother.game] = 2 -> {GoldIVs(GiverOfIVs(gender))}
    [] mother.game = "EMERALD" -> EmeraldIVs(mother.IVs, father.IVs)
    [] OTHER -> {RubyIVs(mother.IVs, father.IVs)}

GenderlessOr(species) == IF Genders[species] = {} THEN {"GENDERLESS"} ELSE Genders[species]

-----------------------------------------------------------------------------
Parent(species, game) ==
  [ species |-> species, game |-> game, moves |-> [i \in 1..NumMoves |-> NoMove], item |-> "NONE",
    IVs |-> CHOOSE IVs \in IVLists[Generation[game]] : TRUE ]

(* Pokemon of Generation II and III; others there are in the database only. *)
GamesOfPokemon == {game \in Games : Generation[game] \in 2..3}

Init ==
  /\ \E species \in Species \X Species, games \in GamesOfPokemon \X GamesOfPokemon :
       /\ InGame(species[1], games[1]) /\ mother = Parent(species[1], games[1])
       /\ InGame(species[2], games[2]) /\ father = Parent(species[2], games[2])
  /\ answer = Nothing

Change(m, f) == mother' = m /\ father' = f /\ answer' = Nothing

Teach(moves) ==
  Change([mother EXCEPT !.moves = moves], father) \/ Change(mother, [father EXCEPT !.moves = moves])

Hold(item) ==
  Change([mother EXCEPT !.item = item], father) \/ Change(mother, [father EXCEPT !.item = item])

SetIVs(IVs) ==
  Change([mother EXCEPT !.IVs = IVs], father) \/ Change(mother, [father EXCEPT !.IVs = IVs])

(* get_possible_child_species() *)
AskSpecies(game) ==
  /\ CanBePair(mother.species, father.species, game)
  /\ answer' = [ asked |-> "species", game |-> game,
                 is |-> PossibleChildren(mother.species, father.species, game) ]
  /\ UNCHANGED <<mother, father>>

CanAsk == mother.game = father.game /\ CanBePair(mother.species, father.species, mother.game)

Children == PossibleChildren(mother.species, father.species, mother.game)

(* get_child_moves() *)
AskMoves(child) ==
  /\ CanAsk /\ child \in Children
  /\ answer' = [asked |-> "moves", child |-> child, is |-> ChildMoves(child)]
  /\ UNCHANGED <<mother, father>>

(* get_ideal_child_IVs() *)
AskIVs(gender) ==
  /\ CanAsk /\ \E child \in Children : gender \in GenderlessOr(child)
  /\ Generation[mother.game] \in 2..3
  /\ \E IVs \in IdealIVs(gender) : answer' = [asked |-> "IVs", gender |-> gender, is |-> IVs]
  /\ UNCHANGED <<mother, father>>

AskNext ==
  \/ \E game \in Games : AskSpecies(game)
  \/ \E child \in Species : AskMoves(child)
  \/ \E gender \in {"MALE", "FEMALE", "GENDERLESS"} : AskIVs(gender)

ChangeNext ==
  \/ \E moves \in MoveLists : Teach(moves)
  \/ \E item \in {"NONE", LightBall} : Hold(item)
  \/ \E IVs \in IVLists[Generation[mother.game]] \cap IVLists[Generation[father.game]] : SetIVs(IVs)

Next == AskNext \/ ChangeNext

Spec == Init /\ [][Next]_vars

-----------------------------------------------------------------------------
TypeOK ==
  /\ mother.species \in Species /\ father.species \in Species
  /\ answer.asked \in {"nothing", "species", "moves", "IVs"}
  /\ answer.asked = "species" => answer.is \subseteq Species
  /\ answer.asked = "moves" => Len(answer.is) = NumMoves
  /\ answer.asked = "IVs" => \A s \in DOMAIN answer.is : answer.is[s] \in 0..MaxIV(Generation[mother.game])

(* A child is of a species that its game has, and it grows into the parent *)
(* that passes its species on, unless it is one of a pair of twins or a    *)
(* Manaphy's.                                                              *)
ChildrenAreOfTheLine ==
  answer.asked = "species" =>
    \A child \in answer.is :
      LET parent == IF mother.species = "DITTO" THEN father.species ELSE mother.species
          generation == Generation[answer.game]
      IN /\ InGame(child, answer.game)
         /\ \/ EarliestEver(child, generation) = EarliestEver(parent, generation)
            \/ {child, parent} \in {{"NIDORAN_F", "NIDORAN_M"}, {"VOLBEAT", "ILLUMISE"}, {"PHIONE", "MANAPHY"}}

(* A child hatches with moves it could learn, never with another move that *)
(* a parent happens to know.                                               *)
OnlyLearnableMoves ==
  answer.asked = "moves" =>
    \A i \in 1..NumMoves :
      LET child == answer.child  move == answer.is[i]
      IN \/ move = NoMove
         \/ move \in EggMovesOf(child) \cup MachineMoves[mother.game][child] \cup Range(LearnedByLevel(child))
         \/ move \in TutorMoves[child] /\ mother.game = "CRYSTAL"
         \/ move = "VOLT_TACKLE" /\ child = "PICHU"

(* "For any remaining moves, use any moves the child would naturally       *)
(* learn": no inherited move is pushed out by one it learns anyway, and    *)
(* none of either is lost as long as there is a place.                     *)
NaturalMovesComeLast ==
  answer.asked = "moves" =>
    LET known == Range(answer.is)  inherited == Range(Inherited(answer.child))
    IN /\ known \subseteq inherited \cup {NoMove} \/ inherited \subseteq known
       /\ NoMove \in known => inherited \cup Range(Natural(answer.child)) \subseteq known

(* The moves of a child: all that it may have, in the right order. *)
ChildMovesAreRight == OnlyLearnableMoves /\ NaturalMovesComeLast

(* What may come of a parent's IVs in Generation II. *)
GoldOutcomes(giver) ==
  {WithHP([ATTACK |-> a, DEFENSE |-> giver.DEFENSE, SPEED |-> s, SPECIAL |-> special]) :
     a \in 14..15, s \in 14..15, special \in {giver.SPECIAL, (giver.SPECIAL + 8) % 16}}

(* In Gold to Crystal no IVs that a child can have are better in any stat, *)
(* that of HP included, which follows from the others.                     *)
GoldIVsAreBest ==
  answer.asked = "IVs" /\ Generation[mother.game] = 2 =>
    LET outcomes == GoldOutcomes(GiverOfIVs(answer.gender))
    IN answer.is \in outcomes /\ \A other \in outcomes : \A s \in DOMAIN other : other[s] <= answer.is[s]

SumOf(IVs) == IVs.HP + IVs.ATTACK + IVs.DEFENSE + IVs.SPEED + IVs.SPATK + IVs.SPDEF

(* Three of either parent, and the rest of any value, at best of 31.       *)
RubyOutcomes(a, b) ==
  {[s \in DOMAIN a |-> IF s \notin taken THEN 31 ELSE IF s \in mothers THEN a[s] ELSE b[s]] :
     taken \in kSubset(3, DOMAIN a), mothers \in SUBSET DOMAIN a}

(* "three random IVs between the parents, and the rest are randomly        *)
(* generated": the answer is such a child, and none has a greater sum.     *)
RubyIVsAreBest ==
  answer.asked = "IVs" /\ mother.game = "RUBY" =>
    LET outcomes == RubyOutcomes(mother.IVs, father.IVs)
    IN answer.is \in outcomes /\ \A other \in outcomes : SumOf(other) <= SumOf(answer.is)

(* The ideal IVs of the two ways of inheritance that leave a choice. *)
IdealIVsAreBest == TypeOK /\ GoldIVsAreBest /\ RubyIVsAreBest

(* "First, a random IV [is] inherited. Second, a non-HP random IV [...].   *)
(* Third, an IV (not HP or Defense) [...]. The rest will be randomly       *)
(* generated", and is given "the highest possible value".  Any three stats *)
(* can be chosen so, in some order; so the outcomes are those of Ruby, and *)
(* the answer is to be one of them, of which none has a greater sum.  (The *)
(* code fills the rest in with the parents' IVs, chooses a stat twice, or  *)
(* leaves one out: this does not hold.)                                    *)
EmeraldIVsAreBest ==
  answer.asked = "IVs" /\ mother.game = "EMERALD" =>
    LET outcomes == RubyOutcomes(mother.IVs, father.IVs)
    IN answer.is \in outcomes /\ \A other \in outcomes : SumOf(other) <= SumOf(answer.is)
=============================================================================
