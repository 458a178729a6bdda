--------------------------- MODULE BreedingProofs ---------------------------
(***************************************************************************)
(* What two Pokemon may have as a child, for any species, lines, moves and *)
(* IVs: that it is of a parent's line, that it hatches with moves it may   *)
(* have and those it inherits first, and that no child has better IVs.     *)
(* And what becomes of the Pokemon at a daycare, of any names and levels.  *)
(*                                                                         *)
(* The parents are objects that change between two questions; the          *)
(* invariant is that an answer, as long as there is one, is what the       *)
(* question gives for the parents of now.                                  *)
(***************************************************************************)
EXTENDS Breeding, Daycare, FiniteSetTheorems, WellFoundedInduction, TLAPS

(* A set of naturals has a least one, and one that is bounded a greatest.  *)
Smaller == {pair \in Nat \X Nat : pair[1] < pair[2]}

LEMMA LeastIsThere ==
  ASSUME NEW S \in SUBSET Nat, S # {}
  PROVE  \E x \in S : \A y \in S : x <= y
<1>1. IsWellFoundedOn(OpToRel(<, Nat), Nat)
  BY NatLessThanWellFounded
<1>2. IsWellFoundedOn(Smaller, Nat)
  BY <1>1 DEF OpToRel, Smaller
<1>3. PICK x \in S : \A y \in S : <<y, x>> \notin Smaller
  BY <1>2, WFMin
<1>4. \A y \in S : ~(y < x)
  BY <1>3 DEF Smaller
<1> QED
  BY <1>4

-----------------------------------------------------------------------------
(* The walk back to the first species of a line, which ends at some        *)
(* species, is a function, whatever the database: what it comes to is in   *)
(* each set that the walk does not leave.                                  *)
LEMMA WalkIsThere ==
  ASSUME NEW Stops \in SUBSET Species, \A s \in Species \ Stops : EvolvesFrom[s] \in Species
  PROVE  \E f : f = [s \in Species |-> IF s \in Stops THEN s ELSE f[EvolvesFrom[s]]]
<1> DEFINE Closed(S) == \A t \in S \ Stops : EvolvesFrom[t] \in S
           Ends(s, r) == \A S \in SUBSET Species : s \in S /\ Closed(S) => r \in S
           first(s) == CHOOSE r \in Stops : Ends(s, r)
           F == [s \in Species |-> first(s)]
<1>1. ASSUME NEW s \in Stops PROVE first(s) = s
  <2>1. Ends(s, s)
    OBVIOUS
  <2>2. ASSUME NEW r \in Stops, Ends(s, r) PROVE r = s
    <3>1. {s} \in SUBSET Species /\ Closed({s})
      OBVIOUS
    <3> QED
      BY <2>2, <3>1
  <2> QED
    BY <2>1, <2>2
<1>2. ASSUME NEW s \in Species \ Stops PROVE first(s) = first(EvolvesFrom[s])
  <2>1. ASSUME NEW r \in Stops, Ends(EvolvesFrom[s], r) PROVE Ends(s, r)
    BY <2>1
  <2>2. ASSUME NEW r \in Stops, Ends(s, r) PROVE Ends(EvolvesFrom[s], r)
    <3> SUFFICES ASSUME NEW S \in SUBSET Species, EvolvesFrom[s] \in S, Closed(S) PROVE r \in S
      OBVIOUS
    <3>1. S \cup {s} \in SUBSET Species /\ Closed(S \cup {s})
      OBVIOUS
    <3>2. r \in S \cup {s}
      BY <2>2, <3>1
    <3> QED
      BY <3>2
  <2>3. \A r \in Stops : Ends(s, r) <=> Ends(EvolvesFrom[s], r)
    BY <2>1, <2>2
  <2> HIDE DEF Ends
  <2> QED
    BY <2>3
<1> HIDE DEF first
<1>3. F = [s \in Species |-> IF s \in Stops THEN s ELSE F[EvolvesFrom[s]]]
  BY <1>1, <1>2
<1> HIDE DEF F
<1> QED
  BY <1>3

(* Where the walk of a generation ends, and the one of any.                *)
Begins == {s \in Species : EvolvesFrom[s] = NoSpecies}
BeginsIn(generation) ==
  {s \in Species : EvolvesFrom[s] = NoSpecies \/ Since[EvolvesFrom[s]] > generation}

LEMMA BeginsLemma ==
  ASSUME NEW generation
  PROVE  /\ Begins \subseteq BeginsIn(generation) /\ BeginsIn(generation) \subseteq Species
         /\ \A s \in Species \ Begins : EvolvesFrom[s] \in Species
BY SpeciesAssumption DEF Begins, BeginsIn

LEMMA EarliestEverWalks ==
  ASSUME NEW generation
  PROVE  \E f : /\ f = [s \in Species |-> IF s \in Begins THEN s ELSE f[EvolvesFrom[s]]]
                /\ \A s \in Species : EarliestEver(s, generation) = f[s]
<1> DEFINE Is(f) == f = [s \in Species |-> IF EvolvesFrom[s] = NoSpecies THEN s ELSE f[EvolvesFrom[s]]]
           before == CHOOSE f : Is(f)
<1>1. \E f : f = [s \in Species |-> IF s \in Begins THEN s ELSE f[EvolvesFrom[s]]]
  BY BeginsLemma, WalkIsThere
<1>2. \A f : f = [s \in Species |-> IF s \in Begins THEN s ELSE f[EvolvesFrom[s]]] <=> Is(f)
  BY DEF Begins
<1>3. \A s \in Species : EarliestEver(s, generation) = before[s]
  BY DEF EarliestEver
<1> HIDE DEF Is
<1>4. Is(before)
  BY <1>1, <1>2
<1> HIDE DEF before
<1> QED
  BY <1>2, <1>3, <1>4

LEMMA EarliestWalks ==
  ASSUME NEW generation
  PROVE  \E f : /\ f = [s \in Species |-> IF s \in BeginsIn(generation) THEN s ELSE f[EvolvesFrom[s]]]
                /\ \A s \in Species : Earliest(s, generation) = f[s]
<1> DEFINE Is(f) == f = [s \in Species |-> IF EvolvesFrom[s] = NoSpecies \/ Since[EvolvesFrom[s]] > generation
                                           THEN s ELSE f[EvolvesFrom[s]]]
           before == CHOOSE f : Is(f)
<1>1. \E f : f = [s \in Species |-> IF s \in BeginsIn(generation) THEN s ELSE f[EvolvesFrom[s]]]
  BY BeginsLemma, WalkIsThere
<1>2. \A f : f = [s \in Species |-> IF s \in BeginsIn(generation) THEN s ELSE f[EvolvesFrom[s]]] <=> Is(f)
  BY DEF BeginsIn
<1>3. \A s \in Species : Earliest(s, generation) = before[s]
  BY DEF Earliest
<1> HIDE DEF Is
<1>4. Is(before)
  BY <1>1, <1>2
<1> HIDE DEF before
<1> QED
  BY <1>2, <1>3, <1>4

(* The first species that a generation knows is a species of it and of the *)
(* same line.                                                              *)
LEMMA EarliestIsOfTheLine ==
  ASSUME NEW generation \in Nat, NEW species \in Species
  PROVE  /\ Earliest(species, generation) \in Species
         /\ EarliestEver(Earliest(species, generation), generation) = EarliestEver(species, generation)
         /\ Since[species] <= generation => Since[Earliest(species, generation)] <= generation
<1>1. PICK f : /\ f = [s \in Species |-> IF s \in Begins THEN s ELSE f[EvolvesFrom[s]]]
               /\ \A s \in Species : EarliestEver(s, generation) = f[s]
  BY EarliestEverWalks
<1>2. PICK h : /\ h = [s \in Species |-> IF s \in BeginsIn(generation) THEN s ELSE h[EvolvesFrom[s]]]
               /\ \A s \in Species : Earliest(s, generation) = h[s]
  BY EarliestWalks
<1> DEFINE Right(s) == /\ h[s] \in Species /\ f[h[s]] = f[s]
                       /\ Since[s] <= generation => Since[h[s]] <= generation
           wrong == {s \in Species : ~Right(s)}
<1>3. ASSUME NEW s \in wrong PROVE EvolvesFrom[s] \in wrong
  <2>1. s \in Species /\ ~Right(s)
    OBVIOUS
  <2>2. s \notin BeginsIn(generation)
    BY <1>2, <2>1
  <2>3. s \notin Begins /\ EvolvesFrom[s] \in Species
    BY <2>1, <2>2, BeginsLemma
  <2>4. h[s] = h[EvolvesFrom[s]] /\ f[s] = f[EvolvesFrom[s]]
    BY <1>1, <1>2, <2>1, <2>2, <2>3
  <2>5. ~(Since[EvolvesFrom[s]] > generation)
    BY <2>1, <2>2 DEF BeginsIn
  <2>6. Since[s] <= generation => Since[EvolvesFrom[s]] <= generation
    BY <2>3, <2>5, SpeciesAssumption
  <2>7. ~Right(EvolvesFrom[s])
    BY <2>1, <2>4, <2>5, <2>6
  <2> QED
    BY <2>3, <2>7
<1>4. wrong = {}
  <2> HIDE DEF Right
  <2>1. wrong \in SUBSET Species
    OBVIOUS
  <2> HIDE DEF wrong
  <2> QED
    BY <1>3, <2>1, SpeciesAssumption
<1> QED
  BY <1>1, <1>2, <1>4

LEMMA IncenseIsOfTheLine ==
  ASSUME NEW generation, NEW line \in IncenseLines, NEW species \in line.species
  PROVE  /\ line.add \in Species /\ Since[line.add] <= Since[species]
         /\ EarliestEver(line.add, generation) = EarliestEver(species, generation)
<1>1. PICK f : /\ f = [s \in Species |-> IF s \in Begins THEN s ELSE f[EvolvesFrom[s]]]
               /\ \A s \in Species : EarliestEver(s, generation) = f[s]
  BY EarliestEverWalks
<1> DEFINE wrong == {s \in line.species : f[s] # f[line.add]}
<1>2. wrong \in SUBSET Species
  BY IncenseAssumption
<1>3. ASSUME NEW s \in wrong PROVE EvolvesFrom[s] \in wrong
  <2>1. s \in Species /\ EvolvesFrom[s] \in line.species /\ EvolvesFrom[s] \in Species
    BY IncenseAssumption
  <2>2. f[s] = f[EvolvesFrom[s]]
    BY <1>1, <2>1, SpeciesAssumption DEF Begins
  <2> QED
    BY <2>1, <2>2
<1>4. wrong = {}
  <2> HIDE DEF wrong
  <2> QED
    BY <1>2, <1>3, SpeciesAssumption
<1> QED
  BY <1>1, <1>4, IncenseAssumption

(* What may come of two species: of each, its game and its line.           *)
ChildOf(child, m, f, game) ==
  LET parent == IF m = "DITTO" THEN f ELSE m
      generation == Generation[game]
  IN /\ child \in Species /\ InGame(child, game)
     /\ \/ EarliestEver(child, generation) = EarliestEver(parent, generation)
        \/ {child, parent} \in {{"NIDORAN_F", "NIDORAN_M"}, {"VOLBEAT", "ILLUMISE"}, {"PHIONE", "MANAPHY"}}

LEMMA ChildrenLemma ==
  ASSUME NEW m \in Species, NEW f \in Species, NEW game \in Games, CanBePair(m, f, game),
         NEW child \in PossibleChildren(m, f, game)
  PROVE  ChildOf(child, m, f, game)
<1> DEFINE parent == IF m = "DITTO" THEN f ELSE m
           generation == Generation[game]
<1>0. parent \in Species /\ Since[parent] <= generation /\ generation \in Nat
  BY SpeciesAssumption DEF CanBePair, InGame
<1>1. ASSUME child \in WithIncense(m, f) PROVE ChildOf(child, m, f, game)
  <2>1. PICK line \in IncenseLines : /\ child = line.add
                                     /\ m \in line.species \/ (m = "DITTO" /\ f \in line.species)
    BY <1>1 DEF WithIncense
  <2>2. parent \in line.species
    BY <2>1, IncenseAssumption
  <2>3. /\ child \in Species /\ Since[child] <= Since[parent]
        /\ EarliestEver(child, generation) = EarliestEver(parent, generation)
    BY <2>1, <2>2, IncenseIsOfTheLine
  <2>4. Since[child] \in Nat /\ Since[parent] \in Nat
    BY <1>0, <2>3, SpeciesAssumption
  <2> QED
    BY <1>0, <2>3, <2>4 DEF ChildOf, InGame
<1>2. ASSUME child \in LineOf(m, f, generation) PROVE ChildOf(child, m, f, game)
  <2>1. CASE child = Earliest(parent, generation)
    BY <1>0, <2>1, EarliestIsOfTheLine DEF ChildOf, InGame
  <2>2. CASE child = parent
    BY <1>0, <2>2 DEF ChildOf, InGame
  <2>3. CASE {child, parent} = {"NIDORAN_F", "NIDORAN_M"}
    BY <1>0, <2>3, TwinsAssumption DEF ChildOf, InGame
  <2>4. CASE {child, parent} = {"VOLBEAT", "ILLUMISE"}
    BY <1>0, <2>4, TwinsAssumption DEF ChildOf, InGame
  <2>5. CASE child = "PHIONE" /\ parent = "MANAPHY"
    <3>1. Since["PHIONE"] \in Nat /\ Since["MANAPHY"] \in Nat
      BY TwinsAssumption, SpeciesAssumption
    <3> QED
      BY <1>0, <2>5, <3>1, TwinsAssumption DEF ChildOf, InGame
  <2>6. \/ child = Earliest(parent, generation) \/ child = parent
        \/ {child, parent} = {"NIDORAN_F", "NIDORAN_M"}
        \/ {child, parent} = {"VOLBEAT", "ILLUMISE"}
        \/ child = "PHIONE" /\ parent = "MANAPHY"
    <3> DEFINE twins(a, b) == {a} \cup (IF generation >= 5 THEN {b} ELSE {})
    <3>1. CASE m = "NIDORAN_F"
      BY <1>2, <3>1 DEF LineOf
    <3>2. CASE m = "DITTO" /\ f = "NIDORAN_M"
      <4>1. LineOf(m, f, generation) = twins("NIDORAN_M", "NIDORAN_F")
        BY <3>2 DEF LineOf
      <4>2. child \in {"NIDORAN_M", "NIDORAN_F"}
        BY <1>2, <4>1
      <4> QED
        BY <3>2, <4>2 DEF parent
    <3>3. CASE m = "DITTO" /\ f = "VOLBEAT"
      <4>1. LineOf(m, f, generation) = twins("VOLBEAT", "ILLUMISE")
        BY <3>3 DEF LineOf
      <4>2. child \in {"VOLBEAT", "ILLUMISE"}
        BY <1>2, <4>1
      <4> QED
        BY <3>3, <4>2
    <3>4. CASE m = "ILLUMISE"
      <4>1. LineOf(m, f, generation) = {"VOLBEAT", "ILLUMISE"}
        BY <3>4 DEF LineOf
      <4> QED
        BY <1>2, <3>4, <4>1
    <3>5. CASE {m, f} = {"MANAPHY", "DITTO"}
      <4>1. m \in {"MANAPHY", "DITTO"} /\ (m = "DITTO" => f = "MANAPHY")
        BY <3>5
      <4> QED
        BY <1>2, <3>5, <4>1 DEF LineOf
    <3>6. CASE /\ m # "NIDORAN_F" /\ ~(m = "DITTO" /\ f = "NIDORAN_M") /\ ~(m = "DITTO" /\ f = "VOLBEAT")
               /\ m # "ILLUMISE" /\ {m, f} # {"MANAPHY", "DITTO"}
      <4>1. LineOf(m, f, generation) = {Earliest(parent, generation)}
        BY <3>6 DEF LineOf
      <4> QED
        BY <1>2, <4>1
    <3> QED
      BY <3>1, <3>2, <3>3, <3>4, <3>5, <3>6
  <2> QED
    BY <2>1, <2>2, <2>3, <2>4, <2>5, <2>6
<1> QED
  BY <1>1, <1>2 DEF PossibleChildren

-----------------------------------------------------------------------------
(* map_max_value_iter() finds a stat, of which there is no higher one.     *)
LEMMA HighestIsThere ==
  ASSUME NEW D \in SUBSET Stats(3), D # {}, NEW IVs \in [D -> 0..31]
  PROVE  Highest(IVs) \in D /\ \A t \in D : IVs[t] <= IVs[Highest(IVs)]
<1> DEFINE Missing == {31 - IVs[t] : t \in D}
           First(s) == \A t \in D : IVs[t] < IVs[s] \/ (IVs[t] = IVs[s] /\ Rank[s] <= Rank[t])
<1>1. \E s \in D : First(s)
  <2>1. Missing \in SUBSET Nat /\ Missing # {}
    <3>1. \A t \in D : 31 - IVs[t] \in Nat
      OBVIOUS
    <3> QED
      BY <3>1
  <2>2. PICK least \in Missing : \A other \in Missing : least <= other
    BY <2>1, LeastIsThere
  <2>3. PICK h \in D : least = 31 - IVs[h]
    BY <2>2
  <2>4. \A t \in D : IVs[t] <= IVs[h]
    <3>1. \A t \in D : 31 - IVs[h] <= 31 - IVs[t]
      BY <2>2, <2>3
    <3> QED
      BY <3>1
  <2> DEFINE ranks == {Rank[t] : t \in {u \in D : IVs[u] = IVs[h]}}
  <2>5. ranks \in SUBSET Nat /\ ranks # {}
    BY StatsAssumption
  <2>6. PICK rank \in ranks : \A other \in ranks : rank <= other
    BY <2>5, LeastIsThere
  <2>7. PICK s \in D : IVs[s] = IVs[h] /\ rank = Rank[s]
    BY <2>6
  <2>8. \A t \in D : IVs[t] = IVs[s] => Rank[s] <= Rank[t]
    BY <2>6, <2>7
  <2> QED
    BY <2>4, <2>7, <2>8
<1>2. Highest(IVs) = CHOOSE s \in D : First(s)
  BY DEF Highest
<1>3. Highest(IVs) \in D /\ First(Highest(IVs))
  BY <1>1, <1>2
<1> QED
  BY <1>3

(* Three of six stats weigh three times as much as one.                    *)
Weight(some, s, c) == IF s \in some THEN c ELSE 0
WeightOf(some, c) ==
  Weight(some, "HP", c) + Weight(some, "ATTACK", c) + Weight(some, "DEFENSE", c)
    + Weight(some, "SPEED", c) + Weight(some, "SPATK", c) + Weight(some, "SPDEF", c)

LEMMA WeightOfThree ==
  ASSUME NEW x \in Stats(3), NEW y \in Stats(3), NEW z \in Stats(3), x # y, x # z, y # z, NEW c \in Nat
  PROVE  WeightOf({x, y, z}, c) = 3 * c
<1>1. WeightOf({x}, c) = c
  BY DEF WeightOf, Weight, Stats
<1>2. WeightOf({x, y}, c) = WeightOf({x}, c) + c
  BY DEF WeightOf, Weight, Stats
<1>3. WeightOf({x, y, z}, c) = WeightOf({x, y}, c) + c
  BY DEF WeightOf, Weight, Stats
<1> QED
  BY <1>1, <1>2, <1>3

LEMMA ThreeOf ==
  ASSUME NEW some \in kSubset(3, Stats(3))
  PROVE  \E x, y, z \in Stats(3) : x # y /\ x # z /\ y # z /\ some = {x, y, z}
<1>1. some \in SUBSET Stats(3) /\ Cardinality(some) = 3
  BY DEF kSubset
<1>2. IsFiniteSet(some)
  <2>1. IsFiniteSet(Stats(3))
    <3>1. IsFiniteSet({"HP"} \cup {"ATTACK"})
      BY FS_Singleton, FS_AddElement
    <3>2. IsFiniteSet(({"HP"} \cup {"ATTACK"}) \cup {"DEFENSE"})
      BY <3>1, FS_AddElement
    <3>3. IsFiniteSet({"SPEED"} \cup {"SPATK"})
      BY FS_Singleton, FS_AddElement
    <3>4. IsFiniteSet(({"SPEED"} \cup {"SPATK"}) \cup {"SPDEF"})
      BY <3>3, FS_AddElement
    <3> DEFINE physical == ({"HP"} \cup {"ATTACK"}) \cup {"DEFENSE"}
               others == ({"SPEED"} \cup {"SPATK"}) \cup {"SPDEF"}
    <3>5. Stats(3) = physical \cup others
      BY DEF Stats
    <3> HIDE DEF physical, others
    <3>6. IsFiniteSet(physical) /\ IsFiniteSet(others)
      BY <3>2, <3>4 DEF physical, others
    <3> QED
      BY <3>5, <3>6, FS_Union
  <2> QED
    BY <1>1, <2>1, FS_Subset
<1>3. PICK x \in some : TRUE
  BY <1>1, <1>2, FS_EmptySet
<1>4. IsFiniteSet(some \ {x}) /\ Cardinality(some \ {x}) = 2
  BY <1>1, <1>2, <1>3, FS_RemoveElement
<1>5. PICK y \in some \ {x} : TRUE
  BY <1>4, FS_EmptySet
<1>6. IsFiniteSet((some \ {x}) \ {y}) /\ Cardinality((some \ {x}) \ {y}) = 1
  BY <1>4, <1>5, FS_RemoveElement
<1>7. PICK z : (some \ {x}) \ {y} = {z}
  BY <1>6, FS_Singleton
<1> QED
  BY <1>1, <1>3, <1>5, <1>7

LEMMA ThreeAreCounted ==
  ASSUME NEW x \in Stats(3), NEW y \in Stats(3), NEW z \in Stats(3), x # y, x # z, y # z
  PROVE  {x, y, z} \in kSubset(3, Stats(3))
<1>1. IsFiniteSet({x}) /\ Cardinality({x}) = 1
  BY FS_Singleton
<1>2. IsFiniteSet({x} \cup {y}) /\ Cardinality({x} \cup {y}) = 2
  BY <1>1, FS_AddElement
<1>3. Cardinality(({x} \cup {y}) \cup {z}) = 3
  BY <1>2, FS_AddElement
<1>4. {x, y, z} = ({x} \cup {y}) \cup {z}
  OBVIOUS
<1> QED
  BY <1>3, <1>4 DEF kSubset

(* get_rs_frlg_ideal_child_IVs() takes three, of which no other is higher. *)
LEMMA HighestThreeAreHighest ==
  ASSUME NEW IVs \in [Stats(3) -> 0..31]
  PROVE  \E x, y, z \in Stats(3) :
           /\ x # y /\ x # z /\ y # z
           /\ HighestThree(IVs) = {x, y, z}
           /\ IVs[x] >= IVs[y] /\ IVs[y] >= IVs[z]
           /\ \A t \in Stats(3) \ {x, y, z} : IVs[t] <= IVs[z]
<1> DEFINE x == Highest(IVs)
           y == Highest(Without(IVs, {x}))
           z == Highest(Without(IVs, {x, y}))
<1>1. x \in Stats(3) /\ \A t \in Stats(3) : IVs[t] <= IVs[x]
  BY HighestIsThere DEF Stats
<1>2. Without(IVs, {x}) \in [Stats(3) \ {x} -> 0..31]
      /\ \A t \in Stats(3) \ {x} : Without(IVs, {x})[t] = IVs[t]
  BY DEF Without, Restrict
<1>3. Stats(3) \ {x} # {}
  BY DEF Stats
<1>4. y \in Stats(3) \ {x} /\ \A t \in Stats(3) \ {x} : Without(IVs, {x})[t] <= Without(IVs, {x})[y]
  BY <1>2, <1>3, HighestIsThere
<1>5. Without(IVs, {x, y}) \in [Stats(3) \ {x, y} -> 0..31]
      /\ \A t \in Stats(3) \ {x, y} : Without(IVs, {x, y})[t] = IVs[t]
  BY DEF Without, Restrict
<1>6. Stats(3) \ {x, y} # {}
  BY DEF Stats
<1>7. z \in Stats(3) \ {x, y}
      /\ \A t \in Stats(3) \ {x, y} : Without(IVs, {x, y})[t] <= Without(IVs, {x, y})[z]
  BY <1>5, <1>6, HighestIsThere
<1>8. HighestThree(IVs) = {x, y, z}
  BY DEF HighestThree
<1> HIDE DEF x, y, z
<1> QED
  BY <1>1, <1>2, <1>4, <1>5, <1>7, <1>8

(* Other outcomes than the better parent's three highest come to no more.  *)
LEMMA RubyLemma ==
  ASSUME NEW a \in [Stats(3) -> 0..31], NEW b \in [Stats(3) -> 0..31],
         NEW taken \in kSubset(3, Stats(3)), NEW mothers \in SUBSET Stats(3),
         NEW other,
         other = [s \in Stats(3) |-> IF s \notin taken THEN 31 ELSE IF s \in mothers THEN a[s] ELSE b[s]]
  PROVE  SumOf(other) <= SumOf(RubyIVs(a, b))
<1> DEFINE better == Combined(a, b)
<1>1. /\ better \in [Stats(3) -> 0..31]
      /\ \A s \in Stats(3) : better[s] >= a[s] /\ better[s] >= b[s]
  BY DEF Combined
<1> HIDE DEF better
<1>2. PICK x, y, z \in Stats(3) :
        /\ x # y /\ x # z /\ y # z
        /\ HighestThree(better) = {x, y, z}
        /\ better[x] >= better[y] /\ better[y] >= better[z]
        /\ \A t \in Stats(3) \ {x, y, z} : better[t] <= better[z]
  BY <1>1, HighestThreeAreHighest
<1> DEFINE highest == {x, y, z}
           c == 31 - better[z]
           best == RubyIVs(a, b)
<1>3. c \in Nat /\ \A s \in highest : 31 - better[s] <= c
  BY <1>1, <1>2
<1>4. \A s \in Stats(3) : s \notin highest => 31 - better[s] >= c
  BY <1>1, <1>2
<1>5. best = [s \in Stats(3) |-> IF s \in highest THEN better[s] ELSE 31]
  BY <1>1, <1>2 DEF RubyIVs, better
<1>6. WeightOf(highest, c) = 3 * c
  BY <1>2, <1>3, WeightOfThree
<1>7. WeightOf(taken, c) = 3 * c
  BY <1>3, ThreeOf, WeightOfThree
<1> HIDE DEF c, highest, best
<1>8. \A s \in Stats(3) : /\ other[s] \in Int /\ best[s] \in Int
                         /\ Weight(taken, s, c) \in Int /\ Weight(highest, s, c) \in Int
                         /\ other[s] + Weight(taken, s, c) <= best[s] + Weight(highest, s, c)
  BY <1>1, <1>3, <1>4, <1>5 DEF Weight
<1>9. \A s \in {"HP", "ATTACK", "DEFENSE", "SPEED", "SPATK", "SPDEF"} : s \in Stats(3)
  BY DEF Stats
<1> DEFINE W(s) == Weight(taken, s, c)
           V(s) == Weight(highest, s, c)
           No(s) == /\ other[s] \in Int /\ best[s] \in Int /\ W(s) \in Int /\ V(s) \in Int
                    /\ other[s] + W(s) <= best[s] + V(s)
<1>10. /\ No("HP") /\ No("ATTACK") /\ No("DEFENSE") /\ No("SPEED") /\ No("SPATK") /\ No("SPDEF")
  BY <1>8, <1>9
<1>11. W("HP") + W("ATTACK") + W("DEFENSE") + W("SPEED") + W("SPATK") + W("SPDEF")
         = V("HP") + V("ATTACK") + V("DEFENSE") + V("SPEED") + V("SPATK") + V("SPDEF")
  BY <1>6, <1>7 DEF WeightOf
<1> HIDE DEF W, V
<1>12. SumOf(other) <= SumOf(best)
  BY <1>10, <1>11 DEF SumOf
<1> QED
  BY <1>12 DEF best

LEMMA RubyIsBest ==
  ASSUME NEW a \in [Stats(3) -> 0..31], NEW b \in [Stats(3) -> 0..31]
  PROVE  /\ RubyIVs(a, b) \in RubyOutcomes(a, b)
         /\ \A other \in RubyOutcomes(a, b) : SumOf(other) <= SumOf(RubyIVs(a, b))
         /\ RubyIVs(a, b) \in [Stats(3) -> 0..31]
<1> DEFINE better == Combined(a, b)
           mothers == {s \in Stats(3) : a[s] > b[s]}
<1>1. /\ better \in [Stats(3) -> 0..31]
      /\ \A s \in Stats(3) : better[s] = IF s \in mothers THEN a[s] ELSE b[s]
  BY DEF Combined
<1>2. RubyIVs(a, b) = [s \in Stats(3) |-> IF s \in HighestThree(better) THEN better[s] ELSE 31]
  BY <1>1 DEF RubyIVs
<1> HIDE DEF better
<1>3. HighestThree(better) \in kSubset(3, Stats(3))
  BY <1>1, HighestThreeAreHighest, ThreeAreCounted
<1>4. RubyIVs(a, b) = [s \in Stats(3) |-> IF s \notin HighestThree(better) THEN 31
                                          ELSE IF s \in mothers THEN a[s] ELSE b[s]]
  BY <1>1, <1>2
<1>5. mothers \in SUBSET Stats(3) /\ DOMAIN a = Stats(3)
  OBVIOUS
<1> HIDE DEF mothers
<1>6. RubyIVs(a, b) \in RubyOutcomes(a, b)
  BY <1>3, <1>4, <1>5 DEF RubyOutcomes
<1>7. ASSUME NEW other \in RubyOutcomes(a, b) PROVE SumOf(other) <= SumOf(RubyIVs(a, b))
  <2>1. PICK taken \in kSubset(3, Stats(3)), some \in SUBSET Stats(3) :
          other = [s \in Stats(3) |-> IF s \notin taken THEN 31 ELSE IF s \in some THEN a[s] ELSE b[s]]
    BY <1>5 DEF RubyOutcomes
  <2> QED
    BY <2>1, RubyLemma
<1> QED
  BY <1>1, <1>2, <1>6, <1>7

-----------------------------------------------------------------------------
(* get_gen2_ideal_child_IVs(): of what may come of a parent's IVs, the     *)
(* best in every stat.                                                     *)
FiveIVs(a, d, s, special) ==
  [stat \in Stats(2) \cup {"HP"} |->
     CASE stat = "HP" -> 8 * (a % 2) + 4 * (d % 2) + 2 * (s % 2) + (special % 2)
       [] stat = "ATTACK" -> a [] stat = "DEFENSE" -> d [] stat = "SPEED" -> s
       [] OTHER -> special]

LEMMA WithHPLemma ==
  ASSUME NEW a \in 0..15, NEW d \in 0..15, NEW s \in 0..15, NEW special \in 0..15
  PROVE  WithHP([ATTACK |-> a, DEFENSE |-> d, SPEED |-> s, SPECIAL |-> special]) = FiveIVs(a, d, s, special)
<1> DEFINE iv == [ATTACK |-> a, DEFENSE |-> d, SPEED |-> s, SPECIAL |-> special]
<1>1. DOMAIN iv = Stats(2)
  BY DEF Stats
<1>2. iv.ATTACK = a /\ iv.DEFENSE = d /\ iv.SPEED = s /\ iv.SPECIAL = special
  OBVIOUS
<1> HIDE DEF iv
<1>3. WithHP(iv) = [stat \in Stats(2) \cup {"HP"} |-> IF stat = "HP" THEN HPIV(iv) ELSE iv[stat]]
  BY <1>1 DEF WithHP
<1> QED
  BY <1>2, <1>3 DEF HPIV, iv, Stats, FiveIVs

LEMMA GoldIsBest ==
  ASSUME NEW giver \in [Stats(2) -> 0..15]
  PROVE  /\ GoldIVs(giver) \in GoldOutcomes(giver)
         /\ \A other \in GoldOutcomes(giver) : \A s \in DOMAIN other : other[s] <= GoldIVs(giver)[s]
         /\ GoldIVs(giver) \in [Stats(2) \cup {"HP"} -> 0..15]
<1> DEFINE d == giver.DEFENSE
           x == giver.SPECIAL
           best == BestSpecial(x)
<1>1. d \in 0..15 /\ x \in 0..15
  BY DEF Stats
<1> HIDE DEF d, x
<1>2. /\ best \in {x, (x + 8) % 16} /\ best \in 0..15 /\ (x + 8) % 16 \in 0..15
      /\ x <= best /\ (x + 8) % 16 <= best /\ best % 2 = x % 2 /\ ((x + 8) % 16) % 2 = x % 2
  BY <1>1 DEF BestSpecial
<1>3. GoldIVs(giver) = WithHP([ATTACK |-> 15, DEFENSE |-> d, SPEED |-> 15, SPECIAL |-> best])
  BY DEF GoldIVs, d, x
<1> HIDE DEF best
<1>4. GoldIVs(giver) \in GoldOutcomes(giver)
  BY <1>2, <1>3 DEF GoldOutcomes, d, x
<1>5. GoldIVs(giver) = [stat \in Stats(2) \cup {"HP"} |->
                CASE stat = "HP" -> 8 + 4 * (d % 2) + 2 + (x % 2)
                  [] stat = "ATTACK" -> 15 [] stat = "DEFENSE" -> d [] stat = "SPEED" -> 15
                  [] OTHER -> best]
  <2>1. 8 * (15 % 2) = 8 /\ 2 * (15 % 2) = 2 /\ 15 \in 0..15
    OBVIOUS
  <2>2. GoldIVs(giver) = FiveIVs(15, d, 15, best)
    <3>1. PICK a \in 0..15, spd \in 0..15, special \in 0..15 : a = 15 /\ spd = 15 /\ special = best
      BY <1>2
    <3>2. WithHP([ATTACK |-> a, DEFENSE |-> d, SPEED |-> spd, SPECIAL |-> special]) = FiveIVs(a, d, spd, special)
      BY <1>1, WithHPLemma
    <3> QED
      BY <1>3, <3>1, <3>2
  <2> QED
    BY <1>2, <2>1, <2>2 DEF FiveIVs
<1>6. ASSUME NEW other \in GoldOutcomes(giver), NEW s \in DOMAIN other PROVE other[s] <= GoldIVs(giver)[s]
  <2>1. PICK a \in 14..15, spd \in 14..15, special \in {x, (x + 8) % 16} :
          other = WithHP([ATTACK |-> a, DEFENSE |-> d, SPEED |-> spd, SPECIAL |-> special])
    BY DEF GoldOutcomes, d, x
  <2>2. special \in 0..15 /\ special <= best /\ special % 2 = x % 2
    BY <1>1, <1>2
  <2>3. other = [stat \in Stats(2) \cup {"HP"} |->
                CASE stat = "HP" -> 8 * (a % 2) + 4 * (d % 2) + 2 * (spd % 2) + (x % 2)
                  [] stat = "ATTACK" -> a [] stat = "DEFENSE" -> d [] stat = "SPEED" -> spd
                  [] OTHER -> special]
    <3>1. a \in 0..15 /\ spd \in 0..15
      OBVIOUS
    <3>2. other = FiveIVs(a, d, spd, special)
      BY <1>1, <2>1, <2>2, <3>1, WithHPLemma
    <3> QED
      BY <2>2, <3>2 DEF FiveIVs
  <2>4. a % 2 \in 0..1 /\ spd % 2 \in 0..1 /\ d % 2 \in 0..1 /\ x % 2 \in 0..1
    BY <1>1
  <2> QED
    BY <1>1, <1>2, <1>5, <2>2, <2>3, <2>4 DEF Stats
<1>7. GoldIVs(giver) \in [Stats(2) \cup {"HP"} -> 0..15]
  <2>1. d % 2 \in 0..1 /\ x % 2 \in 0..1
    BY <1>1
  <2> QED
    BY <1>1, <1>2, <1>5, <2>1 DEF Stats
<1> QED
  BY <1>4, <1>6, <1>7

-----------------------------------------------------------------------------
(* What a loop over moves keeps of them.                                   *)
KeptUpTo(moves, wanted, n, f) ==
  f = [i \in 0..n |-> IF i = 0 THEN <<>>
                      ELSE IF moves[i] \in wanted THEN Append(f[i - 1], moves[i]) ELSE f[i - 1]]

LEMMA KeptIsThere ==
  ASSUME NEW moves, NEW wanted, NEW length \in Nat
  PROVE  \E f : KeptUpTo(moves, wanted, length, f)
<1> DEFINE wrong == {n \in Nat : ~\E f : KeptUpTo(moves, wanted, n, f)}
<1>1. wrong \in SUBSET Nat
  OBVIOUS
<1>2. ASSUME wrong # {} PROVE FALSE
  <2>1. PICK n \in wrong : \A m \in wrong : n <= m
    <3> HIDE DEF wrong
    <3> QED
      BY <1>1, <1>2, LeastIsThere
  <2>2. CASE n = 0
    <3> DEFINE f == [i \in 0..0 |-> <<>>]
    <3>1. KeptUpTo(moves, wanted, 0, f)
      BY DEF KeptUpTo
    <3> QED
      BY <2>2, <3>1
  <2>3. CASE n # 0
    <3>1. n \in Nat /\ n - 1 \in Nat /\ n - 1 \notin wrong
      BY <2>1, <2>3
    <3>2. PICK f : KeptUpTo(moves, wanted, n - 1, f)
      BY <3>1
    <3> DEFINE next == IF moves[n] \in wanted THEN Append(f[n - 1], moves[n]) ELSE f[n - 1]
               g == [i \in 0..n |-> IF i = n THEN next ELSE f[i]]
    <3>3. \A i \in 0..(n - 1) :
            f[i] = IF i = 0 THEN <<>> ELSE IF moves[i] \in wanted THEN Append(f[i - 1], moves[i]) ELSE f[i - 1]
      BY <3>2 DEF KeptUpTo
    <3>4. /\ g[n] = next /\ n \in 0..n
          /\ \A i \in 0..n : i # n => g[i] = f[i] /\ i \in 0..(n - 1)
          /\ \A i \in 0..n : i # 0 => i - 1 \in 0..n /\ i - 1 # n /\ g[i - 1] = f[i - 1]
      BY <3>1
    <3>5. \A i \in 0..n :
            g[i] = IF i = 0 THEN <<>> ELSE IF moves[i] \in wanted THEN Append(g[i - 1], moves[i]) ELSE g[i - 1]
      <4> HIDE DEF g
      <4>1. ASSUME NEW i \in 0..n, i # n
            PROVE  g[i] = IF i = 0 THEN <<>> ELSE IF moves[i] \in wanted THEN Append(g[i - 1], moves[i]) ELSE g[i - 1]
        BY <3>3, <3>4, <4>1
      <4>2. g[n] = IF n = 0 THEN <<>> ELSE IF moves[n] \in wanted THEN Append(g[n - 1], moves[n]) ELSE g[n - 1]
        BY <2>3, <3>1, <3>4
      <4> QED
        BY <4>1, <4>2
    <3>6. g = [i \in 0..n |-> g[i]]
      OBVIOUS
    <3> HIDE DEF g
    <3>7. KeptUpTo(moves, wanted, n, g)
      BY <3>5, <3>6 DEF KeptUpTo
    <3> QED
      BY <3>7
  <2> QED
    BY <2>2, <2>3
<1> QED
  BY <1>2

LEMMA KeptLemma ==
  ASSUME NEW moves, NEW wanted, Len(moves) \in Nat
  PROVE  KeptUpTo(moves, wanted, Len(moves), Kept(moves, wanted))
<1> DEFINE Is(f) == f = [n \in 0..Len(moves) |->
                           IF n = 0 THEN <<>>
                           ELSE IF moves[n] \in wanted THEN Append(f[n - 1], moves[n]) ELSE f[n - 1]]
<1>1. \E f : KeptUpTo(moves, wanted, Len(moves), f)
  BY KeptIsThere
<1>2. \A f : KeptUpTo(moves, wanted, Len(moves), f) <=> Is(f)
  BY DEF KeptUpTo
<1>3. Kept(moves, wanted) = CHOOSE f : Is(f)
  BY DEF Kept
<1> HIDE DEF Is
<1> QED
  BY <1>1, <1>2, <1>3

(* The loop keeps the wanted ones among the moves, all of them and no      *)
(* others.                                                                 *)
LEMMA OfLemma ==
  ASSUME NEW moves, NEW wanted, Len(moves) \in Nat
  PROVE  /\ Of(moves, wanted) \in Seq(wanted)
         /\ Range(Of(moves, wanted)) = {moves[i] : i \in 1..Len(moves)} \cap wanted
<1> DEFINE K == Kept(moves, wanted)
           Right(n) == /\ K[n] \in Seq(wanted)
                       /\ \A j \in 1..Len(K[n]) : \E i \in 1..n : K[n][j] = moves[i]
                       /\ \A i \in 1..n : moves[i] \in wanted => \E j \in 1..Len(K[n]) : K[n][j] = moves[i]
           wrong == {n \in 0..Len(moves) : ~Right(n)}
<1>1. \A n \in 0..Len(moves) :
        K[n] = IF n = 0 THEN <<>> ELSE IF moves[n] \in wanted THEN Append(K[n - 1], moves[n]) ELSE K[n - 1]
  <2>1. KeptUpTo(moves, wanted, Len(moves), K)
    BY KeptLemma
  <2> HIDE DEF K
  <2> QED
    BY <2>1 DEF KeptUpTo
<1> HIDE DEF K
<1>2. ASSUME wrong # {} PROVE FALSE
  <2>0. wrong \in SUBSET Nat
    OBVIOUS
  <2>1. PICK n \in wrong : \A m \in wrong : n <= m
    <3> HIDE DEF wrong
    <3> QED
      BY <1>2, <2>0, LeastIsThere
  <2>2. CASE n = 0
    <3>1. K[0] = <<>>
      BY <1>1
    <3>2. Right(0)
      BY <3>1
    <3> QED
      BY <2>2, <3>2
  <2>3. CASE n # 0
    <3>1. n \in Nat /\ n - 1 \in 0..Len(moves) /\ n \in 0..Len(moves) /\ n - 1 \notin wrong
      BY <2>1, <2>3
    <3>2. Right(n - 1)
      BY <3>1
    <3>3. K[n] = IF moves[n] \in wanted THEN Append(K[n - 1], moves[n]) ELSE K[n - 1]
      BY <1>1, <2>3, <3>1
    <3>4. CASE moves[n] \notin wanted
      <4>1. K[n] = K[n - 1]
        BY <3>3, <3>4
      <4>2. \A i \in 1..n : i # n => i \in 1..(n - 1)
        BY <3>1
      <4>3. \A i \in 1..(n - 1) : i \in 1..n
        BY <3>1
      <4>4. Right(n)
        BY <3>2, <3>4, <4>1, <4>2, <4>3
      <4> QED
        BY <4>4
    <3>5. CASE moves[n] \in wanted
      <4> DEFINE old == K[n - 1]
      <4>1. /\ K[n] \in Seq(wanted) /\ Len(K[n]) = Len(old) + 1 /\ Len(old) \in Nat
            /\ \A j \in 1..Len(old) : K[n][j] = old[j]
            /\ K[n][Len(old) + 1] = moves[n]
        <5>1. old \in Seq(wanted) /\ K[n] = Append(old, moves[n])
          BY <3>2, <3>3, <3>5
        <5> HIDE DEF old
        <5> QED
          BY <3>5, <5>1
      <4> HIDE DEF old
      <4>2. \A j \in 1..Len(old) : \E i \in 1..(n - 1) : old[j] = moves[i]
        BY <3>2 DEF old
      <4>3. \A i \in 1..(n - 1) : moves[i] \in wanted => \E j \in 1..Len(old) : old[j] = moves[i]
        BY <3>2 DEF old
      <4>4. ASSUME NEW j \in 1..Len(K[n]) PROVE \E i \in 1..n : K[n][j] = moves[i]
        <5>1. CASE j = Len(old) + 1
          BY <3>1, <4>1, <5>1, <2>3
        <5>2. CASE j # Len(old) + 1
          <6>1. j \in 1..Len(old)
            BY <4>1, <5>2
          <6>2. PICK i \in 1..(n - 1) : old[j] = moves[i]
            BY <4>2, <6>1
          <6>3. i \in 1..n
            BY <3>1
          <6> QED
            BY <4>1, <6>1, <6>2, <6>3
        <5> QED
          BY <5>1, <5>2
      <4>5. ASSUME NEW i \in 1..n, moves[i] \in wanted PROVE \E j \in 1..Len(K[n]) : K[n][j] = moves[i]
        <5>1. CASE i = n
          <6>1. Len(old) + 1 \in 1..Len(K[n])
            BY <4>1
          <6> QED
            BY <4>1, <5>1, <6>1
        <5>2. CASE i # n
          <6>1. i \in 1..(n - 1)
            BY <3>1, <5>2
          <6>2. PICK j \in 1..Len(old) : old[j] = moves[i]
            BY <4>3, <4>5, <6>1
          <6>3. j \in 1..Len(K[n]) /\ K[n][j] = old[j]
            BY <4>1
          <6> QED
            BY <6>2, <6>3
        <5> QED
          BY <5>1, <5>2
      <4>6. Right(n)
        BY <4>1, <4>4, <4>5
      <4> QED
        BY <4>6
    <3> QED
      BY <3>4, <3>5
  <2> QED
    BY <2>2, <2>3
<1>3. Right(Len(moves))
  <2>1. Len(moves) \in 0..Len(moves)
    OBVIOUS
  <2> HIDE DEF Right
  <2> QED
    BY <1>2, <2>1
<1>4. Of(moves, wanted) = K[Len(moves)]
  BY DEF Of, K
<1> DEFINE of == K[Len(moves)]
<1>5. /\ of \in Seq(wanted) /\ DOMAIN of = 1..Len(of)
      /\ \A j \in 1..Len(of) : of[j] \in wanted /\ \E i \in 1..Len(moves) : of[j] = moves[i]
      /\ \A i \in 1..Len(moves) : moves[i] \in wanted => \E j \in 1..Len(of) : of[j] = moves[i]
  BY <1>3
<1> HIDE DEF of, Right
<1>6. Range(of) = {moves[i] : i \in 1..Len(moves)} \cap wanted
  <2>1. ASSUME NEW move \in Range(of) PROVE move \in {moves[i] : i \in 1..Len(moves)} \cap wanted
    BY <1>5, <2>1 DEF Range
  <2>2. ASSUME NEW i \in 1..Len(moves), moves[i] \in wanted PROVE moves[i] \in Range(of)
    BY <1>5, <2>2 DEF Range
  <2> QED
    BY <2>1, <2>2
<1> QED
  BY <1>4, <1>5, <1>6 DEF of

LEMMA RangeOfBoth ==
  ASSUME NEW S, NEW a \in Seq(S), NEW b \in Seq(S)
  PROVE  Range(a \o b) = Range(a) \cup Range(b)
<1>1. /\ DOMAIN a = 1..Len(a) /\ DOMAIN b = 1..Len(b) /\ Len(a) \in Nat /\ Len(b) \in Nat
      /\ DOMAIN (a \o b) = 1..(Len(a) + Len(b))
      /\ \A i \in 1..Len(a) : (a \o b)[i] = a[i]
      /\ \A i \in 1..Len(b) : (a \o b)[Len(a) + i] = b[i]
  OBVIOUS
<1>2. ASSUME NEW i \in DOMAIN (a \o b) PROVE (a \o b)[i] \in Range(a) \cup Range(b)
  <2>1. CASE i \in 1..Len(a)
    BY <1>1, <2>1 DEF Range
  <2>2. CASE i \notin 1..Len(a)
    <3>1. PICK k \in 1..Len(b) : i = Len(a) + k
      <4>1. i - Len(a) \in 1..Len(b) /\ i = Len(a) + (i - Len(a))
        BY <1>1, <2>2
      <4> QED
        BY <4>1
    <3> QED
      BY <1>1, <3>1 DEF Range
  <2> QED
    BY <2>1, <2>2
<1>3. ASSUME NEW i \in DOMAIN a PROVE a[i] \in Range(a \o b)
  <2>1. i \in DOMAIN (a \o b) /\ (a \o b)[i] = a[i]
    BY <1>1
  <2> QED
    BY <2>1 DEF Range
<1>4. ASSUME NEW i \in DOMAIN b PROVE b[i] \in Range(a \o b)
  <2>1. Len(a) + i \in DOMAIN (a \o b) /\ (a \o b)[Len(a) + i] = b[i]
    BY <1>1
  <2> QED
    BY <2>1 DEF Range
<1> QED
  BY <1>2, <1>3, <1>4 DEF Range

(* What a child may have, of which none is no move.                        *)
Learnable(child) ==
  EggMovesOf(child) \cup MachineMoves[mother.game][child] \cup Range(LearnedByLevel(child))
    \cup (IF mother.game = "CRYSTAL" THEN TutorMoves[child] ELSE {})
    \cup (IF child = "PICHU" THEN {"VOLT_TACKLE"} ELSE {})

FourMoves(moves) == moves = [i \in 1..NumMoves |-> moves[i]]

LEMMA FourMovesLemma == ASSUME NEW moves, FourMoves(moves) PROVE Len(moves) = 4
BY DEF FourMoves, NumMoves

LEMMA EarliestEverIsASpecies ==
  ASSUME NEW generation, NEW species \in Species
  PROVE  EarliestEver(species, generation) \in Species
<1>1. PICK f : /\ f = [s \in Species |-> IF s \in Begins THEN s ELSE f[EvolvesFrom[s]]]
               /\ \A s \in Species : EarliestEver(s, generation) = f[s]
  BY EarliestEverWalks
<1> DEFINE wrong == {s \in Species : f[s] \notin Species}
<1>2. ASSUME NEW s \in wrong PROVE EvolvesFrom[s] \in wrong
  <2>1. s \in Species /\ s \notin Begins
    BY <1>1
  <2>2. EvolvesFrom[s] \in Species /\ f[s] = f[EvolvesFrom[s]]
    BY <1>1, <2>1, BeginsLemma
  <2> QED
    BY <2>2
<1>3. wrong = {}
  <2>1. wrong \in SUBSET Species
    OBVIOUS
  <2> HIDE DEF wrong
  <2> QED
    BY <1>2, <2>1, SpeciesAssumption
<1> QED
  BY <1>1, <1>3

LEMMA LearnedByLevelLemma ==
  ASSUME NEW child \in Species, mother.game \in Games
  PROVE  LearnedByLevel(child) \in Seq(Range(LearnedByLevel(child))) /\ NoMove \notin Range(LearnedByLevel(child))
<1>1. /\ LevelMovesOf(child) \in Seq(Range(LevelMovesOf(child)))
      /\ \A entry \in Range(LevelMovesOf(child)) : entry.move # "NONE"
  BY MovesAssumption DEF LevelMovesOf
<1> DEFINE n == Len(LevelMovesOf(child))
<1>2. n \in Nat /\ DOMAIN LevelMovesOf(child) = 1..n
      /\ \A i \in 1..n : LevelMovesOf(child)[i].move # "NONE"
  BY <1>1 DEF Range
<1> HIDE DEF n
<1>3. LearnedByLevel(child) = [i \in 1..n |-> LevelMovesOf(child)[i].move]
  BY <1>2 DEF LearnedByLevel
<1> QED
  BY <1>2, <1>3 DEF Range, NoMove

(* The moves up to the first one above the hatching level are a beginning  *)
(* of the list, wherever that one is.                                      *)
LEMMA NaturalLemma ==
  ASSUME NEW child \in Species, mother.game \in Games
  PROVE  Natural(child) \in Seq(Range(LearnedByLevel(child)))
<1> DEFINE learned == LevelMovesOf(child)
           len == Len(learned)
           early == LearnedEarly(child)
           late == {i \in 1..(len + 1) : i \notin early}
<1>1. len \in Nat /\ DOMAIN learned = 1..len
  BY MovesAssumption DEF LevelMovesOf
<1>2. early = {i \in 1..len : \A j \in 1..i : learned[j].level <= HatchingLevel}
  BY <1>1 DEF LearnedEarly
<1> HIDE DEF early, learned, len
<1>3. late \in SUBSET Nat /\ len + 1 \in late
  BY <1>1, <1>2
<1>4. PICK k \in late : \A other \in late : k <= other
  BY <1>3, LeastIsThere
<1>5. \A i \in early : i < k
  <2> SUFFICES ASSUME NEW i \in early, k <= i PROVE FALSE
    BY <1>1, <1>2, <1>3, <1>4
  <2>1. k \in 1..len /\ \A j \in 1..k : j \in 1..i
    BY <1>1, <1>2, <1>3, <1>4
  <2> QED
    BY <1>2, <1>4, <2>1
<1>6. early = 1..(k - 1) /\ k - 1 \in Nat
  BY <1>1, <1>2, <1>3, <1>4, <1>5
<1>7. Natural(child) = [i \in 1..(k - 1) |-> learned[i].move]
  BY <1>6 DEF Natural, early, learned
<1>8. \A i \in 1..(k - 1) : learned[i].move \in Range(LearnedByLevel(child))
  <2>1. \A i \in 1..len : learned[i].move = LearnedByLevel(child)[i] /\ i \in DOMAIN LearnedByLevel(child)
    BY <1>1 DEF LearnedByLevel, learned
  <2> QED
    BY <1>2, <1>6, <2>1 DEF Range
<1> QED
  BY <1>6, <1>7, <1>8

(* Each source of moves gives a list of moves that a child may have.       *)
LEMMA SourcesLemma ==
  ASSUME NEW child \in Species, mother.game \in Games, FourMoves(mother.moves), FourMoves(father.moves)
  PROVE  /\ Inherited(child) \in Seq(Learnable(child)) /\ Natural(child) \in Seq(Learnable(child))
         /\ NoMove \notin Learnable(child)
<1> DEFINE L == Learnable(child)
<1>0. Len(mother.moves) \in Nat /\ Len(father.moves) \in Nat /\ Len(LearnedByLevel(child)) \in Nat
  BY FourMovesLemma, LearnedByLevelLemma
<1>1. ASSUME NEW moves, NEW wanted, Len(moves) \in Nat, {moves[i] : i \in 1..Len(moves)} \cap wanted \subseteq L
      PROVE  Of(moves, wanted) \in Seq(L)
  <2> DEFINE of == Of(moves, wanted)
  <2>1. of \in Seq(wanted) /\ Range(of) \subseteq L
    BY <1>1, OfLemma
  <2> HIDE DEF of, L
  <2>2. \A i \in 1..Len(of) : of[i] \in L
    BY <2>1 DEF Range
  <2> QED
    BY <2>1, <2>2 DEF of
<1>2. VoltTackle(child) \in Seq(L)
  <2>1. VoltTackle(child) # <<>> => VoltTackle(child) = <<"VOLT_TACKLE">> /\ child = "PICHU"
    BY DEF VoltTackle
  <2>2. child = "PICHU" => "VOLT_TACKLE" \in L
    BY DEF Learnable
  <2> HIDE DEF L
  <2>3. CASE VoltTackle(child) = <<>>
    BY <2>3
  <2>4. CASE VoltTackle(child) # <<>>
    <3>1. "VOLT_TACKLE" \in L
      BY <2>1, <2>2, <2>4
    <3>2. <<"VOLT_TACKLE">> \in Seq(L)
      BY <3>1
    <3> QED
      BY <2>1, <2>4, <3>2
  <2> QED
    BY <2>3, <2>4
<1>3. Of(mother.moves, EggMovesOf(child)) \in Seq(L) /\ Of(father.moves, EggMovesOf(child)) \in Seq(L)
  <2>1. EggMovesOf(child) \subseteq L
    BY DEF Learnable
  <2> HIDE DEF L
  <2> QED
    BY <1>0, <1>1, <2>1
<1>4. FromFather(child) \in Seq(L)
  <2>1. /\ MachineMoves[mother.game][child] \subseteq L
        /\ mother.game = "CRYSTAL" => TutorMoves[child] \subseteq L
    BY DEF Learnable
  <2> HIDE DEF L
  <2> DEFINE machine == Of(father.moves, MachineMoves[mother.game][child])
             tutor == Of(father.moves, TutorMoves[child])
  <2>2. machine \in Seq(L) /\ (mother.game = "CRYSTAL" => tutor \in Seq(L))
    BY <1>0, <1>1, <2>1
  <2> HIDE DEF machine, tutor
  <2>3. FromFather(child) = (IF Generation[mother.game] <= 5 THEN machine ELSE <<>>)
                              \o (IF mother.game = "CRYSTAL" THEN tutor ELSE <<>>)
    BY DEF FromFather, machine, tutor
  <2> QED
    BY <2>2, <2>3
<1>5. KnownToBoth(child) \in Seq(L) /\ Natural(child) \in Seq(L)
  <2>1. {LearnedByLevel(child)[i] : i \in 1..Len(LearnedByLevel(child))} \subseteq L
    <3>1. {LearnedByLevel(child)[i] : i \in 1..Len(LearnedByLevel(child))} \subseteq Range(LearnedByLevel(child))
      BY LearnedByLevelLemma DEF Range
    <3> QED
      BY <3>1 DEF Learnable
  <2>2. Natural(child) \in Seq(L)
    <3>1. Range(LearnedByLevel(child)) \subseteq L
      BY DEF Learnable
    <3> HIDE DEF L
    <3> QED
      BY <3>1, NaturalLemma
  <2> HIDE DEF L
  <2> QED
    BY <1>0, <1>1, <2>1, <2>2 DEF KnownToBoth
<1>6. Inherited(child) \in Seq(L)
  <2> HIDE DEF L
  <2> QED
    BY <1>2, <1>3, <1>4, <1>5 DEF Inherited
<1>7. NoMove \notin L
  <2>1. EarliestEver(child, Generation[mother.game]) \in Species
    BY EarliestEverIsASpecies
  <2> QED
    BY <2>1, MovesAssumption, LearnedByLevelLemma DEF Learnable, EggMovesOf, NoMove
<1> QED
  BY <1>5, <1>6, <1>7

(* Four of them: as many of the first list as there are places, then of    *)
(* the second.                                                             *)
LEMMA FourLemma ==
  ASSUME NEW S, NEW first \in Seq(S), NEW second \in Seq(S), NoMove \notin S
  PROVE  LET known == Range(UpToFour(first \o second))
         IN /\ known \subseteq Range(first) \cup {NoMove} \/ Range(first) \subseteq known
            /\ NoMove \in known => Range(first) \cup Range(second) \subseteq known
            /\ \A i \in 1..NumMoves : UpToFour(first \o second)[i] \in S \cup {NoMove}
            /\ Len(UpToFour(first \o second)) = NumMoves
<1> DEFINE all == first \o second
           four == UpToFour(all)
           known == Range(four)
<1>1. /\ all \in Seq(S) /\ Len(all) \in Nat /\ DOMAIN all = 1..Len(all)
      /\ Len(first) \in Nat /\ DOMAIN first = 1..Len(first)
      /\ Len(second) \in Nat /\ Len(all) = Len(first) + Len(second)
      /\ \A i \in 1..Len(first) : all[i] = first[i]
      /\ \A i \in 1..Len(all) : all[i] \in S
  OBVIOUS
<1>2. Range(all) = Range(first) \cup Range(second)
  BY RangeOfBoth
<1> HIDE DEF all
<1>3. /\ four = [i \in 1..4 |-> IF i <= Len(all) THEN all[i] ELSE NoMove]
  BY DEF UpToFour, NumMoves
<1>4. /\ \A i \in 1..4 : four[i] \in S \cup {NoMove}
      /\ Len(four) = 4
  BY <1>1, <1>3
<1>5. known = {four[i] : i \in 1..4}
  BY <1>3 DEF Range
<1> HIDE DEF four, known
<1>6. ASSUME Len(first) <= 4 PROVE Range(first) \subseteq known
  <2>1. ASSUME NEW i \in 1..Len(first) PROVE first[i] \in known
    <3>1. i \in 1..4 /\ i <= Len(all)
      BY <1>1, <1>6
    <3> QED
      BY <1>1, <1>3, <1>5, <3>1
  <2> QED
    BY <1>1, <2>1 DEF Range
<1>7. ASSUME ~(Len(first) <= 4) PROVE known \subseteq Range(first)
  <2>1. ASSUME NEW i \in 1..4 PROVE four[i] \in Range(first)
    <3>1. i \in 1..Len(first) /\ i <= Len(all)
      BY <1>1, <1>7
    <3> QED
      BY <1>1, <1>3, <3>1 DEF Range
  <2> QED
    BY <1>5, <2>1
<1>8. ASSUME NoMove \in known PROVE Range(all) \subseteq known
  <2>1. PICK i \in 1..4 : four[i] = NoMove
    BY <1>5, <1>8
  <2>2. Len(all) < i
    BY <1>1, <1>3, <2>1
  <2>3. ASSUME NEW j \in 1..Len(all) PROVE all[j] \in known
    <3>1. j \in 1..4
      BY <1>1, <2>2
    <3> QED
      BY <1>1, <1>3, <1>5, <3>1
  <2> QED
    BY <1>1, <2>3 DEF Range
<1>9. Range(first) \subseteq known \/ known \subseteq Range(first) \cup {NoMove}
  BY <1>6, <1>7
<1> QED
  BY <1>2, <1>4, <1>8, <1>9 DEF NumMoves, known, four, all

-----------------------------------------------------------------------------
(* What is asked, and what the parents are.                                *)
ParentOK(p) ==
  /\ p = [species |-> p.species, game |-> p.game, moves |-> p.moves, item |-> p.item, IVs |-> p.IVs]
  /\ p.species \in Species /\ p.game \in GamesOfPokemon
  /\ FourMoves(p.moves)
  /\ p.IVs \in IVLists[Generation[p.game]]

AskedSpecies ==
  \E game \in Games :
    /\ CanBePair(mother.species, father.species, game)
    /\ answer = [ asked |-> "species", game |-> game,
                  is |-> PossibleChildren(mother.species, father.species, game) ]

AskedMoves ==
  \E child \in Children : CanAsk /\ answer = [asked |-> "moves", child |-> child, is |-> ChildMoves(child)]

AskedIVs ==
  \E gender \in {"MALE", "FEMALE", "GENDERLESS"} :
    \E IVs \in IdealIVs(gender) : CanAsk /\ answer = [asked |-> "IVs", gender |-> gender, is |-> IVs]

BreedingInv ==
  /\ ParentOK(mother) /\ ParentOK(father)
  /\ answer = Nothing \/ AskedSpecies \/ AskedMoves \/ AskedIVs

LEMMA NewParentsAreOK ==
  ASSUME NEW species \in Species, NEW game \in GamesOfPokemon
  PROVE  ParentOK(Parent(species, game))
<1>1. game \in Games /\ Generation[game] \in 2..3
  BY DEF GamesOfPokemon
<1>2. (CHOOSE IVs \in IVLists[Generation[game]] : TRUE) \in IVLists[Generation[game]]
  BY <1>1, IVAssumption
<1> QED
  BY <1>1, <1>2 DEF ParentOK, Parent, FourMoves, NumMoves

LEMMA BreedingStart == Init => BreedingInv
<1> SUFFICES ASSUME Init PROVE BreedingInv
  OBVIOUS
<1>1. PICK species \in Species \X Species, games \in GamesOfPokemon \X GamesOfPokemon :
        mother = Parent(species[1], games[1]) /\ father = Parent(species[2], games[2])
  BY DEF Init
<1>2. /\ species[1] \in Species /\ species[2] \in Species
      /\ games[1] \in GamesOfPokemon /\ games[2] \in GamesOfPokemon
  OBVIOUS
<1>3. ParentOK(mother) /\ ParentOK(father)
  BY <1>1, <1>2, NewParentsAreOK
<1> QED
  BY <1>3 DEF BreedingInv, Init

LEMMA BreedingStep == BreedingInv /\ [Next]_vars => BreedingInv'
<1> SUFFICES ASSUME BreedingInv, [Next]_vars PROVE BreedingInv'
  OBVIOUS
<1>0. ASSUME mother' = mother, father' = father
      PROVE  /\ ParentOK(mother)' /\ ParentOK(father)' /\ Children' = Children /\ CanAsk' = CanAsk
             /\ \A child : ChildMoves(child)' = ChildMoves(child)
             /\ \A gender : IdealIVs(gender)' = IdealIVs(gender)
  <2>1. ParentOK(mother)' /\ ParentOK(father)'
    BY <1>0 DEF BreedingInv, ParentOK
  <2>2. Children' = Children /\ CanAsk' = CanAsk
    BY <1>0 DEF Children, CanAsk
  <2>3. ASSUME NEW child PROVE ChildMoves(child)' = ChildMoves(child)
    <3>1. /\ VoltTackle(child)' = VoltTackle(child) /\ EggMovesOf(child)' = EggMovesOf(child)
          /\ FromFather(child)' = FromFather(child) /\ LevelMovesOf(child)' = LevelMovesOf(child)
          /\ HatchingLevel' = HatchingLevel
      BY <1>0 DEF VoltTackle, EggMovesOf, FromFather, LevelMovesOf, HatchingLevel
    <3>2. LearnedByLevel(child)' = LearnedByLevel(child)
      BY <3>1 DEF LearnedByLevel
    <3>3. KnownToBoth(child)' = KnownToBoth(child)
      BY <1>0, <3>2 DEF KnownToBoth
    <3>4. Natural(child)' = Natural(child)
      BY <3>1 DEF Natural, LearnedEarly
    <3>5. Inherited(child)' = Inherited(child)
      BY <1>0, <3>1, <3>3 DEF Inherited
    <3> QED
      BY <3>4, <3>5 DEF ChildMoves
  <2>4. ASSUME NEW gender PROVE IdealIVs(gender)' = IdealIVs(gender)
    <3>1. GiverOfIVs(gender)' = GiverOfIVs(gender)
      BY <1>0 DEF GiverOfIVs
    <3> QED
      BY <1>0, <3>1 DEF IdealIVs
  <2> QED
    BY <2>1, <2>2, <2>3, <2>4
<1>1. ASSUME NEW game \in Games, AskSpecies(game) PROVE BreedingInv'
  <2>1. mother' = mother /\ father' = father
    BY <1>1 DEF AskSpecies
  <2>2. AskedSpecies'
    BY <1>1, <2>1 DEF AskSpecies, AskedSpecies
  <2> QED
    BY <1>0, <2>1, <2>2 DEF BreedingInv
<1>2. ASSUME NEW child \in Species, AskMoves(child) PROVE BreedingInv'
  <2>1. /\ mother' = mother /\ father' = father /\ CanAsk /\ child \in Children
        /\ answer' = [asked |-> "moves", child |-> child, is |-> ChildMoves(child)]
    BY <1>2 DEF AskMoves
  <2>2. AskedMoves'
    BY <1>0, <2>1 DEF AskedMoves
  <2> QED
    BY <1>0, <2>1, <2>2 DEF BreedingInv
<1>3. ASSUME NEW gender \in {"MALE", "FEMALE", "GENDERLESS"}, AskIVs(gender) PROVE BreedingInv'
  <2>1. /\ mother' = mother /\ father' = father /\ CanAsk
        /\ \E IVs \in IdealIVs(gender) : answer' = [asked |-> "IVs", gender |-> gender, is |-> IVs]
    BY <1>3 DEF AskIVs
  <2>2. AskedIVs'
    BY <1>0, <2>1 DEF AskedIVs
  <2> QED
    BY <1>0, <2>1, <2>2 DEF BreedingInv
<1>4. ASSUME NEW m, NEW f, Change(m, f), ParentOK(m), ParentOK(f) PROVE BreedingInv'
  <2>1. mother' = m /\ father' = f /\ answer' = Nothing'
    BY <1>4 DEF Change, Nothing
  <2> QED
    BY <1>4, <2>1 DEF BreedingInv, ParentOK
<1>5. ASSUME NEW moves \in MoveLists, Teach(moves) PROVE BreedingInv'
  <2>1. FourMoves(moves)
    BY MovesAssumption DEF FourMoves, NumMoves
  <2>2. ParentOK([mother EXCEPT !.moves = moves]) /\ ParentOK([father EXCEPT !.moves = moves])
    BY <2>1 DEF BreedingInv, ParentOK
  <2> QED
    BY <1>4, <1>5, <2>2 DEF Teach, BreedingInv
<1>6. ASSUME NEW item, Hold(item) PROVE BreedingInv'
  <2>1. ParentOK([mother EXCEPT !.item = item]) /\ ParentOK([father EXCEPT !.item = item])
    BY DEF BreedingInv, ParentOK
  <2> QED
    BY <1>4, <1>6, <2>1 DEF Hold, BreedingInv
<1>7. ASSUME NEW IVs \in IVLists[Generation[mother.game]] \cap IVLists[Generation[father.game]], SetIVs(IVs)
      PROVE  BreedingInv'
  <2>1. ParentOK([mother EXCEPT !.IVs = IVs]) /\ ParentOK([father EXCEPT !.IVs = IVs])
    BY <1>7 DEF BreedingInv, ParentOK
  <2> QED
    BY <1>4, <1>7, <2>1 DEF SetIVs, BreedingInv
<1>8. CASE UNCHANGED vars
  <2>1. mother' = mother /\ father' = father /\ answer' = answer
    BY <1>8 DEF vars
  <2>2. /\ AskedSpecies => AskedSpecies'
        /\ AskedMoves => AskedMoves'
        /\ AskedIVs => AskedIVs'
    BY <1>0, <2>1 DEF AskedSpecies, AskedMoves, AskedIVs
  <2>3. Nothing' = Nothing
    BY DEF Nothing
  <2> QED
    BY <1>0, <2>1, <2>2, <2>3 DEF BreedingInv
<1> QED
  BY <1>1, <1>2, <1>3, <1>5, <1>6, <1>7, <1>8 DEF Next, AskNext, ChangeNext

LEMMA AlwaysBreedingInv == Spec => []BreedingInv
BY BreedingStart, BreedingStep, PTL DEF Spec

LEMMA WhatIsAsked ==
  ASSUME BreedingInv
  PROVE  /\ answer.asked \in {"nothing", "species", "moves", "IVs"}
         /\ answer.asked = "species" => AskedSpecies
         /\ answer.asked = "moves" => AskedMoves
         /\ answer.asked = "IVs" => AskedIVs
<1>1. /\ answer = Nothing => answer.asked = "nothing"
      /\ AskedSpecies => answer.asked = "species"
      /\ AskedMoves => answer.asked = "moves"
      /\ AskedIVs => answer.asked = "IVs"
  BY DEF Nothing, AskedSpecies, AskedMoves, AskedIVs
<1> QED
  BY <1>1 DEF BreedingInv

LEMMA ParentsAre ==
  ASSUME BreedingInv
  PROVE  /\ mother.species \in Species /\ father.species \in Species
         /\ mother.game \in Games /\ Generation[mother.game] \in 2..3
         /\ FourMoves(mother.moves) /\ FourMoves(father.moves)
         /\ mother.game = father.game =>
              mother.IVs \in IVLists[Generation[mother.game]] /\ father.IVs \in IVLists[Generation[mother.game]]
BY DEF BreedingInv, ParentOK, GamesOfPokemon

-----------------------------------------------------------------------------
LEMMA AskedChildren ==
  ASSUME BreedingInv, answer.asked = "species"
  PROVE  /\ answer.is \subseteq Species
         /\ \A child \in answer.is : ChildOf(child, mother.species, father.species, answer.game)
<1>1. PICK game \in Games :
        /\ CanBePair(mother.species, father.species, game)
        /\ answer.game = game /\ answer.is = PossibleChildren(mother.species, father.species, game)
  <2>1. AskedSpecies
    BY WhatIsAsked
  <2> QED
    BY <2>1 DEF AskedSpecies
<1>2. \A child \in answer.is : ChildOf(child, mother.species, father.species, game)
  BY <1>1, ParentsAre, ChildrenLemma
<1> QED
  BY <1>1, <1>2 DEF ChildOf

(* A child is of a species that the game has and that grows into the       *)
(* parent that passes its species on, or a twin's or a Manaphy's, for any  *)
(* species and lines (get_possible_child_species).                         *)
THEOREM ChildrenTheorem == Spec => []ChildrenAreOfTheLine
<1>1. BreedingInv => ChildrenAreOfTheLine
  BY AskedChildren DEF ChildrenAreOfTheLine, ChildOf
<1> QED
  BY <1>1, AlwaysBreedingInv, PTL

-----------------------------------------------------------------------------
LEMMA AskedChildMoves ==
  ASSUME BreedingInv, answer.asked = "moves"
  PROVE  /\ answer.child \in Species /\ answer.is = ChildMoves(answer.child)
         /\ Inherited(answer.child) \in Seq(Learnable(answer.child))
         /\ Natural(answer.child) \in Seq(Learnable(answer.child))
         /\ NoMove \notin Learnable(answer.child)
<1>1. PICK child \in Children : CanAsk /\ answer.child = child /\ answer.is = ChildMoves(child)
  <2>1. AskedMoves
    BY WhatIsAsked
  <2> QED
    BY <2>1 DEF AskedMoves
<1>2. child \in Species
  BY <1>1, ParentsAre, ChildrenLemma DEF Children, CanAsk, ChildOf
<1> QED
  BY <1>1, <1>2, ParentsAre, SourcesLemma

(* A child hatches with moves it may have, and with what it learns anyway  *)
(* only in the places that what it inherits leaves, for any moves of the   *)
(* parents and of the database (get_child_moves).                          *)
THEOREM MovesTheorem == Spec => []ChildMovesAreRight
<1>1. ASSUME BreedingInv, answer.asked = "moves" PROVE OnlyLearnableMoves /\ NaturalMovesComeLast
  <2> DEFINE child == answer.child
             known == Range(answer.is)
  <2>1. /\ known \subseteq Range(Inherited(child)) \cup {NoMove} \/ Range(Inherited(child)) \subseteq known
        /\ NoMove \in known => Range(Inherited(child)) \cup Range(Natural(child)) \subseteq known
        /\ \A i \in 1..NumMoves : answer.is[i] \in Learnable(child) \cup {NoMove}
    BY <1>1, AskedChildMoves, FourLemma DEF ChildMoves
  <2>2. OnlyLearnableMoves
    BY <2>1 DEF OnlyLearnableMoves, Learnable
  <2>3. NaturalMovesComeLast
    BY <2>1 DEF NaturalMovesComeLast
  <2> QED
    BY <2>2, <2>3
<1>2. BreedingInv => ChildMovesAreRight
  BY <1>1 DEF ChildMovesAreRight, OnlyLearnableMoves, NaturalMovesComeLast
<1> QED
  BY <1>2, AlwaysBreedingInv, PTL

-----------------------------------------------------------------------------
LEMMA AskedBestIVs ==
  ASSUME BreedingInv, answer.asked = "IVs"
  PROVE  /\ CanAsk /\ mother.game = father.game /\ answer.is \in IdealIVs(answer.gender)
         /\ mother.IVs \in IVLists[Generation[mother.game]] /\ father.IVs \in IVLists[Generation[mother.game]]
<1>1. AskedIVs
  BY WhatIsAsked
<1> QED
  BY <1>1, ParentsAre DEF AskedIVs, CanAsk

LEMMA GiverLemma ==
  ASSUME BreedingInv, answer.asked = "IVs", Generation[mother.game] = 2
  PROVE  /\ answer.is = GoldIVs(GiverOfIVs(answer.gender))
         /\ GiverOfIVs(answer.gender) \in [Stats(2) -> 0..15]
<1>1. mother.IVs \in [Stats(2) -> 0..15] /\ father.IVs \in [Stats(2) -> 0..15]
  BY AskedBestIVs, StatsAssumption
<1>2. GiverOfIVs(answer.gender) \in {mother.IVs, father.IVs}
  BY DEF GiverOfIVs
<1>3. answer.is = GoldIVs(GiverOfIVs(answer.gender))
  <2>1. answer.is \in IdealIVs(answer.gender)
    BY AskedBestIVs
  <2>2. mother.game # "EMERALD"
    BY ParentsAre, EmeraldAssumption
  <2>3. IdealIVs(answer.gender) = {GoldIVs(GiverOfIVs(answer.gender))}
    BY <2>2 DEF IdealIVs
  <2> QED
    BY <2>1, <2>3
<1> QED
  BY <1>1, <1>2, <1>3

LEMMA ModernLemma ==
  ASSUME BreedingInv, answer.asked = "IVs", Generation[mother.game] # 2
  PROVE  /\ mother.IVs \in [Stats(3) -> 0..31] /\ father.IVs \in [Stats(3) -> 0..31]
         /\ Generation[mother.game] = 3
         /\ mother.game # "EMERALD" => answer.is = RubyIVs(mother.IVs, father.IVs)
         /\ mother.game = "EMERALD" => answer.is \in EmeraldIVs(mother.IVs, father.IVs)
<1>1. Generation[mother.game] = 3
  BY ParentsAre
<1>2. mother.IVs \in [Stats(3) -> 0..31] /\ father.IVs \in [Stats(3) -> 0..31]
  BY <1>1, AskedBestIVs, StatsAssumption
<1> QED
  BY <1>1, <1>2, AskedBestIVs DEF IdealIVs

(* A map out of which some stats are gone still has those that stay.       *)
LEMMA WithoutLemma ==
  ASSUME NEW D \in SUBSET Stats(3), NEW IVs \in [D -> 0..31], NEW stats
  PROVE  Without(IVs, stats) \in [D \ stats -> 0..31]
BY DEF Without, Restrict

(* Whatever an answer of Emerald lacks, what it has are IVs of a parent.   *)
LEMMA EmeraldIVsRange ==
  ASSUME NEW a \in [Stats(3) -> 0..31], NEW b \in [Stats(3) -> 0..31], NEW IVs \in EmeraldIVs(a, b)
  PROVE  \A s \in DOMAIN IVs : IVs[s] \in 0..31
<1> DEFINE better == Combined(a, b)
           first == Highest(better)
           rest == Without(better, {first})
           second == Highest(rest)
<1>1. better \in [Stats(3) -> 0..31] /\ Stats(3) # {}
  BY DEF Combined, Stats
<1>2. PICK once \in LeftByFilter(rest, {"HP"}) :
        \E twice \in LeftByFilter(once, {"HP", "DEFENSE"}) :
          IVs = Restrict(better, {first, second, Highest(once)} \cup DOMAIN twice)
  BY DEF EmeraldIVs
<1> HIDE DEF better, second
<1>3. first \in Stats(3) /\ rest \in [Stats(3) \ {first} -> 0..31]
  BY <1>1, HighestIsThere, WithoutLemma
<1> HIDE DEF first, rest
<1>4. Stats(3) \ {first} # {} /\ \A stats \in SUBSET {"HP"} : (Stats(3) \ {first}) \ stats # {}
  BY DEF Stats
<1>5. second \in Stats(3)
  BY <1>3, <1>4, HighestIsThere DEF second
<1>6. PICK gone \in SUBSET {"HP"} : once = Without(rest, gone)
  BY DEF LeftByFilter
<1>7. once \in [(Stats(3) \ {first}) \ gone -> 0..31]
  BY <1>3, <1>6, WithoutLemma
<1>8. Highest(once) \in Stats(3)
  BY <1>4, <1>7, HighestIsThere
<1>9. PICK twice \in LeftByFilter(once, {"HP", "DEFENSE"}) :
        IVs = Restrict(better, {first, second, Highest(once)} \cup DOMAIN twice)
  BY <1>2
<1>10. DOMAIN twice \subseteq Stats(3)
  <2>1. PICK stats : twice = Without(once, stats)
    BY DEF LeftByFilter
  <2>2. twice \in [((Stats(3) \ {first}) \ gone) \ stats -> 0..31]
    BY <1>7, <2>1, WithoutLemma
  <2> QED
    BY <2>2
<1>11. {first, second, Highest(once)} \cup DOMAIN twice \subseteq Stats(3)
  BY <1>3, <1>5, <1>8, <1>10
<1> QED
  BY <1>1, <1>9, <1>11 DEF Restrict

LEMMA BreedingTypes == BreedingInv => TypeOK
<1> SUFFICES ASSUME BreedingInv PROVE TypeOK
  OBVIOUS
<1>1. ASSUME answer.asked = "moves" PROVE Len(answer.is) = NumMoves
  BY <1>1, AskedChildMoves, FourLemma DEF ChildMoves
<1>2. ASSUME answer.asked = "IVs" PROVE \A s \in DOMAIN answer.is : answer.is[s] \in 0..MaxIV(Generation[mother.game])
  <2>1. CASE Generation[mother.game] = 2
    <3>1. answer.is \in [Stats(2) \cup {"HP"} -> 0..15]
      BY <1>2, <2>1, GiverLemma, GoldIsBest
    <3> QED
      BY <2>1, <3>1 DEF MaxIV
  <2>2. CASE Generation[mother.game] # 2 /\ mother.game # "EMERALD"
    <3>1. answer.is \in [Stats(3) -> 0..31]
      BY <1>2, <2>2, ModernLemma, RubyIsBest
    <3> QED
      BY <2>2, <3>1 DEF MaxIV
  <2>3. CASE Generation[mother.game] # 2 /\ mother.game = "EMERALD"
    <3>1. \A s \in DOMAIN answer.is : answer.is[s] \in 0..31
      BY <1>2, <2>3, ModernLemma, EmeraldIVsRange
    <3> QED
      BY <2>3, <3>1 DEF MaxIV
  <2> QED
    BY <2>1, <2>2, <2>3
<1> QED
  BY <1>1, <1>2, WhatIsAsked, ParentsAre, AskedChildren DEF TypeOK

(* Where inheritance leaves a choice the answer is a child that the        *)
(* parents can have and none is better: in Generation II in no stat, in    *)
(* Ruby in the sum of them, for any IVs (get_ideal_child_IVs).             *)
THEOREM IVsTheorem == Spec => []IdealIVsAreBest
<1>1. BreedingInv => GoldIVsAreBest
  <2> SUFFICES ASSUME BreedingInv, answer.asked = "IVs", Generation[mother.game] = 2 PROVE GoldIVsAreBest
    BY DEF GoldIVsAreBest
  <2>1. /\ answer.is \in GoldOutcomes(GiverOfIVs(answer.gender))
        /\ \A other \in GoldOutcomes(GiverOfIVs(answer.gender)) : \A s \in DOMAIN other : other[s] <= answer.is[s]
    BY GiverLemma, GoldIsBest
  <2> QED
    BY <2>1 DEF GoldIVsAreBest
<1>2. BreedingInv => RubyIVsAreBest
  <2> SUFFICES ASSUME BreedingInv, answer.asked = "IVs", mother.game = "RUBY" PROVE RubyIVsAreBest
    BY DEF RubyIVsAreBest
  <2>1. Generation[mother.game] # 2
    BY ParentsAre, StatsAssumption
  <2>2. /\ answer.is \in RubyOutcomes(mother.IVs, father.IVs)
        /\ \A other \in RubyOutcomes(mother.IVs, father.IVs) : SumOf(other) <= SumOf(answer.is)
    BY <2>1, ModernLemma, RubyIsBest
  <2> QED
    BY <2>2 DEF RubyIVsAreBest
<1>3. BreedingInv => IdealIVsAreBest
  BY <1>1, <1>2, BreedingTypes DEF IdealIVsAreBest
<1> QED
  BY <1>3, AlwaysBreedingInv, PTL

-----------------------------------------------------------------------------
(* The daycare.  What is native has the data of a Pokemon or none, and the *)
(* objects know which.                                                     *)
DataShape(data) == data = [species |-> data.species, level |-> data.level]
PlaceShape(place) ==
  /\ place = [data |-> place.data, name |-> place.name, egg |-> place.egg]
  /\ DataShape(place.data)

DInv ==
  /\ kind \in DOMAIN Places
  /\ native = [p \in Places[kind] |-> native[p]] /\ shown = [p \in Places[kind] |-> shown[p]]
  /\ \A p \in Places[kind] : PlaceShape(native[p]) /\ PlaceShape(shown[p])
  /\ \A p \in Places[kind] : native[p].data.species = "none" => native[p].data = None
  /\ marks \subseteq Places[kind]
  /\ ShowsTheNative
  /\ Gen1MarkTells

Wiped == [data |-> None, name |-> NoName, egg |-> FALSE]

LEMMA WipedShape == PlaceShape(Wiped) /\ Wiped.data = None /\ None.species = "none"
BY DEF Wiped, PlaceShape, DataShape, None

LEMMA ImportShows ==
  ASSUME NEW place, PlaceShape(place), NEW p
  PROVE  PlaceShape(Import(place, p)) /\ Import(place, p).data = place.data
BY DEF Import, PlaceShape

LEMMA OfferedShape ==
  ASSUME NEW given \in Offered
  PROVE  PlaceShape(given) /\ given.data.species # "none" /\ given.name # NoName
BY OfferedAssumption DEF PlaceShape, DataShape

LEMMA DaycareStart == DaycareInit => DInv
<1> SUFFICES ASSUME DaycareInit PROVE DInv
  OBVIOUS
<1>1. /\ kind \in DOMAIN Places /\ marks = {}
      /\ native = [p \in Places[kind] |-> Wiped]
      /\ shown = [p \in Places[kind] |-> Import(native[p], p)]
  BY DEF DaycareInit, Wiped
<1> QED
  BY <1>1, WipedShape, ImportShows DEF DInv, ShowsTheNative, Gen1MarkTells

(* The constructors, whatever is native and whatever is marked.            *)
LEMMA OpenKeeps ==
  ASSUME DInv, NEW places, NEW marked, Open(places, marked),
         places = [p \in Places[kind] |-> places[p]], marked \subseteq Places[kind],
         \A p \in Places[kind] : /\ PlaceShape(places[p])
                                 /\ places[p].data.species = "none" => places[p].data = None,
         kind = "gen1" => \A p \in marked : places[p].data # None
  PROVE  DInv'
<1>1. /\ kind' = kind /\ marks' = marked
      /\ native' = [p \in Places[kind] |-> IF p \in marked \/ kind = "gcn" THEN places[p] ELSE Wiped]
      /\ shown' = [p \in Places[kind] |-> Import(native'[p], p)]
  BY DEF Open, Wiped
<1>2. \A p \in Places[kind] : /\ PlaceShape(native'[p])
                              /\ native'[p].data.species = "none" => native'[p].data = None
  BY <1>1, WipedShape
<1>3. \A p \in Places[kind] : PlaceShape(shown'[p]) /\ shown'[p].data = native'[p].data
  BY <1>1, <1>2, ImportShows
<1>4. ShowsTheNative'
  BY <1>1, <1>3 DEF ShowsTheNative
<1>5. Gen1MarkTells'
  BY <1>1, WipedShape DEF Gen1MarkTells
<1> QED
  BY <1>1, <1>2, <1>3, <1>4, <1>5 DEF DInv

(* _to_native writes names, and nothing else.                              *)
LEMMA ExportedKeeps ==
  ASSUME NEW places, NEW objects, NEW ps, \A p \in DOMAIN places : PlaceShape(places[p])
  PROVE  /\ Exported(places, objects, ps) = [p \in DOMAIN places |-> Exported(places, objects, ps)[p]]
         /\ \A p \in DOMAIN places : /\ PlaceShape(Exported(places, objects, ps)[p])
                                     /\ Exported(places, objects, ps)[p].data = places[p].data
BY DEF Exported, PlaceShape

LEMMA MarksLemma ==
  ASSUME kind = "gen1", NEW objects, NEW places, DOMAIN objects = DOMAIN places,
         \A p \in DOMAIN places :
           /\ objects[p].data.species = places[p].data.species
           /\ places[p].data.species = "none" => places[p].data = None
  PROVE  MarksFor(objects) = {p \in DOMAIN places : places[p].data # None}
BY WipedShape DEF MarksFor

LEMMA MarksType ==
  ASSUME NEW S, marks \subseteq S, NEW objects, DOMAIN objects = S
  PROVE  MarksFor(objects) \subseteq S
BY DEF MarksFor

(* What set_levelup_pokemon() does, before anything is said of the rest.   *)
LEMMA SetPokemonDoes ==
  ASSUME DInv, NEW p, NEW given \in Offered, SetPokemon(p, given)
  PROVE  /\ kind' = kind /\ marks' = MarksFor(shown') /\ p \in Places[kind]
         /\ shown' = [q \in Places[kind] |-> shown'[q]] /\ native' = [q \in Places[kind] |-> native'[q]]
         /\ \A q \in Places[kind] : PlaceShape(native'[q]) /\ PlaceShape(shown'[q])
         /\ shown'[p].data = given.data /\ shown'[p].name = given.name
         /\ native'[p].data = given.data
         /\ \A q \in Places[kind] \ {p} : shown'[q] = shown[q] /\ native'[q].data = native[q].data
<1> DEFINE object == [data |-> given.data, name |-> NotEmpty(given.name), egg |-> kind = "gcn" /\ given.egg]
           copied == IF kind = "gcn" THEN given ELSE [native[p] EXCEPT !.data = given.data]
           copies == [native EXCEPT ![p] = copied]
<1>1. /\ p \in Places[kind] /\ kind' = kind /\ marks' = MarksFor(shown')
      /\ shown' = [shown EXCEPT ![p] = object]
      /\ native' = Exported(copies, shown', DOMAIN native \ {"egg"})
  BY DEF SetPokemon
<1>2. PlaceShape(object) /\ object.data = given.data /\ object.name = given.name
  BY OfferedShape DEF PlaceShape, NotEmpty
<1>3. PlaceShape(copied) /\ copied.data = given.data
  <2>1. PlaceShape(native[p])
    BY <1>1 DEF DInv
  <2> QED
    BY <2>1, OfferedShape DEF PlaceShape
<1> HIDE DEF object, copied
<1>4. copies = [q \in Places[kind] |-> IF q = p THEN copied ELSE native[q]]
  BY DEF DInv
<1>5. shown' = [q \in Places[kind] |-> IF q = p THEN object ELSE shown[q]]
  BY <1>1 DEF DInv
<1> HIDE DEF copies
<1>6. \A q \in DOMAIN copies : PlaceShape(copies[q])
  BY <1>3, <1>4 DEF DInv
<1>7. /\ native' = [q \in Places[kind] |-> native'[q]]
      /\ \A q \in Places[kind] : PlaceShape(native'[q]) /\ native'[q].data = copies[q].data
  <2> DEFINE exported == Exported(copies, shown', DOMAIN native \ {"egg"})
  <2>1. DOMAIN copies = Places[kind]
    BY <1>4
  <2>2. /\ exported = [q \in DOMAIN copies |-> exported[q]]
        /\ \A q \in DOMAIN copies : PlaceShape(exported[q]) /\ exported[q].data = copies[q].data
    BY <1>6 DEF Exported, PlaceShape
  <2> QED
    BY <1>1, <2>1, <2>2
<1>8. \A q \in Places[kind] : PlaceShape(shown'[q])
  BY <1>2, <1>5 DEF DInv
<1> QED
  BY <1>1, <1>2, <1>3, <1>4, <1>5, <1>7, <1>8

LEMMA DaycareStep == DInv /\ [DaycareNext]_daycareVars => DInv'
<1> SUFFICES ASSUME DInv, [DaycareNext]_daycareVars PROVE DInv'
  OBVIOUS
<1>0. DOMAIN native = Places[kind] /\ DOMAIN shown = Places[kind]
  BY DEF DInv
<1>1. ASSUME NEW p \in Places[kind], NEW given \in Offered, SetPokemon(p, given) PROVE DInv'
  <2>1. /\ kind' = kind /\ marks' = MarksFor(shown')
        /\ shown' = [q \in Places[kind] |-> shown'[q]] /\ native' = [q \in Places[kind] |-> native'[q]]
        /\ \A q \in Places[kind] : PlaceShape(native'[q]) /\ PlaceShape(shown'[q])
    BY <1>1, SetPokemonDoes
  <2>2. \A q \in Places[kind] :
          /\ shown'[q].data.species = native'[q].data.species
          /\ native'[q].data.species = "none" => native'[q].data = None
    <3>1. shown'[p].data = native'[p].data /\ native'[p].data.species # "none"
      BY <1>1, SetPokemonDoes, OfferedShape
    <3>2. \A q \in Places[kind] \ {p} : shown'[q] = shown[q] /\ native'[q].data = native[q].data
      BY <1>1, SetPokemonDoes
    <3> QED
      BY <1>0, <3>1, <3>2 DEF DInv, ShowsTheNative
  <2>3. DOMAIN shown' = Places[kind] /\ DOMAIN native' = Places[kind]
    BY <2>1
  <2>4. marks' \subseteq Places[kind]
    BY <2>1, <2>3, MarksType DEF DInv
  <2>5. Gen1MarkTells'
    BY <2>1, <2>2, <2>3, MarksLemma DEF Gen1MarkTells
  <2>6. ShowsTheNative'
    BY <2>2, <2>3 DEF ShowsTheNative
  <2> QED
    BY <2>1, <2>2, <2>4, <2>5, <2>6 DEF DInv
<1>2. ASSUME NEW p \in Places[kind], NEW given \in Offered, GameStores(p, given) PROVE DInv'
  <2> DEFINE places == [native EXCEPT ![p] = given]
  <2>1. Open(places, marks \cup {p})
    BY <1>2 DEF GameStores
  <2>2. places = [q \in Places[kind] |-> IF q = p THEN given ELSE native[q]]
    BY DEF DInv
  <2>3. PlaceShape(given) /\ given.data.species # "none" /\ given.data # None
    BY OfferedShape, WipedShape
  <2> HIDE DEF places
  <2>4. \A q \in Places[kind] : /\ PlaceShape(places[q])
                                /\ places[q].data.species = "none" => places[q].data = None
    BY <2>2, <2>3 DEF DInv
  <2>5. kind = "gen1" => \A q \in marks \cup {p} : places[q].data # None
    BY <2>2, <2>3 DEF DInv, Gen1MarkTells
  <2>6. marks \cup {p} \subseteq Places[kind]
    BY DEF DInv
  <2> QED
    BY <2>1, <2>2, <2>4, <2>5, <2>6, OpenKeeps
<1>3. ASSUME NEW p \in Places[kind], NEW name \in NamesGiven, Rename(p, name) PROVE DInv'
  <2>1. /\ kind' = kind /\ marks' = marks /\ native' = native
        /\ shown' = [q \in Places[kind] |-> IF q = p THEN [shown[q] EXCEPT !.name = name] ELSE shown[q]]
    BY <1>3 DEF Rename, DInv
  <2>2. \A q \in Places[kind] : PlaceShape(shown'[q]) /\ shown'[q].data = shown[q].data
    BY <2>1 DEF DInv, PlaceShape
  <2> QED
    BY <2>1, <2>2 DEF DInv, ShowsTheNative, Gen1MarkTells
<1>4. ASSUME NEW p \in Places[kind], NEW level \in LevelsGiven, SetLevel(p, level) PROVE DInv'
  <2> DEFINE new == [shown[p] EXCEPT !.data.level = level]
  <2>1. /\ kind' = kind /\ marks' = marks /\ native' = native
        /\ shown' = [q \in Places[kind] |-> IF q = p THEN new ELSE shown[q]]
    BY <1>4 DEF SetLevel, DInv
  <2>2. PlaceShape(new) /\ new.data.species = shown[p].data.species
    <3>1. shown[p] = [data |-> [species |-> shown[p].data.species, level |-> shown[p].data.level],
                      name |-> shown[p].name, egg |-> shown[p].egg]
      BY DEF DInv, PlaceShape, DataShape
    <3> QED
      BY <3>1 DEF PlaceShape, DataShape
  <2> HIDE DEF new
  <2>3. \A q \in Places[kind] : PlaceShape(shown'[q]) /\ shown'[q].data.species = shown[q].data.species
    BY <2>1, <2>2 DEF DInv
  <2> QED
    BY <2>1, <2>3 DEF DInv, ShowsTheNative, Gen1MarkTells
<1>5. ASSUME NEW p \in Places[kind], GameGivesBack(p) PROVE DInv'
  BY <1>5, OpenKeeps DEF GameGivesBack, DInv, Gen1MarkTells
<1>6. CASE GetNative
  <2>1. /\ kind' = kind /\ shown' = shown /\ marks' = MarksFor(shown)
        /\ native' = Exported(native, shown, DOMAIN native)
    BY <1>6 DEF GetNative
  <2>2. \A q \in DOMAIN native : PlaceShape(native[q])
    BY <1>0 DEF DInv
  <2>3. /\ native' = [q \in Places[kind] |-> native'[q]]
        /\ \A q \in Places[kind] : PlaceShape(native'[q]) /\ native'[q].data = native[q].data
    BY <1>0, <2>1, <2>2, ExportedKeeps
  <2>4. \A q \in Places[kind] :
          /\ shown[q].data.species = native'[q].data.species
          /\ native'[q].data.species = "none" => native'[q].data = None
    BY <1>0, <2>3 DEF DInv, ShowsTheNative
  <2>5. DOMAIN native' = Places[kind]
    BY <2>3
  <2>6. Gen1MarkTells'
    BY <1>0, <2>1, <2>4, <2>5, MarksLemma DEF Gen1MarkTells
  <2>7. marks' \subseteq Places[kind]
    BY <1>0, <2>1, MarksType DEF DInv
  <2>8. ShowsTheNative'
    BY <2>1, <2>4, <2>5 DEF ShowsTheNative
  <2> QED
    BY <2>1, <2>3, <2>4, <2>6, <2>7, <2>8 DEF DInv
<1>7. CASE Reopen
  BY <1>7, OpenKeeps DEF Reopen, DInv, Gen1MarkTells
<1>8. CASE UNCHANGED daycareVars
  BY <1>8 DEF daycareVars, DInv, ShowsTheNative, Gen1MarkTells
<1> QED
  BY <1>0, <1>1, <1>2, <1>3, <1>4, <1>5, <1>6, <1>7, <1>8 DEF DaycareNext

(* A Pokemon that was left at a daycare is there when the save is opened   *)
(* again if its place is marked, which in Generation I it is and on the    *)
(* GameCube need not be; storing another one leaves it alone, and what is  *)
(* shown is of the species that is there.                                  *)
THEOREM DaycareTheorem == DaycareSpec => StoredPokemonAreKept
<1>1. DInv => StoringIsExact
  <2> SUFFICES ASSUME DInv, NEW p \in DOMAIN native, NEW given \in Offered, SetPokemon(p, given)
               PROVE  /\ shown'[p].data = given.data /\ shown'[p].name = given.name
                      /\ \A q \in DOMAIN native \ {p} : shown'[q] = shown[q] /\ native'[q].data = native[q].data
    BY DEF StoringIsExact
  <2>1. DOMAIN native = Places[kind]
    BY DEF DInv
  <2> QED
    BY <2>1, SetPokemonDoes
<1>2. DInv => ReopeningKeeps
  <2> SUFFICES ASSUME DInv, Reopen, NEW p \in DOMAIN native
               PROVE  IF kind = "gcn" \/ p \in marks
                      THEN shown'[p].data = native[p].data /\ native[p].name \in {NoName, shown'[p].name}
                      ELSE shown'[p].data = None
    BY DEF ReopeningKeeps
  <2>1. shown'[p] = Import(native'[p], p)
        /\ native'[p] = IF p \in marks \/ kind = "gcn" THEN native[p] ELSE Wiped
    BY DEF Reopen, Open, Wiped
  <2> QED
    BY <2>1, WipedShape DEF Import
<1>3. DInv => ShowsTheNative /\ Gen1MarkTells
  BY DEF DInv
<1>4. DInv /\ DInv' => [ShowsTheNative' /\ Gen1MarkTells' /\ StoringIsExact /\ ReopeningKeeps]_daycareVars
  BY <1>1, <1>2, <1>3 DEF DInv
<1> QED
  BY <1>4, DaycareStart, DaycareStep, PTL DEF DaycareSpec, StoredPokemonAreKept
=============================================================================
