--------------------------- MODULE GBPokemonProofs --------------------------
(***************************************************************************)
(* Theorems about a Pokemon of Generation I or II, for all species, moves, *)
(* learnsets, experience curves and levels that the database may have, and *)
(* any values that callers set.                                            *)
(***************************************************************************)
EXTENDS GBPokemon, FiniteSetTheorems, WellFoundedInduction, TLAPS

(* The induction that the lemmas below rest on: a set of numbers has a     *)
(* least one...                                                            *)
Less == {pair \in Nat \X Nat : pair[1] < pair[2]}

LEMMA LeastNatural ==
  ASSUME NEW S \in SUBSET Nat, S # {}
  PROVE  \E x \in S : \A y \in S : x <= y
<1>1. IsWellFoundedOn(OpToRel(<, Nat), Nat)
  BY NatLessThanWellFounded
<1>2. IsWellFoundedOn(Less, Nat)
  BY <1>1 DEF OpToRel, Less
<1>3. PICK x \in S : \A y \in S : <<y, x>> \notin Less
  BY <1>2, WFMin
<1>4. \A y \in S : ~(y < x)
  BY <1>3 DEF Less
<1> QED
  BY <1>4

(* ...and one that is bounded has a greatest.                              *)
LEMMA MaxIsThere ==
  ASSUME NEW n \in Nat, NEW S \in SUBSET (0..n), S # {}
  PROVE  Max(S) \in S /\ \A y \in S : Max(S) >= y
<1> DEFINE T == {n - x : x \in S}
<1>1. T \in SUBSET Nat /\ T # {}
  <2>1. \A x \in S : n - x \in Nat
    OBVIOUS
  <2> QED
    BY <2>1
<1>2. PICK t \in T : \A u \in T : t <= u
  BY <1>1, LeastNatural
<1>3. PICK x \in S : t = n - x
  BY <1>2
<1>4. \A y \in S : x >= y
  BY <1>2, <1>3
<1> QED
  BY <1>4 DEF Max

(* Levels. *)
LEMMA LevelAtIsALevel ==
  ASSUME NEW experience \in 0..ExpAt[100]
  PROVE  LevelAt(experience) \in DOMAIN ExpAt /\ LevelAt(experience) \in 1..100
<1> DEFINE reached == {l \in DOMAIN ExpAt : ExpAt[l] <= experience}
<1>1. reached \in SUBSET (0..100) /\ 1 \in reached
  BY GBPokemonAssumption
<1>2. Max(reached) \in reached
  BY <1>1, MaxIsThere
<1> QED
  BY <1>2, GBPokemonAssumption DEF LevelAt

LEMMA LevelAtOfALevel ==
  ASSUME NEW level \in DOMAIN ExpAt
  PROVE  LevelAt(ExpAt[level]) = level /\ ExpAt[level] \in 0..ExpAt[100]
<1> DEFINE reached == {l \in DOMAIN ExpAt : ExpAt[l] <= ExpAt[level]}
<1>1. level \in reached /\ \A l \in reached : l \in Int /\ level >= l
  BY GBPokemonAssumption
<1>2. \A l \in reached : (\A k \in reached : l >= k) => l = level
  BY <1>1, GBPokemonAssumption
<1>3. Max(reached) = level
  BY <1>1, <1>2 DEF Max
<1>4. level <= 100 /\ (level < 100 => ExpAt[level] < ExpAt[100])
  BY GBPokemonAssumption
<1> QED
  BY <1>3, <1>4, GBPokemonAssumption DEF LevelAt

(* Stats are no negative numbers. *)
LEMMA RootIsThere ==
  ASSUME NEW ev \in Nat, ev <= MaxEV
  PROVE  \E n \in 0..255 : n * n <= ev /\ ev < (n + 1) * (n + 1)
<1> DEFINE above == {n \in Nat : ev < (n + 1) * (n + 1)}
<1>1. above \in SUBSET Nat /\ 255 \in above
  <2>1. MaxEV \in Nat /\ MaxEV < (255 + 1) * (255 + 1)
    BY DEF MaxEV
  <2> QED
    BY <2>1
<1>2. PICK n \in above : \A m \in above : n <= m
  BY <1>1, LeastNatural
<1>3. n \in 0..255
  BY <1>1, <1>2
<1>4. CASE n = 0
  BY <1>2, <1>3, <1>4
<1>5. CASE n # 0
  <2>1. n - 1 \in Nat /\ n - 1 \notin above
    BY <1>2, <1>5
  <2>2. ~(ev < ((n - 1) + 1) * ((n - 1) + 1))
    BY <2>1
  <2>3. (n - 1) + 1 = n
    BY <1>3
  <2>4. n * n <= ev
    BY <2>2, <2>3, <1>3
  <2> QED
    BY <1>2, <1>3, <2>4
<1> QED
  BY <1>4, <1>5

LEMMA RootType ==
  ASSUME NEW ev \in EVValues
  PROVE  ev \in Nat /\ ev <= MaxEV /\ RootOf[ev] \in 0..255
<1>1. ev \in Nat /\ ev <= MaxEV
  <2>1. 0 <= MaxEV /\ MaxEV \in Nat
    BY DEF MaxEV
  <2>2. \A input \in EVInputs : input[2] \in 0..MaxEV
    BY ValuesAssumption
  <2> QED
    BY <2>1, <2>2 DEF EVValues
<1>2. \E n \in 0..255 : n * n <= ev /\ ev < (n + 1) * (n + 1)
  BY <1>1, RootIsThere
<1> QED
  BY <1>1, <1>2 DEF RootOf

LEMMA StatType ==
  ASSUME NEW stat, NEW level \in Nat, NEW ev \in EVValues, NEW iv \in 0..15
  PROVE  StatOf(stat, level, ev, iv) \in Nat
<1> DEFINE factor == (BaseStat + iv) * 2 + (RootOf[ev] \div 4)
<1>1. factor \in Nat
  <2>1. RootOf[ev] \in 0..255 /\ BaseStat \in 0..255
    BY RootType, ValuesAssumption
  <2> QED
    BY <2>1
<1>2. factor * level \in Nat
  <2> HIDE DEF factor
  <2> QED BY <1>1
<1>3. (factor * level) \div 100 \in Nat
  <2> DEFINE product == factor * level
  <2>1. product \in Nat
    BY <1>2
  <2> HIDE DEF product
  <2>2. product \div 100 \in Nat
    BY <2>1
  <2> QED BY <2>2 DEF product
<1> HIDE DEF factor
<1> QED
  BY <1>3 DEF StatOf, factor

-----------------------------------------------------------------------------
(* IVs. *)
IVs == [Stored -> 0..15]

LEMMA UnpackedType ==
  ASSUME NEW iv \in IVs
  PROVE  /\ UnpackedIVs(iv) \in [GBStats -> 0..15]
         /\ \A s \in Stored : UnpackedIVs(iv)[s] = iv[s]
<1>1. /\ iv.ATTACK \in 0..15 /\ iv.DEFENSE \in 0..15 /\ iv.SPEED \in 0..15 /\ iv.SPECIAL \in 0..15
  BY DEF IVs, Stored
<1>2. HPIV(iv) \in 0..15
  BY <1>1 DEF HPIV
<1>3. \A s \in Stored : iv[s] \in 0..15 /\ s # "HP"
  BY DEF IVs, Stored
<1> QED
  BY <1>2, <1>3 DEF UnpackedIVs, GBStats

LEMMA WithIVType ==
  ASSUME NEW iv \in IVs, NEW stat \in GBStats, NEW value \in 0..15
  PROVE  WithIV(iv, stat, value) \in IVs
<1>1. CASE stat = "HP"
  <2>1. ASSUME NEW s \in Stored
        PROVE  (iv[s] - (iv[s] % 2)) + ((value \div HPWeight[s]) % 2) \in 0..15
    <3>1. iv[s] \in 0..15
      BY DEF IVs
    <3>2. HPWeight[s] \in {1, 2, 4, 8}
      BY DEF HPWeight, Stored
    <3>3. (value \div HPWeight[s]) % 2 \in 0..1
      BY <3>2
    <3>4. (iv[s] % 2) \in 0..1 /\ iv[s] - (iv[s] % 2) \in 0..14
      BY <3>1
    <3> QED
      BY <3>3, <3>4
  <2> QED
    BY <1>1, <2>1 DEF WithIV, IVs
<1>2. CASE stat # "HP"
  BY <1>2 DEF WithIV, IVs, GBStats
<1> QED
  BY <1>1, <1>2

(* The two bits in the middle of an IV, and other ones in their place. *)
LEMMA Middle ==
  ASSUME NEW value \in 0..15, NEW bits \in 0..3
  PROVE  LET new == value - 2 * MiddleBits(value) + 2 * bits
         IN  MiddleBits(value) \in 0..3 /\ new \in 0..15 /\ MiddleBits(new) = bits
BY DEF MiddleBits

LEMMA FormType ==
  ASSUME NEW iv \in [GBStats -> 0..15]
  PROVE  FormOf(iv) \in 0..25
<1>1. /\ iv.ATTACK \in 0..15 /\ iv.DEFENSE \in 0..15 /\ iv.SPEED \in 0..15 /\ iv.SPECIAL \in 0..15
  BY DEF GBStats, Stored
<1>2. \A value \in 0..15 : MiddleBits(value) \in 0..3
  BY DEF MiddleBits
<1>3. 64 * MiddleBits(iv.ATTACK) + 16 * MiddleBits(iv.DEFENSE)
        + 4 * MiddleBits(iv.SPEED) + MiddleBits(iv.SPECIAL) \in 0..255
  BY <1>1, <1>2
<1> QED
  BY <1>3 DEF FormOf

(* The IVs that a letter asks for are IVs of that letter, also of Z, for   *)
(* which there is no room.                                                 *)
LEMMA FormIsKept ==
  ASSUME NEW iv \in IVs, NEW form \in 0..25
  PROVE  /\ IVsOfForm(iv, form) \in IVs
         /\ FormOf(UnpackedIVs(IVsOfForm(iv, form))) = form
<1> DEFINE number == Smaller(10 * form + 9, 255)
           bits(s) == (number \div FormWeight[s]) % 4
           new == IVsOfForm(iv, form)
<1>1. number \in 0..255 /\ number \div 10 = form
  BY DEF Smaller
<1>2. \A s \in Stored : bits(s) \in 0..3
  <2> HIDE DEF number
  <2>1. /\ (number \div 64) % 4 \in 0..3 /\ (number \div 16) % 4 \in 0..3
        /\ (number \div 4) % 4 \in 0..3 /\ (number \div 1) % 4 \in 0..3
    BY <1>1
  <2> QED
    BY <2>1 DEF FormWeight, Stored
<1>3. \A s \in Stored : new[s] = iv[s] - 2 * MiddleBits(iv[s]) + 2 * bits(s)
  BY DEF IVsOfForm
<1>4. \A s \in Stored : new[s] \in 0..15 /\ MiddleBits(new[s]) = bits(s)
  <2> SUFFICES ASSUME NEW s \in Stored PROVE new[s] \in 0..15 /\ MiddleBits(new[s]) = bits(s)
    OBVIOUS
  <2>1. iv[s] \in 0..15 /\ bits(s) \in 0..3
    BY <1>2 DEF IVs
  <2> HIDE DEF number, bits, new
  <2> QED
    BY <1>3, <2>1, Middle
<1>5. new \in IVs
  BY <1>4 DEF IVs, IVsOfForm
<1>6. /\ bits("ATTACK") = (number \div 64) % 4 /\ bits("DEFENSE") = (number \div 16) % 4
      /\ bits("SPEED") = (number \div 4) % 4 /\ bits("SPECIAL") = number % 4
  <2>1. number \div 1 = number
    <3> HIDE DEF number
    <3> QED BY <1>1
  <2> HIDE DEF number
  <2> QED
    BY <2>1 DEF FormWeight
<1>7. 64 * bits("ATTACK") + 16 * bits("DEFENSE") + 4 * bits("SPEED") + bits("SPECIAL") = number
  <2> HIDE DEF number, bits
  <2> QED BY <1>1, <1>6
<1>8. /\ MiddleBits(UnpackedIVs(new).ATTACK) = bits("ATTACK")
      /\ MiddleBits(UnpackedIVs(new).DEFENSE) = bits("DEFENSE")
      /\ MiddleBits(UnpackedIVs(new).SPEED) = bits("SPEED")
      /\ MiddleBits(UnpackedIVs(new).SPECIAL) = bits("SPECIAL")
  <2> HIDE DEF number, bits, new
  <2> QED BY <1>4, <1>5, UnpackedType DEF Stored
<1>9. FormOf(UnpackedIVs(new)) = number \div 10
  <2> HIDE DEF number, bits, new
  <2> QED BY <1>7, <1>8 DEF FormOf
<1> QED
  BY <1>1, <1>5, <1>9

-----------------------------------------------------------------------------
(* The shapes of the three structures. *)
KnownMoves == Moves \cup {NoMove}
Earned == 0..ExpAt[100]
AllConditions == Conditions \cup {NoCondition}

PCType ==
  [ iv : IVs, ev : [GBStats -> EVValues], level : 0..100, exp : 0..ExpAt[100],
    moves : [0..3 -> KnownMoves], pps : [0..3 -> 0..255], levelMet : 0..MaxLevelMet ]

PartyType ==
  [level : 0..100, stats : [CommonStats -> Nat], hp : Int, condition : AllConditions]

CacheType ==
  [ IVs : [GBStats -> 0..15], EVs : [GBStats -> EVValues], stats : [CommonStats -> Nat],
    moves : [0..3 -> [move : KnownMoves, pp : 0..64]], form : 0..25 \cup {NoForm}, egg : BOOLEAN ]

IInv ==
  /\ species \in Species /\ gen \in 1..2 /\ (gen = 1 => species.inGen1)
  /\ pc \in PCType /\ party \in PartyType /\ cache \in CacheType
  /\ ViewsAgree
  /\ LevelsAreRight

LEMMA InvariantHasTypes == IInv => TypeOK
BY DEF IInv, TypeOK, PCType, PartyType, CacheType, IVs, KnownMoves, AllConditions

LEMMA ExpIsANumber == ExpAt[100] \in Nat /\ 0 \in 0..ExpAt[100] /\ 0 \in EVValues
BY GBPokemonAssumption DEF EVValues

LEMMA StatsType ==
  ASSUME NEW level \in Nat, NEW data \in PCType
  PROVE  StatsAt(level, data) \in [CommonStats -> Nat]
<1> SUFFICES ASSUME NEW s \in CommonStats
             PROVE  StatOf(s, level, data.ev[s], UnpackedIVs(data.iv)[s]) \in Nat
  BY DEF StatsAt
<1>1. s \in GBStats /\ data.ev[s] \in EVValues /\ UnpackedIVs(data.iv)[s] \in 0..15
  BY UnpackedType DEF PCType, CommonStats, GBStats, Stored
<1> QED
  BY <1>1, StatType

LEMMA PartyDataType ==
  ASSUME NEW g \in 1..2, NEW data \in PCType, NEW condition \in AllConditions
  PROVE  LET level == IF g = 1 THEN LevelAt(data.exp) ELSE data.level
             made == PartyData(g, data, condition)
         IN  /\ made \in PartyType
             /\ made.level = level /\ made.stats = StatsAt(level, data)
             /\ made.hp = made.stats.HP /\ made.hp \in Nat
<1> DEFINE level == IF g = 1 THEN LevelAt(data.exp) ELSE data.level
<1>1. level \in 0..100 /\ level \in Nat
  <2>1. data.exp \in 0..ExpAt[100] /\ data.level \in 0..100
    BY DEF PCType
  <2>2. LevelAt(data.exp) \in 1..100
    BY <2>1, LevelAtIsALevel
  <2> QED
    BY <2>1, <2>2
<1> HIDE DEF level
<1>2. StatsAt(level, data) \in [CommonStats -> Nat] /\ StatsAt(level, data).HP \in Nat
  BY <1>1, StatsType DEF CommonStats
<1>3. PartyData(g, data, condition) =
        [ level |-> level, stats |-> StatsAt(level, data), hp |-> StatsAt(level, data).HP,
          condition |-> IF g = 1 THEN condition ELSE NoCondition ]
  BY DEF PartyData, level
<1>4. PartyData(g, data, condition) \in PartyType
  BY <1>1, <1>2, <1>3 DEF PartyType, AllConditions
<1> QED
  BY <1>2, <1>3, <1>4 DEF level

(* What a constructor reads from a structure is of the right types and     *)
(* agrees with it.                                                         *)
LEMMA CacheOfType ==
  ASSUME NEW kind \in Species, NEW g \in 1..2, NEW data \in PCType, NEW partyData \in PartyType
  PROVE  CacheOf(kind, g, data, partyData) \in CacheType
<1>1. UnpackedIVs(data.iv) \in [GBStats -> 0..15]
  BY UnpackedType DEF PCType
<1>2. SlotsOf(data) \in [0..3 -> [move : KnownMoves, pp : 0..64]]
  <2>1. ASSUME NEW i \in 0..3
        PROVE  data.moves[i] \in KnownMoves /\ data.pps[i] % 64 \in 0..64
    <3>1. data.moves[i] \in KnownMoves /\ data.pps[i] \in 0..255
      BY DEF PCType
    <3> QED
      BY <3>1
  <2> QED
    BY <2>1 DEF SlotsOf
<1>3. FormOf(UnpackedIVs(data.iv)) \in 0..25
  BY <1>1, FormType
<1> QED
  BY <1>1, <1>2, <1>3 DEF CacheOf, CacheType, PCType, PartyType

(* Whatever is changed of the stored part: when the party's part is made   *)
(* anew, level, experience and stats tell one story.                       *)
LEMMA MadeAnew ==
  ASSUME IInv, gen' \in 1..2, pc' \in PCType, pc'.level \in {LevelAt(pc'.exp), 0},
         party' = PartyData(gen', pc', party.condition)
  PROVE  party' \in PartyType /\ LevelsAreRight'
<1> DEFINE level == IF gen' = 1 THEN LevelAt(pc'.exp) ELSE pc'.level
<1>1. /\ party' \in PartyType
      /\ party'.level = level /\ party'.stats = StatsAt(level, pc')
      /\ party'.hp = party'.stats.HP /\ party'.hp \in Nat
  <2>1. party.condition \in AllConditions
    BY DEF IInv, PartyType
  <2>2. PICK g \in 1..2, data \in PCType, condition \in AllConditions :
          g = gen' /\ data = pc' /\ condition = party.condition
    BY <2>1
  <2>3. party' = PartyData(g, data, condition)
    BY <2>2
  <2> QED
    BY <2>2, <2>3, PartyDataType
<1>2. Level' = level
  BY <1>1 DEF Level
<1> QED
  BY <1>1, <1>2 DEF LevelsAreRight

LEMMA StatsAreOfTheGame ==
  ASSUME NEW data, NEW condition, NEW other
  PROVE  PartyData(gen, data, condition).stats = PartyData(gen, data, other).stats
BY DEF PartyData

(* IVs, and with them the stats and the letter of an Unown. *)
LEMMA ChangeIVsInv ==
  ASSUME IInv, NEW iv \in IVs, NEW form \in 0..25 \cup {NoForm},
         form = IF species.unown THEN FormOf(UnpackedIVs(iv)) ELSE NoForm,
         pc' = [pc EXCEPT !.iv = iv],
         party' = PartyData(gen, pc', party.condition),
         cache' = [cache EXCEPT !.IVs = UnpackedIVs(pc'.iv), !.stats = PartyData(gen, pc', "").stats,
                                !.form = form],
         UNCHANGED <<species, gen>>
  PROVE  IInv'
<1>1. pc' \in PCType /\ pc'.iv = iv /\ pc'.ev = pc.ev /\ pc'.moves = pc.moves /\ pc'.pps = pc.pps
  BY DEF IInv, PCType
<1>2. pc'.level \in {LevelAt(pc'.exp), 0}
  BY DEF IInv, PCType, LevelsAreRight
<1>3. party' \in PartyType /\ LevelsAreRight'
  BY <1>1, <1>2, MadeAnew DEF IInv
<1>4. /\ cache' \in CacheType
      /\ cache'.IVs = UnpackedIVs(iv) /\ cache'.stats = party'.stats /\ cache'.form = form
      /\ cache'.EVs = cache.EVs /\ cache'.moves = cache.moves
  <2>1. PartyData(gen, pc', "").stats = party'.stats
    BY StatsAreOfTheGame
  <2>2. cache' = [cache EXCEPT !.IVs = UnpackedIVs(iv), !.stats = party'.stats, !.form = form]
    BY <1>1, <2>1
  <2>3. party'.stats \in [CommonStats -> Nat] /\ UnpackedIVs(iv) \in [GBStats -> 0..15]
    BY <1>3, UnpackedType DEF PartyType
  <2> QED
    BY <2>2, <2>3 DEF IInv, CacheType
<1>5. ViewsAgree'
  BY <1>1, <1>4 DEF IInv, ViewsAgree
<1> QED
  BY <1>1, <1>3, <1>4, <1>5 DEF IInv

LEMMA ChangedFormIsRead ==
  ASSUME IInv, NEW iv \in IVs, ChangeIVs(iv)
  PROVE  IInv'
<1> DEFINE form == IF species.unown THEN FormOf(UnpackedIVs(iv)) ELSE NoForm
<1>1. form \in 0..25 \cup {NoForm}
  BY UnpackedType, FormType
<1>2. pc' = [pc EXCEPT !.iv = iv] /\ pc'.iv = iv
  BY DEF ChangeIVs, Repopulate, IInv, PCType
<1>3. party' = PartyData(gen, pc', party.condition) /\ UNCHANGED <<species, gen>>
  BY DEF ChangeIVs, Repopulate
<1>5. cache' = [cache EXCEPT !.IVs = UnpackedIVs(pc'.iv), !.stats = PartyData(gen, pc', "").stats,
                             !.form = form]
  BY <1>2 DEF ChangeIVs, Repopulate, ReadIVs
<1> HIDE DEF form
<1>6. form = IF species.unown THEN FormOf(UnpackedIVs(iv)) ELSE NoForm
  BY DEF form
<1> QED
  BY <1>1, <1>2, <1>3, <1>5, <1>6, ChangeIVsInv

(* Of each gender there are IVs. *)
LEMMA GenderIVs ==
  ASSUME NEW ratio \in Ratios, NEW gender \in Genders,
         ratio \notin {"none", IF gender = "MALE" THEN "female" ELSE "male"}
  PROVE  LET attack == IF gender = "MALE" THEN 15 ELSE FemaleAttack(ratio)
         IN  attack \in 0..15 /\ GenderOf(ratio, attack) = gender
BY DEF Ratios, Genders, FemaleAttack, GenderOf, FemaleBelow

LEMMA IVStep ==
  ASSUME IInv,
         \/ \E input \in IVInputs : SetIV(input[1], input[2])
         \/ \E gender \in Genders : SetGender(gender)
         \/ \E value \in BOOLEAN : SetShininess(value)
  PROVE  IInv'
<1>0. pc.iv \in IVs /\ "ATTACK" \in GBStats /\ species.ratio \in Ratios
  BY SpeciesAssumption DEF IInv, PCType, GBStats, Stored
<1>1. ASSUME NEW stat \in GBStats, NEW value \in 0..15, SetIV(stat, value) PROVE IInv'
  BY <1>0, <1>1, WithIVType, ChangedFormIsRead DEF SetIV
<1>2. CASE \E input \in IVInputs : SetIV(input[1], input[2])
  BY <1>1, <1>2, ValuesAssumption
<1>3. CASE \E gender \in Genders : SetGender(gender)
  BY <1>0, <1>1, <1>3, GenderIVs DEF SetGender
<1>4. CASE \E value \in BOOLEAN : SetShininess(value)
  <2>1. ShinyIVs \in IVs
    BY DEF ShinyIVs, IVs, Stored
  <2>2. WithIV(pc.iv, "ATTACK", 13) \in IVs
    BY <1>0, WithIVType
  <2>3. PICK value \in BOOLEAN : SetShininess(value)
    BY <1>4
  <2>4. ChangeIVs(ShinyIVs) \/ ChangeIVs(WithIV(pc.iv, "ATTACK", 13))
    BY <2>3 DEF SetShininess
  <2> QED
    BY <2>1, <2>2, <2>4, ChangedFormIsRead
<1> QED
  BY <1>2, <1>3, <1>4

LEMMA FormStep ==
  ASSUME IInv, NEW form \in Forms, SetForm(form)
  PROVE  IInv'
<1> DEFINE iv == IVsOfForm(pc.iv, form)
<1>1. form \in 0..25 /\ iv \in IVs /\ FormOf(UnpackedIVs(iv)) = form
  BY FormIsKept, GBPokemonAssumption DEF IInv, PCType
<1>2. pc' = [pc EXCEPT !.iv = iv] /\ pc'.iv = iv
  BY DEF SetForm, Repopulate, IInv, PCType
<1>3. party' = PartyData(gen, pc', party.condition) /\ UNCHANGED <<species, gen>> /\ species.unown
  BY DEF SetForm, Repopulate
<1>4. cache' = [cache EXCEPT !.IVs = UnpackedIVs(pc'.iv), !.stats = PartyData(gen, pc', "").stats,
                             !.form = form]
  <2>1. cache' = [cache EXCEPT !.IVs = UnpackedIVs(pc'.iv), !.form = form, !.stats = PartyData(gen, pc', "").stats]
    BY DEF SetForm, Repopulate
  <2> QED
    BY <2>1 DEF IInv, CacheType
<1> QED
  BY <1>1, <1>2, <1>3, <1>4, ChangeIVsInv

(* EVs, level and experience. *)
LEMMA StatsReadInv ==
  ASSUME IInv, pc' \in PCType, pc'.iv = pc.iv, pc'.moves = pc.moves, pc'.pps = pc.pps,
         pc'.level \in {LevelAt(pc'.exp), 0},
         party' = PartyData(gen, pc', party.condition),
         cache' = [cache EXCEPT !.stats = PartyData(gen, pc', "").stats, !.EVs = pc'.ev],
         UNCHANGED <<species, gen>>
  PROVE  IInv'
<1>1. party' \in PartyType /\ LevelsAreRight'
  BY MadeAnew DEF IInv
<1>2. /\ cache' \in CacheType
      /\ cache'.IVs = cache.IVs /\ cache'.stats = party'.stats /\ cache'.form = cache.form
      /\ cache'.EVs = pc'.ev /\ cache'.moves = cache.moves
  <2>1. PartyData(gen, pc', "").stats = party'.stats
    BY StatsAreOfTheGame
  <2>2. cache' = [cache EXCEPT !.stats = party'.stats, !.EVs = pc'.ev]
    BY <2>1
  <2>3. party'.stats \in [CommonStats -> Nat] /\ pc'.ev \in [GBStats -> EVValues]
    BY <1>1 DEF PartyType, PCType
  <2> QED
    BY <2>2, <2>3 DEF IInv, CacheType
<1>3. ViewsAgree'
  <2>1. /\ pc'.iv = pc.iv /\ pc'.moves = pc.moves /\ pc'.pps = pc.pps /\ species' = species
        /\ party'.stats = cache'.stats
    BY <1>2
  <2>2. ViewsAgree
    BY DEF IInv
  <2> QED
    BY <1>2, <2>1, <2>2 DEF ViewsAgree
<1> QED
  BY <1>1, <1>2, <1>3 DEF IInv

LEMMA EVStep ==
  ASSUME IInv, NEW stat \in GBStats, NEW value \in EVValues, SetEV(stat, value)
  PROVE  IInv'
<1>1. pc' = [pc EXCEPT !.ev[stat] = value]
  BY DEF SetEV, Repopulate
<1>2. pc' \in PCType
  <2>1. PICK ev \in [GBStats -> EVValues] : ev = [pc.ev EXCEPT ![stat] = value]
    BY DEF IInv, PCType
  <2>2. pc \in PCType
    BY DEF IInv
  <2>3. pc' = [pc EXCEPT !.ev = ev]
    BY <1>1, <2>1, <2>2 DEF PCType
  <2> QED
    BY <2>2, <2>3 DEF PCType
<1>3. pc'.iv = pc.iv /\ pc'.moves = pc.moves /\ pc'.pps = pc.pps /\ pc'.level = pc.level /\ pc'.exp = pc.exp
  BY <1>1 DEF IInv, PCType
<1>4. pc'.level \in {LevelAt(pc'.exp), 0}
  BY <1>3 DEF IInv, LevelsAreRight
<1>5. party' = PartyData(gen, pc', party.condition) /\ UNCHANGED <<species, gen>>
  BY DEF SetEV, Repopulate
<1>6. cache' = [cache EXCEPT !.stats = PartyData(gen, pc', "").stats, !.EVs = pc'.ev]
  BY <1>1 DEF SetEV, Repopulate, ReadStats, IInv, CacheType
<1> QED
  BY <1>2, <1>3, <1>4, <1>5, <1>6, StatsReadInv

LEMMA ExpType ==
  ASSUME NEW old \in PCType, NEW level \in 0..100, NEW experience \in Earned, NEW data,
         data = [old EXCEPT !.level = level, !.exp = experience]
  PROVE  data \in PCType
BY DEF PCType, Earned

LEMMA ExpInv ==
  ASSUME IInv, NEW experience \in Earned, NEW data,
         data = [pc EXCEPT !.level = LevelAt(experience), !.exp = experience],
         Repopulate(data), cache' = ReadStats(data), UNCHANGED <<species, gen>>
  PROVE  IInv'
<1>1. /\ data \in PCType
      /\ data.iv = pc.iv /\ data.moves = pc.moves /\ data.pps = pc.pps /\ data.ev = pc.ev
      /\ data.level = LevelAt(experience) /\ data.exp = experience
  <2>1. PICK old \in PCType : old = pc
    BY DEF IInv
  <2>2. PICK level \in 0..100 : level = LevelAt(experience)
    BY LevelAtIsALevel DEF Earned
  <2>3. data = [old EXCEPT !.level = level, !.exp = experience]
    BY <2>1, <2>2
  <2>4. data \in PCType
    BY <2>3, ExpType
  <2>5. /\ data.iv = old.iv /\ data.moves = old.moves /\ data.pps = old.pps /\ data.ev = old.ev
        /\ data.level = level /\ data.exp = experience
    BY <2>3 DEF PCType
  <2> QED
    BY <2>1, <2>2, <2>4, <2>5
<1>2. pc' = data /\ party' = PartyData(gen, pc', party.condition)
  BY DEF Repopulate
<1>3. cache' = [cache EXCEPT !.stats = PartyData(gen, pc', "").stats, !.EVs = pc'.ev]
  <2>1. cache' = [cache EXCEPT !.stats = PartyData(gen, pc', "").stats]
    BY <1>2 DEF ReadStats
  <2>2. pc'.ev = cache.EVs
    BY <1>1, <1>2 DEF IInv, ViewsAgree
  <2> QED
    BY <2>1, <2>2 DEF IInv, CacheType
<1> QED
  BY <1>1, <1>2, <1>3, StatsReadInv

LEMMA LevelStep ==
  ASSUME IInv,
         \/ \E level \in DOMAIN ExpAt : SetLevel(level)
         \/ \E experience \in Experiences : SetExperience(experience)
  PROVE  IInv'
<1>1. CASE \E level \in DOMAIN ExpAt : SetLevel(level)
  <2>1. PICK level \in DOMAIN ExpAt : SetLevel(level)
    BY <1>1
  <2>2. PICK experience \in Earned : experience = ExpAt[level] /\ LevelAt(experience) = level
    BY LevelAtOfALevel DEF Earned
  <2>3. PICK data : data = [pc EXCEPT !.level = level, !.exp = ExpAt[level]]
    OBVIOUS
  <2>4. Repopulate(data) /\ cache' = ReadStats(data) /\ UNCHANGED <<species, gen>>
    BY <2>1, <2>3 DEF SetLevel
  <2> QED
    BY <2>2, <2>3, <2>4, ExpInv
<1>2. CASE \E experience \in Experiences : SetExperience(experience)
  <2>1. PICK experience \in Experiences : SetExperience(experience)
    BY <1>2
  <2>2. experience \in Earned
    BY GBPokemonAssumption DEF Earned
  <2>3. PICK data : data = [pc EXCEPT !.level = LevelAt(experience), !.exp = experience]
    OBVIOUS
  <2>4. Repopulate(data) /\ cache' = ReadStats(data) /\ UNCHANGED <<species, gen>>
    BY <2>1, <2>3 DEF SetExperience
  <2> QED
    BY <2>2, <2>3, <2>4, ExpInv
<1> QED
  BY <1>1, <1>2

(* What has nothing to do with level and stats. *)
LEMMA OneStory ==
  ASSUME LevelsAreRight, gen' = gen, pc'.iv = pc.iv, pc'.ev = pc.ev, pc'.exp = pc.exp, pc'.level = pc.level,
         party'.level = party.level, party'.stats = party.stats, party'.hp \in 0..party'.stats.HP
  PROVE  LevelsAreRight'
<1>1. \A level : StatsAt(level, pc') = StatsAt(level, pc)
  BY DEF StatsAt
<1>2. Level' = Level
  BY DEF Level
<1> QED
  BY <1>1, <1>2 DEF LevelsAreRight

LEMMA PartStep ==
  ASSUME IInv,
         \/ \E condition \in Conditions : SetCondition(condition)
         \/ \E hp \in {0, party.stats.HP} : SetCurrentHP(hp)
         \/ \E egg \in BOOLEAN : SetIsEgg(egg)
  PROVE  IInv'
<1>1. CASE \E condition \in Conditions : SetCondition(condition)
  <2>1. PICK condition \in Conditions : SetCondition(condition)
    BY <1>1
  <2>2. /\ party' \in PartyType /\ party'.level = party.level /\ party'.stats = party.stats
        /\ party'.hp = party.hp
    BY <2>1 DEF SetCondition, IInv, PartyType, AllConditions
  <2>3. LevelsAreRight'
    BY <2>1, <2>2, OneStory DEF IInv, LevelsAreRight, SetCondition
  <2> QED
    BY <2>1, <2>2, <2>3 DEF IInv, SetCondition, ViewsAgree
<1>2. CASE \E hp \in {0, party.stats.HP} : SetCurrentHP(hp)
  <2>1. PICK hp \in {0, party.stats.HP} : SetCurrentHP(hp)
    BY <1>2
  <2>2. party.stats.HP \in Nat /\ cache.stats = party.stats
    BY DEF IInv, PartyType, CommonStats, ViewsAgree
  <2>3. /\ party' \in PartyType /\ party'.level = party.level /\ party'.stats = party.stats
        /\ party'.hp = hp /\ hp \in 0..party.stats.HP
    BY <2>1, <2>2 DEF SetCurrentHP, IInv, PartyType
  <2>4. LevelsAreRight'
    BY <2>1, <2>3, OneStory DEF IInv, SetCurrentHP
  <2> QED
    BY <2>1, <2>3, <2>4 DEF IInv, SetCurrentHP, ViewsAgree
<1>3. CASE \E egg \in BOOLEAN : SetIsEgg(egg)
  <2>1. PICK egg \in BOOLEAN : SetIsEgg(egg)
    BY <1>3
  <2>2. /\ cache' \in CacheType
        /\ cache'.IVs = cache.IVs /\ cache'.EVs = cache.EVs /\ cache'.stats = cache.stats
        /\ cache'.moves = cache.moves /\ cache'.form = cache.form
    BY <2>1 DEF SetIsEgg, IInv, CacheType
  <2>3. LevelsAreRight' /\ ViewsAgree'
    BY <2>1, <2>2 DEF IInv, SetIsEgg, ViewsAgree, LevelsAreRight, Level
  <2> QED
    BY <2>1, <2>2, <2>3 DEF IInv, SetIsEgg
<1> QED
  BY <1>1, <1>2, <1>3

-----------------------------------------------------------------------------
(* Moves and PP.  With all PP Ups a move has 64 PP at most.                *)
LEMMA PPType ==
  ASSUME NEW move \in KnownMoves, NEW ups \in 0..3
  PROVE  PPWith(move, ups) \in 0..64 /\ PPWith(move, 0) \in 0..40
<1>1. CASE move = NoMove
  BY <1>1 DEF PPWith
<1>2. CASE move # NoMove
  <2>1. PICK pp \in 1..40 : pp = BasePP[move]
    BY <1>2, GBPokemonAssumption DEF KnownMoves
  <2>2. pp \div 5 \in 0..8
    BY <2>1
  <2>3. PICK part \in 0..8 : part = pp \div 5
    BY <2>2
  <2>4. PICK more \in 0..24 : more = ups * part
    <3>1. ups \in {0, 1, 2, 3}
      OBVIOUS
    <3>2. ups * part \in 0..24
      BY <3>1
    <3> QED
      BY <3>2
  <2>5. PPWith(move, ups) = pp + more /\ PPWith(move, 0) = pp + 0
    BY <1>2, <2>1, <2>3, <2>4 DEF PPWith
  <2> QED
    BY <2>1, <2>4, <2>5
<1> QED
  BY <1>1, <1>2

(* Six bits hold every PP but 64. *)
LEMMA ByteHoldsPP ==
  ASSUME NEW pp \in 0..64, NEW ups \in 0..3
  PROVE  PPByte(pp, ups) \in 0..255 /\ (pp # 64 => PPByte(pp, ups) % 64 = pp)
<1> DEFINE up == IF pp >= 64 /\ ups % 2 = 0 THEN ups + 1 ELSE ups
<1>1. up \in 0..3
  OBVIOUS
<1>2. pp % 64 \in 0..63 /\ (pp # 64 => pp % 64 = pp)
  OBVIOUS
<1>3. PPByte(pp, ups) = (pp % 64) + 64 * up
  BY DEF PPByte
<1> HIDE DEF up
<1> QED
  BY <1>1, <1>2, <1>3

Slotted == [0..3 -> [move : KnownMoves, pp : 0..64]]

LEMMA MoveInv ==
  ASSUME IInv, NEW slots \in Slotted, pc' \in PCType,
         \A i \in 0..3 :
           \/ slots[i] = cache.moves[i] /\ pc'.moves[i] = pc.moves[i] /\ pc'.pps[i] = pc.pps[i]
           \/ /\ slots[i].move = pc'.moves[i]
              /\ slots[i].pp # 64 => pc'.pps[i] % 64 = slots[i].pp,
         pc'.iv = pc.iv, pc'.ev = pc.ev, pc'.exp = pc.exp, pc'.level = pc.level,
         cache' = [cache EXCEPT !.moves = slots],
         UNCHANGED <<species, gen, party>>
  PROVE  IInv'
<1>1. /\ cache' \in CacheType
      /\ cache'.IVs = cache.IVs /\ cache'.EVs = cache.EVs /\ cache'.stats = cache.stats
      /\ cache'.form = cache.form /\ cache'.moves = slots
  BY DEF IInv, CacheType, Slotted
<1>2. LevelsAreRight'
  BY OneStory DEF IInv, LevelsAreRight
<1>3. ASSUME NEW i \in 0..3
      PROVE  /\ cache'.moves[i].move = pc'.moves[i]
             /\ cache'.moves[i].pp # 64 => cache'.moves[i].pp = pc'.pps[i] % 64
  BY <1>1 DEF IInv, ViewsAgree
<1>4. ViewsAgree'
  <2>1. ViewsAgree
    BY DEF IInv
  <2>2. pc'.iv = pc.iv /\ pc'.ev = pc.ev /\ party' = party /\ species' = species
    OBVIOUS
  <2> QED
    BY <1>1, <1>3, <2>1, <2>2 DEF ViewsAgree
<1> QED
  BY <1>1, <1>2, <1>4 DEF IInv

LEMMA MoveType ==
  ASSUME NEW old \in PCType, NEW moves \in [0..3 -> KnownMoves], NEW pps \in [0..3 -> 0..255], NEW data,
         data = [old EXCEPT !.moves = moves, !.pps = pps]
  PROVE  data \in PCType
BY DEF PCType

LEMMA MoveStep ==
  ASSUME IInv, NEW slot \in Slots, NEW move \in Taught \cup {NoMove}, SetMove(slot, move)
  PROVE  IInv'
<1>1. slot \in 0..3 /\ move \in KnownMoves
  BY GBPokemonAssumption DEF KnownMoves
<1>2. PICK pp \in 0..40 : pp = PPWith(move, 0)
  BY <1>1, PPType
<1>3. pp \in 0..64 /\ pp \in 0..255 /\ pp % 64 = pp
  OBVIOUS
<1>4. PICK moves \in [0..3 -> KnownMoves] : moves = [pc.moves EXCEPT ![slot] = move]
  BY <1>1 DEF IInv, PCType
<1>5. PICK pps \in [0..3 -> 0..255] : pps = [pc.pps EXCEPT ![slot] = pp]
  BY <1>1, <1>3 DEF IInv, PCType
<1>6. PICK old \in PCType : old = pc
  BY DEF IInv
<1>7. pc' = [old EXCEPT !.moves = moves, !.pps = pps]
  <2>1. pc' = [pc EXCEPT !.moves[slot] = move, !.pps[slot] = pp]
    BY <1>2 DEF SetMove
  <2> QED
    BY <1>4, <1>5, <1>6, <2>1 DEF PCType
<1>8. pc' \in PCType
  BY <1>7, MoveType
<1>9. /\ pc'.iv = pc.iv /\ pc'.ev = pc.ev /\ pc'.exp = pc.exp /\ pc'.level = pc.level
      /\ pc'.moves = moves /\ pc'.pps = pps
  BY <1>6, <1>7 DEF PCType
<1>10. PICK slots \in Slotted : slots = [cache.moves EXCEPT ![slot] = [move |-> move, pp |-> pp]]
  BY <1>1, <1>3 DEF IInv, CacheType, Slotted
<1>11. cache' = [cache EXCEPT !.moves = slots]
  BY <1>2, <1>10 DEF SetMove
<1>12. \A i \in 0..3 :
         \/ slots[i] = cache.moves[i] /\ pc'.moves[i] = pc.moves[i] /\ pc'.pps[i] = pc.pps[i]
         \/ /\ slots[i].move = pc'.moves[i]
            /\ slots[i].pp # 64 => pc'.pps[i] % 64 = slots[i].pp
  <2>1. SUFFICES ASSUME NEW i \in 0..3
                 PROVE  \/ slots[i] = cache.moves[i] /\ moves[i] = pc.moves[i] /\ pps[i] = pc.pps[i]
                        \/ slots[i].move = moves[i] /\ pps[i] % 64 = slots[i].pp
    BY <1>9
  <2>2. CASE i = slot
    <3>1. slots[i] = [move |-> move, pp |-> pp] /\ moves[i] = move /\ pps[i] = pp
      BY <1>4, <1>5, <1>10, <2>2 DEF IInv, CacheType, PCType
    <3> QED
      BY <1>3, <3>1
  <2>3. CASE i # slot
    BY <1>4, <1>5, <1>10, <2>3 DEF IInv, CacheType, PCType
  <2> QED
    BY <2>2, <2>3
<1>13. UNCHANGED <<species, gen, party>>
  BY DEF SetMove
<1> QED
  BY <1>8, <1>9, <1>11, <1>12, <1>13, MoveInv

(* There are PP Ups enough for every PP that is let through. *)
LEMMA UpsAreThere ==
  ASSUME NEW move \in KnownMoves, NEW pp \in 0..PPWith(move, 3)
  PROVE  pp \in 0..64 /\ Min({n \in NumPPUps : pp <= PPWith(move, n)}) \in 0..3
<1> DEFINE enough == {n \in NumPPUps : pp <= PPWith(move, n)}
<1>1. 3 \in 0..3 /\ PPWith(move, 3) \in 0..64
  BY PPType
<1>2. pp \in 0..64 /\ pp <= PPWith(move, 3)
  BY <1>1
<1>3. enough \in SUBSET Nat /\ 3 \in enough /\ \A n \in enough : n \in 0..3
  BY <1>2 DEF NumPPUps
<1> HIDE DEF enough
<1>4. \E n \in enough : \A m \in enough : n <= m
  BY <1>3, LeastNatural
<1>5. Min(enough) \in enough
  BY <1>4 DEF Min
<1> QED
  BY <1>2, <1>3, <1>5 DEF enough

LEMMA PPStep ==
  ASSUME IInv, NEW slot \in Slots, NEW pp, SetMovePP(slot, pp)
  PROVE  IInv'
<1>1. slot \in 0..3
  BY GBPokemonAssumption
<1>2. PICK move \in KnownMoves : move = cache.moves[slot].move
  BY <1>1 DEF IInv, CacheType
<1>3. pp \in 0..PPWith(move, 3)
  BY <1>2 DEF SetMovePP
<1>4. pp \in 0..64
  BY <1>3, UpsAreThere
<1>5. PICK ups \in 0..3 : ups = Min({n \in NumPPUps : pp <= PPWith(move, n)})
  BY <1>3, UpsAreThere
<1>6. PICK byte \in 0..255 : byte = PPByte(pp, ups)
  BY <1>4, ByteHoldsPP
<1>7. pp # 64 => byte % 64 = pp
  BY <1>4, <1>6, ByteHoldsPP
<1>8. PICK pps \in [0..3 -> 0..255] : pps = [pc.pps EXCEPT ![slot] = byte]
  BY <1>1 DEF IInv, PCType
<1>9. PICK old \in PCType : old = pc
  BY DEF IInv
<1>10. pc' = [old EXCEPT !.pps = pps]
  <2>1. pc' = [pc EXCEPT !.pps[slot] = byte]
    BY <1>2, <1>5, <1>6 DEF SetMovePP
  <2> QED
    BY <1>8, <1>9, <2>1 DEF PCType
<1>11. /\ pc' \in PCType
       /\ pc'.iv = pc.iv /\ pc'.ev = pc.ev /\ pc'.exp = pc.exp /\ pc'.level = pc.level
       /\ pc'.moves = pc.moves /\ pc'.pps = pps
  BY <1>9, <1>10 DEF PCType
<1>12. PICK slots \in Slotted : slots = [cache.moves EXCEPT ![slot] = [move |-> move, pp |-> pp]]
  BY <1>1, <1>4 DEF IInv, CacheType, Slotted
<1>13. cache' = [cache EXCEPT !.moves = slots]
  <2>1. PICK known \in Slotted : known = cache.moves
    BY DEF IInv, CacheType, Slotted
  <2>2. [known EXCEPT ![slot].pp = pp] = [known EXCEPT ![slot] = [move |-> move, pp |-> pp]]
    BY <1>1, <1>2, <2>1 DEF Slotted
  <2>3. cache' = [cache EXCEPT !.moves[slot].pp = pp]
    BY DEF SetMovePP
  <2>4. cache' = [cache EXCEPT !.moves = [known EXCEPT ![slot].pp = pp]]
    BY <2>1, <2>3 DEF IInv, CacheType
  <2> QED
    BY <1>12, <2>1, <2>2, <2>4
<1>14. \A i \in 0..3 :
         \/ slots[i] = cache.moves[i] /\ pc'.moves[i] = pc.moves[i] /\ pc'.pps[i] = pc.pps[i]
         \/ /\ slots[i].move = pc'.moves[i]
            /\ slots[i].pp # 64 => pc'.pps[i] % 64 = slots[i].pp
  <2>1. SUFFICES ASSUME NEW i \in 0..3
                 PROVE  \/ slots[i] = cache.moves[i] /\ pps[i] = pc.pps[i]
                        \/ slots[i].move = pc.moves[i] /\ (slots[i].pp # 64 => pps[i] % 64 = slots[i].pp)
    BY <1>11
  <2>2. CASE i = slot
    <3>1. slots[i] = [move |-> move, pp |-> pp] /\ pps[i] = byte
      BY <1>8, <1>12, <2>2 DEF IInv, CacheType, PCType
    <3>2. pc.moves[i] = move
      BY <1>2, <2>2 DEF IInv, ViewsAgree
    <3> QED
      BY <1>7, <3>1, <3>2
  <2>3. CASE i # slot
    BY <1>8, <1>12, <2>3 DEF IInv, CacheType, PCType
  <2> QED
    BY <2>2, <2>3
<1>15. UNCHANGED <<species, gen, party>>
  BY DEF SetMovePP
<1> QED
  BY <1>11, <1>13, <1>14, <1>15, MoveInv

-----------------------------------------------------------------------------
(* A new object over a structure, of whichever game, agrees with it.       *)
LEMMA MadeAgrees ==
  ASSUME IInv, NEW g \in 1..2, g = 1 => species.inGen1,
         cache' = CacheOf(species, g, pc', party'), species' = species
  PROVE  ViewsAgree'
<1>1. /\ cache'.IVs = UnpackedIVs(pc'.iv) /\ cache'.EVs = pc'.ev /\ cache'.stats = party'.stats
      /\ cache'.moves = SlotsOf(pc')
      /\ cache'.form = IF species.unown /\ g = 2 THEN FormOf(UnpackedIVs(pc'.iv)) ELSE NoForm
  BY DEF CacheOf
<1>2. species.unown => g = 2
  BY SpeciesAssumption DEF IInv
<1>3. \A i \in 0..3 : SlotsOf(pc')[i].move = pc'.moves[i] /\ SlotsOf(pc')[i].pp = pc'.pps[i] % 64
  BY DEF SlotsOf
<1> QED
  BY <1>1, <1>2, <1>3 DEF ViewsAgree

(* A trade from generation to generation, and one within a generation.     *)
LEMMA ToGameTypes ==
  ASSUME IInv, NEW g \in 1..2, ToGame(g)
  PROVE  /\ gen' = g /\ species' = species
         /\ pc' \in PCType /\ party' \in PartyType
         /\ pc'.iv = pc.iv /\ pc'.ev = pc.ev /\ pc'.exp = pc.exp
         /\ pc'.level = IF gen = 2 /\ g = 1 THEN 0 ELSE pc.level
         /\ party'.level = IF gen = 2 /\ g = 1 THEN pc.level ELSE party.level
         /\ party'.stats = party.stats /\ party'.hp = party.hp /\ party'.condition = party.condition
<1>1. gen' = g /\ species' = species
  BY DEF ToGame
<1>2. PICK old \in PCType : old = pc
  BY DEF IInv
<1>3. PICK other \in PartyType : other = party
  BY DEF IInv
<1>4. CASE gen = 2 /\ g = 1
  <2>1. pc' = [old EXCEPT !.level = 0, !.levelMet = 0]
    BY <1>2, <1>4 DEF ToGame, Converted
  <2>2. pc' \in PCType /\ pc'.iv = old.iv /\ pc'.ev = old.ev /\ pc'.exp = old.exp /\ pc'.level = 0
    <3>1. 0 \in 0..MaxLevelMet /\ 0 \in 0..100
      BY DEF MaxLevelMet
    <3>2. pc' \in PCType
      BY <2>1, <3>1 DEF PCType
    <3>3. pc'.iv = old.iv /\ pc'.ev = old.ev /\ pc'.exp = old.exp /\ pc'.level = 0
      BY <2>1 DEF PCType
    <3> QED
      BY <3>2, <3>3
  <2>3. party' = [other EXCEPT !.level = old.level]
    BY <1>2, <1>3, <1>4 DEF ToGame, ConvertedParty
  <2>4. old.level \in 0..100
    BY DEF PCType
  <2>5. /\ party' \in PartyType /\ party'.level = old.level
        /\ party'.stats = other.stats /\ party'.hp = other.hp /\ party'.condition = other.condition
    BY <2>3, <2>4 DEF PartyType
  <2> QED
    BY <1>1, <1>2, <1>3, <1>4, <2>2, <2>5
<1>5. CASE ~(gen = 2 /\ g = 1)
  <2>1. gen = g \/ (gen = 1 /\ g = 2)
    BY <1>5 DEF IInv
  <2>2. party' = other
    <3>1. [other EXCEPT !.level = other.level] = other
      BY DEF PartyType
    <3> QED
      BY <1>3, <2>1, <3>1 DEF ToGame, ConvertedParty
  <2>3. Converted(g) = old
    BY <1>2, <1>5 DEF Converted
  <2>4. CASE g = 2
    <3>1. PICK met \in 0..MaxLevelMet : met = Smaller(MaxLevelMet, Level)
      <4>1. Level \in 0..100
        BY DEF IInv, Level, PCType, PartyType
      <4> QED
        BY <4>1 DEF Smaller, MaxLevelMet
    <3>2. pc' = [old EXCEPT !.levelMet = met]
      BY <2>3, <2>4, <3>1 DEF ToGame
    <3>3. pc' \in PCType /\ pc'.iv = old.iv /\ pc'.ev = old.ev /\ pc'.exp = old.exp /\ pc'.level = old.level
      BY <3>2 DEF PCType
    <3> QED
      BY <1>1, <1>2, <1>3, <2>2, <2>4, <3>3
  <2>5. CASE g # 2
    BY <1>1, <1>2, <1>3, <1>5, <2>2, <2>3, <2>5 DEF ToGame
  <2> QED
    BY <2>4, <2>5
<1> QED
  BY <1>4, <1>5

LEMMA ToGameStep ==
  ASSUME IInv, NEW g \in 1..2, ToGame(g)
  PROVE  IInv'
<1>1. /\ gen' = g /\ species' = species
      /\ pc' \in PCType /\ party' \in PartyType
      /\ pc'.iv = pc.iv /\ pc'.ev = pc.ev /\ pc'.exp = pc.exp
      /\ pc'.level = IF gen = 2 /\ g = 1 THEN 0 ELSE pc.level
      /\ party'.level = IF gen = 2 /\ g = 1 THEN pc.level ELSE party.level
      /\ party'.stats = party.stats /\ party'.hp = party.hp
  BY ToGameTypes
<1>2. (g = 1 => species.inGen1) /\ cache' = CacheOf(species, g, pc', party')
  BY <1>1 DEF ToGame
<1>3. cache' \in CacheType
  <2>1. PICK kind \in Species, data \in PCType, partyData \in PartyType :
          kind = species /\ data = pc' /\ partyData = party'
    BY <1>1 DEF IInv
  <2>2. cache' = CacheOf(kind, g, data, partyData)
    BY <1>2, <2>1
  <2> QED
    BY <2>2, CacheOfType
<1>4. ViewsAgree'
  BY <1>1, <1>2, MadeAgrees
<1>5. LevelsAreRight'
  <2>1. LevelsAreRight /\ gen \in 1..2
    BY DEF IInv
  <2>2. \A level : StatsAt(level, pc') = StatsAt(level, pc)
    BY <1>1 DEF StatsAt
  <2>3. Level' = IF g = 1 THEN party'.level ELSE pc'.level
    BY <1>1 DEF Level
  <2>4. CASE gen = 2 /\ g = 1
    BY <1>1, <2>1, <2>2, <2>3, <2>4 DEF LevelsAreRight, Level
  <2>5. CASE gen = 1 /\ g = 2
    BY <1>1, <2>1, <2>2, <2>3, <2>5 DEF LevelsAreRight, Level
  <2>6. CASE gen = g
    BY <1>1, <2>1, <2>2, <2>3, <2>6 DEF LevelsAreRight, Level
  <2> QED
    BY <2>1, <2>4, <2>5, <2>6
<1> QED
  BY <1>1, <1>2, <1>3, <1>4, <1>5 DEF IInv

LEMMA FromPCStep ==
  ASSUME IInv, FromPC
  PROVE  IInv'
<1>1. UNCHANGED <<species, gen, pc>> /\ gen' \in 1..2 /\ pc' \in PCType
  BY DEF FromPC, IInv
<1>2. pc'.level \in {LevelAt(pc'.exp), 0}
  BY <1>1 DEF IInv, LevelsAreRight
<1>3. party' = PartyData(gen', pc', party.condition) /\ cache' = CacheOf(species, gen, pc', party')
  BY <1>1 DEF FromPC
<1>4. party' \in PartyType /\ LevelsAreRight'
  BY <1>1, <1>2, <1>3, MadeAnew
<1>5. gen \in 1..2 /\ (gen = 1 => species.inGen1)
  BY DEF IInv
<1>6. cache' \in CacheType
  <2>1. PICK kind \in Species, g \in 1..2, data \in PCType, partyData \in PartyType :
          kind = species /\ g = gen /\ data = pc' /\ partyData = party'
    BY <1>1, <1>4 DEF IInv
  <2>2. cache' = CacheOf(kind, g, data, partyData)
    BY <1>3, <2>1
  <2> QED
    BY <2>2, CacheOfType
<1>7. ViewsAgree'
  BY <1>1, <1>3, <1>5, MadeAgrees
<1> QED
  BY <1>1, <1>4, <1>5, <1>6, <1>7 DEF IInv

LEMMA NextIInv == IInv /\ [Next]_vars => IInv'
<1> SUFFICES ASSUME IInv, [Next]_vars PROVE IInv'
  OBVIOUS
<1>1. CASE \/ \E input \in IVInputs : SetIV(input[1], input[2])
           \/ \E gender \in Genders : SetGender(gender)
           \/ \E value \in BOOLEAN : SetShininess(value)
  BY <1>1, IVStep
<1>2. CASE \E form \in Forms : SetForm(form)
  BY <1>2, FormStep
<1>3. CASE \E input \in EVInputs : SetEV(input[1], input[2])
  BY <1>3, EVStep, ValuesAssumption DEF EVValues
<1>4. CASE \/ \E level \in DOMAIN ExpAt : SetLevel(level)
           \/ \E experience \in Experiences : SetExperience(experience)
  BY <1>4, LevelStep
<1>5. CASE \/ \E condition \in Conditions : SetCondition(condition)
           \/ \E hp \in {0, party.stats.HP} : SetCurrentHP(hp)
           \/ \E egg \in BOOLEAN : SetIsEgg(egg)
  BY <1>5, PartStep
<1>6. CASE \E slot \in Slots, move \in Taught \cup {NoMove} : SetMove(slot, move)
  BY <1>6, MoveStep
<1>7. CASE \E slot \in Slots : \E pp \in {0, PPWith(cache.moves[slot].move, 3)} : SetMovePP(slot, pp)
  BY <1>7, PPStep
<1>8. CASE \E g \in 1..2 : ToGame(g)
  BY <1>8, ToGameStep
<1>9. CASE FromPC
  BY <1>9, FromPCStep
<1>10. CASE UNCHANGED vars
  BY <1>10 DEF vars, IInv, ViewsAgree, LevelsAreRight, Level
<1> QED
  BY <1>1, <1>2, <1>3, <1>4, <1>5, <1>6, <1>7, <1>8, <1>9, <1>10 DEF Next

-----------------------------------------------------------------------------
(* New Pokemon.  No move is taken from beyond those that are known.        *)
LearnRow == [level : 1..100, move : Moves]

FirstOf(all, last) ==
  IF last = all THEN IF all > 4 THEN all - 3 ELSE 1 ELSE IF last > 4 THEN last - 4 ELSE 1

LEMMA KnownAreCounted ==
  ASSUME NEW kind \in Species, NEW level
  PROVE  LET learnset == kind.learnset
             last == Cardinality(Known(learnset, level))
         IN  /\ Len(learnset) \in Nat /\ DOMAIN learnset = 1..Len(learnset)
             /\ Cardinality(DOMAIN learnset) = Len(learnset)
             /\ last \in Nat /\ last <= Len(learnset)
             /\ \A i \in DOMAIN learnset : learnset[i] \in LearnRow
<1> DEFINE learnset == kind.learnset
<1>1. learnset \in Seq(LearnRow)
  BY SpeciesAssumption DEF LearnRow
<1> HIDE DEF learnset
<1>2. PICK n \in Nat : n = Len(learnset)
  BY <1>1
<1>3. DOMAIN learnset = 1..n /\ \A i \in DOMAIN learnset : learnset[i] \in LearnRow
  BY <1>1, <1>2
<1>4. IsFiniteSet(1..n) /\ Cardinality(1..n) = n
  BY FS_Interval
<1>5. Known(learnset, level) \in SUBSET (1..n)
  BY <1>3 DEF Known
<1>6. IsFiniteSet(Known(learnset, level)) /\ Cardinality(Known(learnset, level)) <= n
  BY <1>4, <1>5, FS_Subset
<1>7. Cardinality(Known(learnset, level)) \in Nat
  BY <1>6, FS_CardinalityType
<1> QED
  BY <1>2, <1>3, <1>4, <1>6, <1>7 DEF learnset

LEMMA DefaultMovesRead ==
  ASSUME NEW kind \in Species, NEW level
  PROVE  LET learnset == kind.learnset
             last == Cardinality(Known(learnset, level))
             first == FirstOf(Len(learnset), last)
         IN  /\ first \in Nat \ {0}
             /\ \A i \in 0..3 :
                  /\ first + i <= last => /\ first + i \in DOMAIN learnset
                                          /\ DefaultMoves(learnset, level)[i] = learnset[first + i].move
                                          /\ learnset[first + i].move \in Moves
                  /\ first + i > last => DefaultMoves(learnset, level)[i] = NoMove
<1> DEFINE learnset == kind.learnset
<1>1. PICK all \in Nat, last \in Nat :
        /\ last <= all /\ all = Len(learnset) /\ last = Cardinality(Known(learnset, level))
        /\ DOMAIN learnset = 1..all /\ Cardinality(DOMAIN learnset) = all
        /\ \A i \in DOMAIN learnset : learnset[i] \in LearnRow
  <2>1. PICK all : all = Len(learnset)
    OBVIOUS
  <2>2. PICK last : last = Cardinality(Known(learnset, level))
    OBVIOUS
  <2>3. /\ all \in Nat /\ DOMAIN learnset = 1..all /\ Cardinality(DOMAIN learnset) = all
        /\ last \in Nat /\ last <= all /\ \A i \in DOMAIN learnset : learnset[i] \in LearnRow
    BY <2>1, <2>2, KnownAreCounted
  <2> QED
    BY <2>1, <2>2, <2>3
<1> HIDE DEF learnset
<1>2. PICK first \in Nat \ {0} : first = FirstOf(all, last)
  BY DEF FirstOf
<1>3. DefaultMoves(learnset, level) =
        [i \in 0..3 |-> IF first + i <= last THEN learnset[first + i].move ELSE NoMove]
  BY <1>1, <1>2 DEF DefaultMoves, FirstOf
<1>4. ASSUME NEW i \in 0..3
      PROVE  /\ first + i <= last => /\ first + i \in DOMAIN learnset
                                     /\ DefaultMoves(learnset, level)[i] = learnset[first + i].move
                                     /\ learnset[first + i].move \in Moves
             /\ first + i > last => DefaultMoves(learnset, level)[i] = NoMove
  <2>1. first + i <= last => first + i \in 1..all
    BY <1>1
  <2>2. first + i \in 1..all => learnset[first + i].move \in Moves
    BY <1>1 DEF LearnRow
  <2> QED
    BY <1>1, <1>3, <2>1, <2>2
<1> QED
  BY <1>1, <1>2, <1>4 DEF learnset

LEMMA DefaultMovesType ==
  ASSUME NEW kind \in Species, NEW level
  PROVE  DefaultMoves(kind.learnset, level) \in [0..3 -> KnownMoves]
<1> DEFINE moves == DefaultMoves(kind.learnset, level)
<1>1. PICK first \in Nat \ {0}, last \in Nat :
        \A i \in 0..3 :
          /\ first + i <= last => moves[i] \in Moves
          /\ first + i > last => moves[i] = NoMove
  <2>1. Cardinality(Known(kind.learnset, level)) \in Nat
    BY KnownAreCounted
  <2> QED
    BY <2>1, DefaultMovesRead
<1>2. \A i \in 0..3 : first + i <= last \/ first + i > last
  OBVIOUS
<1>3. \A i \in 0..3 : moves[i] \in KnownMoves
  BY <1>1, <1>2 DEF KnownMoves
<1> HIDE DEF moves
<1>4. \E f : moves = [i \in 0..3 |-> f[i]]
  <2>1. PICK f : f = [i \in 0..3 |-> moves[i]]
    OBVIOUS
  <2>2. moves = f
    BY <2>1 DEF moves, DefaultMoves
  <2> QED
    BY <2>1, <2>2
<1> QED
  BY <1>3, <1>4 DEF moves

LEMMA InitIInv == Init => IInv
<1> SUFFICES ASSUME Init PROVE IInv
  OBVIOUS
<1>1. species \in Species /\ gen \in 1..2 /\ (gen = 1 => species.inGen1)
  BY DEF Init
<1>2. PICK level \in DOMAIN ExpAt \ {1} :
        \E iv \in IF species.unown THEN {IVsOfForm(NoIVs, form) : form \in Forms} ELSE FirstIVs :
          pc = NativeAt(species, gen, level, iv)
  BY DEF Init
<1>3. PICK iv \in IVs : pc = NativeAt(species, gen, level, iv)
  <2>1. NoIVs \in IVs
    BY DEF NoIVs, IVs
  <2>2. \A form \in Forms : IVsOfForm(NoIVs, form) \in IVs
    BY <2>1, FormIsKept, GBPokemonAssumption
  <2>3. FirstIVs \subseteq IVs
    BY ValuesAssumption DEF IVs
  <2> QED
    BY <1>2, <2>2, <2>3
<1>4. level \in 1..100 /\ ExpAt[level] \in 0..ExpAt[100] /\ LevelAt(ExpAt[level]) = level
  BY LevelAtOfALevel, GBPokemonAssumption
<1>5. PICK moves \in [0..3 -> KnownMoves] : moves = DefaultMoves(species.learnset, level)
  BY <1>1, DefaultMovesType
<1>6. PICK pps \in [0..3 -> 0..255] : pps = [i \in 0..3 |-> PPWith(moves[i], 0)]
  <2>1. \A i \in 0..3 : PPWith(moves[i], 0) \in 0..255
    <3>1. \A i \in 0..3 : PPWith(moves[i], 0) \in 0..40
      BY PPType
    <3> QED
      BY <3>1
  <2> QED
    BY <2>1
<1>7. PICK ev \in [GBStats -> EVValues] : ev = [s \in GBStats |-> 0]
  BY ExpIsANumber
<1>8. PICK met \in 0..MaxLevelMet : met = IF gen = 2 THEN Smaller(level, MaxLevelMet) ELSE 0
  BY <1>4 DEF Smaller, MaxLevelMet
<1>9. pc = [ iv |-> iv, ev |-> ev, level |-> level, exp |-> ExpAt[level],
             moves |-> moves, pps |-> pps, levelMet |-> met ]
  BY <1>3, <1>5, <1>6, <1>7, <1>8 DEF NativeAt
<1>10. pc \in PCType /\ pc.level = level /\ LevelAt(pc.exp) = level
  <2>1. level \in 0..100
    BY <1>4
  <2> QED
    BY <1>4, <1>9, <2>1 DEF PCType
<1>11. /\ party \in PartyType
       /\ party.level = level /\ party.stats = StatsAt(level, pc)
       /\ party.hp = party.stats.HP /\ party.hp \in Nat
  <2>1. PICK g \in 1..2, data \in PCType, condition \in AllConditions :
          g = gen /\ data = pc /\ condition = NoCondition
    BY <1>1, <1>10 DEF AllConditions
  <2>2. party = PartyData(g, data, condition)
    BY <2>1 DEF Init
  <2> QED
    BY <1>10, <2>1, <2>2, PartyDataType
<1>12. cache = CacheOf(species, gen, pc, party)
  BY DEF Init
<1>13. cache \in CacheType
  <2>1. PICK kind \in Species, g \in 1..2, data \in PCType, partyData \in PartyType :
          kind = species /\ g = gen /\ data = pc /\ partyData = party
    BY <1>1, <1>10, <1>11
  <2> QED
    BY <1>12, <2>1, CacheOfType
<1>14. ViewsAgree
  <2>1. /\ cache.IVs = UnpackedIVs(pc.iv) /\ cache.EVs = pc.ev /\ cache.stats = party.stats
        /\ cache.moves = SlotsOf(pc)
        /\ cache.form = IF species.unown /\ gen = 2 THEN FormOf(UnpackedIVs(pc.iv)) ELSE NoForm
    BY <1>12 DEF CacheOf
  <2>2. species.unown => gen = 2
    BY <1>1, SpeciesAssumption
  <2>3. \A i \in 0..3 : SlotsOf(pc)[i].move = pc.moves[i] /\ SlotsOf(pc)[i].pp = pc.pps[i] % 64
    BY DEF SlotsOf
  <2> QED
    BY <2>1, <2>2, <2>3 DEF ViewsAgree
<1>15. LevelsAreRight
  <2>1. Level = level
    BY <1>10, <1>11 DEF Level
  <2> QED
    BY <1>10, <1>11, <2>1 DEF LevelsAreRight
<1> QED
  BY <1>1, <1>10, <1>11, <1>13, <1>14, <1>15 DEF IInv

-----------------------------------------------------------------------------
(* What follows from views that agree. *)
LEMMA RareOnes == IInv => ShinyOnesAreRare
<1> SUFFICES ASSUME IInv, Shiny
             PROVE  /\ species.ratio = "7/8" => Gender = "MALE"
                    /\ species.unown => cache.form \in {8, 21}
  BY DEF ShinyOnesAreRare
<1>1. /\ gen = 2 /\ cache.IVs.DEFENSE = 10 /\ cache.IVs.SPEED = 10 /\ cache.IVs.SPECIAL = 10
      /\ cache.IVs.ATTACK \in {2, 3, 6, 7, 10, 11, 14, 15}
  BY DEF Shiny, ShinyWith
<1>2. species.ratio = "7/8" => Gender = "MALE"
  BY <1>1 DEF Gender, GenderOf, FemaleBelow
<1>3. FormOf(cache.IVs) \in {8, 21}
  <2>1. MiddleBits(10) = 1 /\ MiddleBits(cache.IVs.ATTACK) \in {1, 3}
    BY <1>1 DEF MiddleBits
  <2>2. \A bits \in {1, 3} : (64 * bits + 16 * 1 + 4 * 1 + 1) \div 10 \in {8, 21}
    OBVIOUS
  <2>3. FormOf(cache.IVs) = (64 * MiddleBits(cache.IVs.ATTACK) + 16 * 1 + 4 * 1 + 1) \div 10
    BY <1>1, <2>1 DEF FormOf
  <2> QED
    BY <2>1, <2>2, <2>3
<1>4. species.unown => cache.form = FormOf(cache.IVs)
  BY DEF IInv, ViewsAgree
<1> QED
  BY <1>2, <1>3, <1>4

(* A learnset in order of level: what is known at a level comes first.     *)
LEMMA KnownComeFirst ==
  ASSUME NEW kind \in Species, NEW level \in Nat
  PROVE  Known(kind.learnset, level) = 1..Cardinality(Known(kind.learnset, level))
<1> DEFINE learnset == kind.learnset
           known == Known(learnset, level)
<1>1. PICK all : all = Len(learnset)
  OBVIOUS
<1>2. /\ all \in Nat /\ DOMAIN learnset = 1..all
      /\ \A i \in 1..all : learnset[i] \in LearnRow
  BY <1>1, KnownAreCounted
<1>3. \A i, j \in 1..all : i < j => learnset[i].level <= learnset[j].level
  BY <1>2, SpeciesAssumption
<1> HIDE DEF learnset
<1>4. \A i \in 1..all : learnset[i].level \in Nat
  <2>1. \A row \in LearnRow : row.level \in Nat
    BY DEF LearnRow
  <2> QED
    BY <1>2, <2>1
<1>5. known = {i \in 1..all : learnset[i].level <= level}
  BY <1>2 DEF Known
<1>6. CASE known = {}
  <2>1. Cardinality(known) = 0
    BY <1>6, FS_EmptySet
  <2> HIDE DEF known
  <2>2. 1..0 = {}
    OBVIOUS
  <2> QED
    BY <1>6, <2>1, <2>2 DEF known, learnset
<1>7. CASE known # {}
  <2>1. known \in SUBSET (0..all)
    BY <1>2, <1>5
  <2>2. PICK last \in known : \A i \in known : last >= i
    BY <1>2, <1>7, <2>1, MaxIsThere
  <2>3. last \in 1..all /\ learnset[last].level <= level
    BY <1>5, <2>2
  <2>4. \A i \in 1..all : i <= last => learnset[i].level <= level
    BY <1>2, <1>3, <1>4, <2>3
  <2>5. known = 1..last
    <3>1. ASSUME NEW i \in known PROVE i \in 1..last
      BY <1>2, <1>5, <2>2, <2>3
    <3>2. ASSUME NEW i \in 1..last PROVE i \in known
      BY <1>2, <1>5, <2>3, <2>4
    <3> QED
      BY <3>1, <3>2
  <2>6. Cardinality(1..last) = last
    BY <1>2, <2>3, FS_Interval
  <2> QED
    BY <2>5, <2>6 DEF learnset
<1> QED
  BY <1>6, <1>7

NothingIsLearnedTwice ==
  \A kind \in Species : \A i, j \in DOMAIN kind.learnset :
    i # j => kind.learnset[i].move # kind.learnset[j].move

LEMMA StartingMoves ==
  ASSUME NothingIsLearnedTwice, NEW kind \in Species, NEW level \in Nat
  PROVE  LET moves == DefaultMoves(kind.learnset, level)
             learned == Known(kind.learnset, level)
             known == {i \in 0..3 : moves[i] # NoMove}
         IN /\ \A i \in known : \E j \in learned : kind.learnset[j].move = moves[i]
            /\ \A i, j \in known : i # j => moves[i] # moves[j]
            /\ Cardinality(known) = Smaller(4, Cardinality(learned))
<1> DEFINE learnset == kind.learnset
           moves == DefaultMoves(learnset, level)
           learned == Known(learnset, level)
           known == {i \in 0..3 : moves[i] # NoMove}
<1>1. PICK all, last : all = Len(learnset) /\ last = Cardinality(learned)
  OBVIOUS
<1>2. all \in Nat /\ last \in Nat /\ last <= all /\ learned = 1..last
  BY <1>1, KnownAreCounted, KnownComeFirst
<1>3. PICK first : first = FirstOf(all, last)
  OBVIOUS
<1>4. /\ first \in Nat \ {0}
      /\ \A i \in 0..3 :
           /\ first + i <= last => /\ first + i \in DOMAIN learnset
                                   /\ moves[i] = learnset[first + i].move
                                   /\ learnset[first + i].move \in Moves
           /\ first + i > last => moves[i] = NoMove
  BY <1>1, <1>3, DefaultMovesRead
<1>5. \A i, j \in DOMAIN learnset : i # j => learnset[i].move # learnset[j].move
  BY DEF NothingIsLearnedTwice
<1> HIDE DEF learnset, moves, learned
<1>6. \A i \in 0..3 : i \in known <=> first + i <= last
  BY <1>2, <1>4, GBPokemonAssumption
<1>7. \A i \in known : \E j \in learned : learnset[j].move = moves[i]
  <2> SUFFICES ASSUME NEW i \in known PROVE \E j \in learned : learnset[j].move = moves[i]
    OBVIOUS
  <2>1. i \in 0..3 /\ first + i <= last
    BY <1>6
  <2>2. first + i \in learned
    BY <1>2, <1>4, <2>1
  <2> QED
    BY <1>4, <2>1, <2>2
<1>8. \A i, j \in known : i # j => moves[i] # moves[j]
  <2> SUFFICES ASSUME NEW i \in known, NEW j \in known, i # j PROVE moves[i] # moves[j]
    OBVIOUS
  <2>1. i \in 0..3 /\ j \in 0..3 /\ first + i <= last /\ first + j <= last
    BY <1>6
  <2>2. first + i # first + j
    BY <1>4, <2>1
  <2> QED
    BY <1>4, <1>5, <2>1, <2>2
<1>9. Cardinality(known) = Smaller(4, last)
  <2>1. PICK count \in Nat : count = Smaller(4, last)
    BY <1>2 DEF Smaller
  <2>2. \A i \in 0..3 : first + i <= last <=> i < count
    BY <1>2, <1>3, <2>1 DEF FirstOf, Smaller
  <2>3. known = 0..(count - 1)
    <3>1. count <= 4
      BY <1>2, <2>1 DEF Smaller
    <3>2. known \subseteq 0..3
      OBVIOUS
    <3> HIDE DEF known
    <3>3. ASSUME NEW i \in known PROVE i \in 0..(count - 1)
      BY <1>6, <2>2, <3>2
    <3>4. ASSUME NEW i \in 0..(count - 1) PROVE i \in known
      BY <1>6, <2>2, <3>1
    <3> QED
      BY <3>3, <3>4
  <2>4. Cardinality(0..(count - 1)) = count
    BY <2>1, FS_Interval
  <2> QED
    BY <2>1, <2>3, <2>4
<1> QED
  BY <1>1, <1>7, <1>8, <1>9 DEF learnset, moves, learned

-----------------------------------------------------------------------------
LEMMA IInvHolds == Spec => []IInv
<1>1. Init => IInv
  BY InitIInv
<1>2. IInv /\ [Next]_vars => IInv'
  BY NextIInv
<1> QED
  BY <1>1, <1>2, PTL DEF Spec

(* The getters of pokemon_gen1impl and pokemon_gen2impl agree with the     *)
(* native structure, and level, experience, stats and HP with each other,  *)
(* after any setters, trades and boxes, whatever the database holds.       *)
THEOREM ViewsTheorem == Spec => [](TypeOK /\ ViewsAgree /\ LevelsAreRight /\ ShinyOnesAreRare)
<1>1. IInv => TypeOK /\ ViewsAgree /\ LevelsAreRight /\ ShinyOnesAreRare
  BY InvariantHasTypes, RareOnes DEF IInv
<1> QED
  BY <1>1, IInvHolds, PTL

(* All of PokemonIsConsistent: beside the views, the moves a new Pokemon   *)
(* starts with are four that it has learned, or all.  That none is known   *)
(* twice needs a learnset that names none twice:                           *)
(* _init_default_moves_for_level() does not look for repeats.              *)
THEOREM ConsistencyTheorem ==
  ASSUME NothingIsLearnedTwice
  PROVE  Spec => []PokemonIsConsistent
<1>1. IInv => PokemonIsConsistent
  <2> SUFFICES ASSUME IInv PROVE PokemonIsConsistent
    OBVIOUS
  <2>1. StartingMovesAreLearned
    <3> SUFFICES ASSUME NEW level \in DOMAIN ExpAt
                 PROVE  LET moves == DefaultMoves(species.learnset, level)
                            learned == Known(species.learnset, level)
                            known == {i \in 0..3 : moves[i] # NoMove}
                        IN /\ \A i \in known : \E j \in learned : species.learnset[j].move = moves[i]
                           /\ \A i, j \in known : i # j => moves[i] # moves[j]
                           /\ Cardinality(known) = Smaller(4, Cardinality(learned))
      BY DEF StartingMovesAreLearned
    <3>1. level \in Nat
      BY GBPokemonAssumption
    <3>2. PICK kind \in Species : kind = species
      BY DEF IInv
    <3> QED
      BY <3>1, <3>2, StartingMoves
  <2> QED
    BY <2>1, InvariantHasTypes, RareOnes DEF IInv, PokemonIsConsistent
<1> QED
  BY <1>1, IInvHolds, PTL

(* set_gender(), set_shininess() and set_form() reach the trait they are   *)
(* asked for by way of the IVs, which know no other.                       *)
THEOREM SettersTheorem == Spec => SettersDoWhatTheySay
<1>1. IInv => \A gender \in Genders : SetGender(gender) => Gender' = gender
  <2> SUFFICES ASSUME IInv, NEW gender \in Genders, SetGender(gender) PROVE Gender' = gender
    OBVIOUS
  <2>1. PICK attack \in 0..15 :
          /\ attack = IF gender = "MALE" THEN 15 ELSE FemaleAttack(species.ratio)
          /\ GenderOf(species.ratio, attack) = gender
    BY GenderIVs, SpeciesAssumption DEF SetGender, IInv
  <2>2. PICK iv \in IVs : iv = WithIV(pc.iv, "ATTACK", attack) /\ iv.ATTACK = attack
    <3>1. pc.iv \in IVs
      BY DEF IInv, PCType
    <3>2. WithIV(pc.iv, "ATTACK", attack) = [pc.iv EXCEPT !.ATTACK = attack]
      BY DEF WithIV
    <3> QED
      BY <3>1, <3>2 DEF IVs, Stored
  <2>3. ChangeIVs(iv) /\ gen = 2
    BY <2>1, <2>2 DEF SetGender, SetIV
  <2>4. cache'.IVs = UnpackedIVs(iv) /\ gen' = gen /\ species' = species
    BY <2>3 DEF ChangeIVs, ReadIVs, IInv, PCType, CacheType
  <2>5. cache'.IVs.ATTACK = attack
    BY <2>2, <2>4, UnpackedType DEF Stored
  <2> QED
    BY <2>1, <2>3, <2>4, <2>5 DEF Gender
<1>2. IInv => \A value \in BOOLEAN : SetShininess(value) => Shiny' = value
  <2> SUFFICES ASSUME IInv, NEW value \in BOOLEAN, SetShininess(value) PROVE Shiny' = value
    OBVIOUS
  <2>1. pc.iv \in IVs
    BY DEF IInv, PCType
  <2>2. PICK iv \in IVs :
          /\ iv = IF value THEN ShinyIVs ELSE WithIV(pc.iv, "ATTACK", 13)
          /\ value => iv = ShinyIVs
          /\ ~value => iv.ATTACK = 13
    <3>1. ShinyIVs \in IVs
      BY DEF ShinyIVs, IVs, Stored
    <3>2. WithIV(pc.iv, "ATTACK", 13) = [pc.iv EXCEPT !.ATTACK = 13]
      BY DEF WithIV
    <3> QED
      BY <2>1, <3>1, <3>2 DEF IVs, Stored
  <2>3. ChangeIVs(iv) /\ gen = 2
    BY <2>2 DEF SetShininess
  <2>4. cache'.IVs = UnpackedIVs(iv) /\ gen' = 2
    BY <2>3 DEF ChangeIVs, ReadIVs, IInv, PCType, CacheType
  <2>5. /\ cache'.IVs.ATTACK = iv.ATTACK /\ cache'.IVs.DEFENSE = iv.DEFENSE
        /\ cache'.IVs.SPEED = iv.SPEED /\ cache'.IVs.SPECIAL = iv.SPECIAL
    BY <2>4, UnpackedType DEF Stored
  <2>6. CASE value
    BY <2>2, <2>4, <2>5, <2>6 DEF Shiny, ShinyWith, ShinyIVs
  <2>7. CASE ~value
    BY <2>2, <2>4, <2>5, <2>7 DEF Shiny, ShinyWith
  <2> QED
    BY <2>6, <2>7
<1>3. IInv => \A form \in Forms : SetForm(form) => FormOf(cache'.IVs) = form
  <2> SUFFICES ASSUME IInv, NEW form \in Forms, SetForm(form) PROVE FormOf(cache'.IVs) = form
    OBVIOUS
  <2>1. cache'.IVs = UnpackedIVs(IVsOfForm(pc.iv, form))
    BY DEF SetForm, IInv, PCType, CacheType
  <2>2. FormOf(UnpackedIVs(IVsOfForm(pc.iv, form))) = form
    BY FormIsKept, GBPokemonAssumption DEF IInv, PCType
  <2> QED
    BY <2>1, <2>2
<1> QED
  BY <1>1, <1>2, <1>3, IInvHolds, PTL DEF SettersDoWhatTheySay

(* to_game() keeps IVs, EVs, stats, experience, HP and condition, and      *)
(* within a generation the form.                                           *)
THEOREM TradeTheorem == Spec => TradeKeepsTraits
<1>1. IInv => \A g \in 1..2 : ToGame(g) =>
        /\ cache'.IVs = cache.IVs /\ cache'.EVs = cache.EVs
        /\ cache'.stats = cache.stats
        /\ pc'.exp = pc.exp
        /\ party'.hp = party.hp /\ party'.condition = party.condition
        /\ gen = gen' => cache'.form = cache.form
  <2> SUFFICES ASSUME IInv, NEW g \in 1..2, ToGame(g)
               PROVE  /\ cache'.IVs = cache.IVs /\ cache'.EVs = cache.EVs
                      /\ cache'.stats = cache.stats
                      /\ pc'.exp = pc.exp
                      /\ party'.hp = party.hp /\ party'.condition = party.condition
                      /\ gen = gen' => cache'.form = cache.form
    OBVIOUS
  <2>1. /\ species' = species /\ pc'.iv = pc.iv /\ pc'.ev = pc.ev /\ pc'.exp = pc.exp
        /\ party'.stats = party.stats /\ party'.hp = party.hp /\ party'.condition = party.condition
    BY ToGameTypes
  <2>2. ViewsAgree /\ ViewsAgree'
    BY ToGameStep DEF IInv
  <2> QED
    BY <2>1, <2>2 DEF ViewsAgree
<1> QED
  BY <1>1, IInvHolds, PTL DEF TradeKeepsTraits
=============================================================================
