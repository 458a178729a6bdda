----------------------------- MODULE GBPokemon ------------------------------
(***************************************************************************)
(* One Pokemon of Generation I or II (lib/pokemon_impl.cpp,                *)
(* pokemon_gen1impl.cpp, pokemon_gen2impl.cpp) and its way from game to    *)
(* game (conversions/gb_conversions.cpp).                                  *)
(*                                                                         *)
(* The object holds the game's own structure, in a part that boxes keep    *)
(* too and a part that only a party has, and beside it what its getters    *)
(* return: maps of IVs, EVs and stats, the moves, the form.  In Generation *)
(* II gender, shininess and the letter of an Unown are not stored, they    *)
(* are views of the same IVs, so a setter of one of them moves the others. *)
(* A trade builds a new object from the converted structure.               *)
(*                                                                         *)
(* Names, trainer, Pokerus, friendship and location are in PokemonOrigin.  *)
(* Left out: the Special stats, which a trade between generations cannot   *)
(* keep.                                                                   *)
(***************************************************************************)
EXTENDS Integers, Sequences, FiniteSets, FiniteSetsExt

CONSTANTS
  Species,     \* [ratio, unown, inGen1, learnset]: what the database says
  Moves, NoMove,
  Taught,      \* moves that callers set
  BasePP,      \* of each move
  ExpAt,       \* experience at a level, for the levels that are looked at
  Experiences, \* inputs of set_experience
  BaseStat,    \* the same for every stat and species
  FirstIVs,    \* the IVs a new Pokemon may get
  IVInputs,    \* <<stat, IV>> that callers set
  EVInputs,    \* <<stat, EV>> that callers set
  Forms,       \* of Unown, 0 for A, 25 for Z
  Conditions,
  Slots        \* the move slots that callers change

Stored == {"ATTACK", "DEFENSE", "SPEED", "SPECIAL"}   \* the IVs that have bits of their own
GBStats == Stored \cup {"HP"}
MaxEV == 65535
Ratios == {"none", "male", "female", "7/8", "3/4", "1/2", "1/4"}

ASSUME GBPokemonAssumption ==
  /\ {1, 100} \subseteq DOMAIN ExpAt /\ DOMAIN ExpAt \subseteq 1..100
  /\ ExpAt \in [DOMAIN ExpAt -> Nat] /\ ExpAt[1] = 0
  /\ \A l, m \in DOMAIN ExpAt : l < m => ExpAt[l] < ExpAt[m]
  /\ Experiences \subseteq 0..ExpAt[100]
  /\ Taught \subseteq Moves /\ NoMove \notin Moves /\ BasePP \in [Moves -> 1..40]
  /\ Forms \subseteq 0..25
  /\ Slots \subseteq 0..3

ASSUME ValuesAssumption ==
  /\ BaseStat \in 0..255
  /\ FirstIVs \subseteq [Stored -> 0..15]
  /\ \A input \in IVInputs : input[1] \in GBStats /\ input[2] \in 0..15
  /\ \A input \in EVInputs : input[1] \in GBStats /\ input[2] \in 0..MaxEV

(* Unown came with Generation II.  The query for a learnset orders by      *)
(* level, and that its first move is known is asserted in                  *)
(* _init_default_moves_for_level().                                        *)
ASSUME SpeciesAssumption ==
  \A s \in Species :
    /\ s.ratio \in Ratios /\ s.unown \in BOOLEAN /\ s.inGen1 \in BOOLEAN
    /\ s.learnset \in Seq([level : 1..100, move : Moves])
    /\ \A i, j \in DOMAIN s.learnset : i < j => s.learnset[i].level <= s.learnset[j].level
    /\ 1 \in DOMAIN s.learnset => s.learnset[1].level = 1
    /\ s.inGen1 => ~s.unown

VARIABLES
  species,  \* _database_entry, without the form
  gen,      \* 1 or 2, which class the object is of
  pc,       \* _pksav_pokemon.pc_data
  party,    \* _pksav_pokemon.party_data; current HP and condition, which
            \* Generation I keeps in pc_data, are here for both
  cache     \* _IVs, _EVs, _stats, _moves, the form, _is_egg

vars == <<species, gen, pc, party, cache>>

CommonStats == {"HP", "ATTACK", "DEFENSE", "SPEED"}
NoForm == -1
NoCondition == "NONE"
MaxLevelMet == 63
Genders == {"MALE", "FEMALE"}

-----------------------------------------------------------------------------
(* PKSav: four bits for each of four IVs; that of HP is their last bits.   *)
HPWeight == [ATTACK |-> 8, DEFENSE |-> 4, SPEED |-> 2, SPECIAL |-> 1]

HPIV(iv) == 8 * (iv.ATTACK % 2) + 4 * (iv.DEFENSE % 2) + 2 * (iv.SPEED % 2) + (iv.SPECIAL % 2)

WithIV(iv, stat, value) ==
  IF stat = "HP" THEN [s \in Stored |-> (iv[s] - (iv[s] % 2)) + ((value \div HPWeight[s]) % 2)]
                 ELSE [iv EXCEPT ![stat] = value]

-----------------------------------------------------------------------------
(* What follows from the IVs. *)
FemaleBelow == [r \in {"7/8", "3/4", "1/2", "1/4"} |->
                  CASE r = "7/8" -> 2 [] r = "3/4" -> 4 [] r = "1/2" -> 7 [] r = "1/4" -> 12]

GenderOf(ratio, attack) ==
  CASE ratio = "none"   -> "GENDERLESS"
    [] ratio = "male"   -> "MALE"
    [] ratio = "female" -> "FEMALE"
    [] OTHER            -> IF attack < FemaleBelow[ratio] THEN "FEMALE" ELSE "MALE"

ShinyWith(IVs) ==
  /\ IVs.DEFENSE = 10 /\ IVs.SPEED = 10 /\ IVs.SPECIAL = 10
  /\ IVs.ATTACK \in {2, 3, 6, 7, 10, 11, 14, 15}

(* The letter of an Unown is made of the two bits in the middle of each IV. *)
MiddleBits(value) == (value \div 2) % 4

FormOf(IVs) ==
  (64 * MiddleBits(IVs.ATTACK) + 16 * MiddleBits(IVs.DEFENSE)
     + 4 * MiddleBits(IVs.SPEED) + MiddleBits(IVs.SPECIAL)) \div 10

Smaller(a, b) == IF a < b THEN a ELSE b

FormWeight == [ATTACK |-> 64, DEFENSE |-> 16, SPEED |-> 4, SPECIAL |-> 1]

(* Faulty variant of IVsOfForm: 9 is added after the cut at 255. *)
IVsOfFormUncut(iv, form) ==
  LET number == 10 * form + 9
  IN [s \in Stored |-> iv[s] - 2 * MiddleBits(iv[s]) + 2 * ((number \div FormWeight[s]) % 4)]

IVsOfForm(iv, form) ==
  LET number == Smaller(10 * form + 9, 255)
  IN [s \in Stored |-> iv[s] - 2 * MiddleBits(iv[s]) + 2 * ((number \div FormWeight[s]) % 4)]

-----------------------------------------------------------------------------
(* Level and stats. *)
LevelAt(experience) == Max({l \in DOMAIN ExpAt : ExpAt[l] <= experience})

EVValues == {0} \cup {input[2] : input \in EVInputs}
RootOf == [ev \in EVValues |-> CHOOSE n \in 0..255 : n * n <= ev /\ ev < (n + 1) * (n + 1)]

StatOf(stat, level, ev, iv) ==
  LET common == (((BaseStat + iv) * 2 + (RootOf[ev] \div 4)) * level) \div 100
  IN IF stat = "HP" THEN common + level + 10 ELSE common + 5

UnpackedIVs(iv) == [s \in GBStats |-> IF s = "HP" THEN HPIV(iv) ELSE iv[s]]

StatsAt(level, data) ==
  [s \in CommonStats |-> StatOf(s, level, data.ev[s], UnpackedIVs(data.iv)[s])]

(* Everything a party knows is computed anew and the current HP filled up. *)
(* Generation I keeps the condition elsewhere, Generation II loses it.     *)
PartyData(g, data, condition) ==
  LET level == IF g = 1 THEN LevelAt(data.exp) ELSE data.level
      stats == StatsAt(level, data)
  IN [ level |-> level, stats |-> stats, hp |-> stats.HP,
       condition |-> IF g = 1 THEN condition ELSE NoCondition ]

Level == IF gen = 1 THEN party.level ELSE pc.level

-----------------------------------------------------------------------------
(* Moves.  In the native byte the upper two bits count the PP Ups. *)
NumPPUps == 0..3
PPWith(move, ups) == IF move = NoMove THEN 0 ELSE BasePP[move] + ups * (BasePP[move] \div 5)

PPByte(pp, ups) ==
  (pp % 64) + 64 * (IF pp >= 64 /\ ups % 2 = 0 THEN ups + 1 ELSE ups)

SlotsOf(data) == [i \in 0..3 |-> [move |-> data.moves[i], pp |-> data.pps[i] % 64]]

(* The moves a new Pokemon knows.  The learnset is ordered by level; the   *)
(* four places are filled from a first move on, up to the last one known.  *)
(* That first move is one too early when a move is still to be learned.    *)
Known(learnset, level) == {i \in DOMAIN learnset : learnset[i].level <= level}

(* Faulty variant of DefaultMoves: as many as there are places for. *)
DefaultMovesUnchecked(learnset, level) ==
  [i \in 0..3 |-> IF i + 1 \in DOMAIN learnset THEN learnset[i + 1].move ELSE NoMove]

DefaultMoves(learnset, level) ==
  LET all == Cardinality(DOMAIN learnset)
      last == Cardinality(Known(learnset, level))
      first == IF last = all
               THEN IF all > 4 THEN all - 3 ELSE 1
               ELSE IF last > 4 THEN last - 4 ELSE 1
  IN [i \in 0..3 |-> IF first + i <= last THEN learnset[first + i].move ELSE NoMove]

-----------------------------------------------------------------------------
(* The constructors over a native structure read all of it.  The names and *)
(* the egg mark are not in it.                                             *)
CacheOf(kind, g, data, partyData) ==
  [ IVs |-> UnpackedIVs(data.iv), EVs |-> data.ev, stats |-> partyData.stats,
    moves |-> SlotsOf(data),
    form |-> IF kind.unown /\ g = 2 THEN FormOf(UnpackedIVs(data.iv)) ELSE NoForm,
    egg |-> FALSE ]

NativeAt(kind, g, level, iv) ==
  LET moves == DefaultMoves(kind.learnset, level)
  IN [ iv |-> iv, ev |-> [s \in GBStats |-> 0], level |-> level, exp |-> ExpAt[level],
       moves |-> moves, pps |-> [i \in 0..3 |-> PPWith(moves[i], 0)],
       levelMet |-> IF g = 2 THEN Smaller(level, MaxLevelMet) ELSE 0 ]

NoIVs == [s \in Stored |-> 0]

(* pokemon::make(): of any IVs, but an Unown has those of its form.        *)
Init ==
  /\ species \in Species
  /\ gen \in {g \in 1..2 : g = 1 => species.inGen1}
  /\ \E level \in DOMAIN ExpAt \ {1} :
       \E iv \in IF species.unown THEN {IVsOfForm(NoIVs, form) : form \in Forms} ELSE FirstIVs :
         pc = NativeAt(species, gen, level, iv)
  /\ party = PartyData(gen, pc, NoCondition)
  /\ cache = CacheOf(species, gen, pc, party)

-----------------------------------------------------------------------------
(* What ends most setters: _populate_party_data(). *)
Repopulate(data) ==
  /\ pc' = data
  /\ party' = PartyData(gen, data, party.condition)

(* Faulty variant of ReadIVs: the form stays. *)
ReadIVsOnly(data) ==
  cache' = [cache EXCEPT !.IVs = UnpackedIVs(data.iv), !.stats = PartyData(gen, data, "").stats]

(* _set_gb_IV() and, for an Unown, _set_unown_form_from_IVs() *)
ReadIVs(data) ==
  cache' = [cache EXCEPT !.IVs = UnpackedIVs(data.iv), !.stats = PartyData(gen, data, "").stats,
                         !.form = IF species.unown THEN FormOf(UnpackedIVs(data.iv)) ELSE NoForm]

ChangeIVs(iv) ==
  LET data == [pc EXCEPT !.iv = iv]
  IN Repopulate(data) /\ ReadIVs(data) /\ UNCHANGED <<species, gen>>

SetIV(stat, value) == ChangeIVs(WithIV(pc.iv, stat, value))

(* "Set the IV to the max it can be while still being female" *)
FemaleAttack(ratio) == CASE ratio = "7/8" -> 1 [] ratio = "3/4" -> 3 [] ratio = "1/2" -> 6 [] OTHER -> 11

SetGender(gender) ==
  /\ gen = 2
  /\ species.ratio \notin {"none", IF gender = "MALE" THEN "female" ELSE "male"}
  /\ SetIV("ATTACK", IF gender = "MALE" THEN 15 ELSE FemaleAttack(species.ratio))

ShinyIVs == [ATTACK |-> 15, DEFENSE |-> 10, SPEED |-> 10, SPECIAL |-> 10]

SetShininess(value) ==
  /\ gen = 2
  /\ ChangeIVs(IF value THEN ShinyIVs ELSE WithIV(pc.iv, "ATTACK", 13))

SetForm(form) ==
  /\ gen = 2 /\ species.unown
  /\ LET data == [pc EXCEPT !.iv = IVsOfForm(pc.iv, form)]
     IN /\ Repopulate(data)
        /\ cache' = [cache EXCEPT !.IVs = UnpackedIVs(data.iv), !.form = form,
                                  !.stats = PartyData(gen, data, "").stats]
  /\ UNCHANGED <<species, gen>>

ReadStats(data) == [cache EXCEPT !.stats = PartyData(gen, data, "").stats]

SetEV(stat, value) ==
  LET data == [pc EXCEPT !.ev[stat] = value]
  IN /\ Repopulate(data)
     /\ cache' = [ReadStats(data) EXCEPT !.EVs = data.ev]
     /\ UNCHANGED <<species, gen>>

SetLevel(level) ==
  /\ level >= 2
  /\ LET data == [pc EXCEPT !.level = level, !.exp = ExpAt[level]]
     IN Repopulate(data) /\ cache' = ReadStats(data)
  /\ UNCHANGED <<species, gen>>

(* Level 1 can be reached this way only. *)
SetExperience(experience) ==
  LET data == [pc EXCEPT !.level = LevelAt(experience), !.exp = experience]
  IN Repopulate(data) /\ cache' = ReadStats(data) /\ UNCHANGED <<species, gen>>

SetCondition(condition) ==
  /\ party' = [party EXCEPT !.condition = condition]
  /\ UNCHANGED <<species, gen, pc, cache>>

SetCurrentHP(hp) ==
  /\ hp \in 0..cache.stats.HP
  /\ party' = [party EXCEPT !.hp = hp]
  /\ UNCHANGED <<species, gen, pc, cache>>

SetIsEgg(egg) ==
  /\ gen = 2
  /\ cache' = [cache EXCEPT !.egg = egg]
  /\ UNCHANGED <<species, gen, pc, party>>

SetMove(slot, move) ==
  /\ pc' = [pc EXCEPT !.moves[slot] = move, !.pps[slot] = PPWith(move, 0)]
  /\ cache' = [cache EXCEPT !.moves[slot] = [move |-> move, pp |-> PPWith(move, 0)]]
  /\ UNCHANGED <<species, gen, party>>

(* The fewest PP Ups that allow the PP. *)
SetMovePP(slot, pp) ==
  LET move == cache.moves[slot].move
      ups == Min({n \in NumPPUps : pp <= PPWith(move, n)})
  IN /\ pp \in 0..PPWith(move, 3)
     /\ pc' = [pc EXCEPT !.pps[slot] = PPByte(pp, ups)]
     /\ cache' = [cache EXCEPT !.moves[slot].pp = pp]
     /\ UNCHANGED <<species, gen, party>>

-----------------------------------------------------------------------------
(* From generation to generation.  The box's level is left at 0 on the way *)
(* down, and on the way up that is where the level is taken from.          *)
Converted(g) == IF gen = 2 /\ g = 1 THEN [pc EXCEPT !.level = 0, !.levelMet = 0] ELSE pc

(* Faulty variant of ConvertedParty: a new party part. *)
ConvertedPartyAnew(g) == PartyData(g, Converted(g), party.condition)

ConvertedParty(g) ==
  IF gen = g THEN party ELSE [party EXCEPT !.level = IF g = 1 THEN pc.level ELSE party.level]

(* to_game(), whose result takes this object's place.  Everything that is  *)
(* met in Generation II has a level of 2 at least, or nothing comes of it. *)
ToGame(g) ==
  /\ g = 1 => species.inGen1
  /\ g = 2 => Level >= 2
  /\ gen' = g
  /\ pc' = IF g = 2 THEN [Converted(g) EXCEPT !.levelMet = Smaller(MaxLevelMet, Level)]
                    ELSE Converted(g)
  /\ party' = ConvertedParty(g)
  /\ cache' = CacheOf(species, g, pc', party')
  /\ UNCHANGED species

(* A new object over the boxed part: what taking the Pokemon from a box    *)
(* and reading a file do.                                                  *)
FromPC ==
  /\ party' = PartyData(gen, pc, party.condition)
  /\ cache' = CacheOf(species, gen, pc, party')
  /\ UNCHANGED <<species, gen, pc>>

Next ==
  \/ \E input \in IVInputs : SetIV(input[1], input[2])
  \/ \E gender \in Genders : SetGender(gender)
  \/ \E value \in BOOLEAN : SetShininess(value)
  \/ \E form \in Forms : SetForm(form)
  \/ \E input \in EVInputs : SetEV(input[1], input[2])
  \/ \E level \in DOMAIN ExpAt : SetLevel(level)
  \/ \E experience \in Experiences : SetExperience(experience)
  \/ \E condition \in Conditions : SetCondition(condition)
  \/ \E hp \in {0, party.stats.HP} : SetCurrentHP(hp)
  \/ \E egg \in BOOLEAN : SetIsEgg(egg)
  \/ \E slot \in Slots, move \in Taught \cup {NoMove} : SetMove(slot, move)
  \/ \E slot \in Slots : \E pp \in {0, PPWith(cache.moves[slot].move, 3)} : SetMovePP(slot, pp)
  \/ \E g \in 1..2 : ToGame(g)
  \/ FromPC

Spec == Init /\ [][Next]_vars

-----------------------------------------------------------------------------
Gender == IF gen = 1 THEN "NONE" ELSE GenderOf(species.ratio, cache.IVs.ATTACK)
Shiny == gen = 2 /\ ShinyWith(cache.IVs)

TypeOK ==
  /\ species \in Species /\ gen \in 1..2
  /\ pc.iv \in [Stored -> 0..15] /\ pc.ev \in [GBStats -> EVValues]
  /\ pc.level \in 0..100 /\ pc.exp \in 0..ExpAt[100] /\ pc.levelMet \in 0..MaxLevelMet
  /\ pc.moves \in [0..3 -> Moves \cup {NoMove}] /\ pc.pps \in [0..3 -> 0..255]
  /\ party.condition \in Conditions \cup {NoCondition} /\ party.level \in 0..100
  /\ cache.form \in 0..25 \cup {NoForm} /\ cache.egg \in BOOLEAN

(* What the getters return is what the native structure says, whichever    *)
(* setter was called and however often the Pokemon was traded.  A PP of 64 *)
(* (a move of 40 with three PP Ups) is the exception: six bits hold a 0.   *)
ViewsAgree ==
  /\ cache.IVs = UnpackedIVs(pc.iv)
  /\ cache.EVs = pc.ev
  /\ cache.stats = party.stats
  /\ cache.form = IF species.unown THEN FormOf(UnpackedIVs(pc.iv)) ELSE NoForm
  /\ \A i \in 0..3 :
       /\ cache.moves[i].move = pc.moves[i]
       /\ cache.moves[i].pp # 64 => cache.moves[i].pp = pc.pps[i] % 64

(* Level, experience and stats tell one story, and nobody has more HP than *)
(* there is room for.  A Pokemon that went down to Generation I has no     *)
(* level in its boxed part, and back in Generation II that is its level.   *)
LevelsAreRight ==
  LET earned == LevelAt(pc.exp)
      levels == {earned} \cup (IF pc.level = 0 THEN {0} ELSE {})
  IN /\ Level \in levels /\ pc.level \in {earned, 0}
     /\ \E level \in levels : party.stats = StatsAt(level, pc)
     /\ party.hp \in 0..party.stats.HP

(* Which genders and forms there are does not depend on the calls made: a  *)
(* shiny Pokemon of a kind with one female in eight is never female, and   *)
(* an Unown, whose four IVs are tied to its letter, is shiny as I or V     *)
(* only.                                                                   *)
ShinyOnesAreRare ==
  Shiny =>
    /\ species.ratio = "7/8" => Gender = "MALE"
    /\ species.unown => cache.form \in {8, 21}

(* The moves of a new Pokemon, whatever its level, are moves it has learned *)
(* by then, none is known twice, and there are as many as there is room    *)
(* for or as there are to know.                                            *)
StartingMovesAreLearned ==
  \A level \in DOMAIN ExpAt :
    LET moves == DefaultMoves(species.learnset, level)
        learned == Known(species.learnset, level)
        known == {i \in 0..3 : moves[i] # NoMove}
    IN /\ \A i \in known : \E j \in learned : species.learnset[j].move = moves[i]
       /\ \A i, j \in known : i # j => moves[i] # moves[j]
       /\ Cardinality(known) = Smaller(4, Cardinality(learned))

(* One creature, seen through three structures: what is stored, what is    *)
(* cached and what is computed agree after any calls and trades.           *)
PokemonIsConsistent ==
  TypeOK /\ ViewsAgree /\ LevelsAreRight /\ ShinyOnesAreRare /\ StartingMovesAreLearned

(* A setter of a trait gives the trait that was asked for: gender,         *)
(* shininess and form by way of IVs, PP by way of six bits.                *)
SettersDoWhatTheySay ==
  /\ [][\A gender \in Genders : SetGender(gender) => Gender' = gender]_vars
  /\ [][\A value \in BOOLEAN : SetShininess(value) => Shiny' = value]_vars
  /\ [][\A form \in Forms : SetForm(form) => FormOf(cache'.IVs) = form]_vars

(* A trade keeps what the two generations share: conversions_test.cpp.     *)
TradeKeepsTraits ==
  [][\A g \in 1..2 : ToGame(g) =>
       /\ cache'.IVs = cache.IVs /\ cache'.EVs = cache.EVs
       /\ cache'.stats = cache.stats
       /\ pc'.exp = pc.exp
       /\ party'.hp = party.hp /\ party'.condition = party.condition
       /\ gen = gen' => cache'.form = cache.form]_vars

(* testing/unit-tests/cpp/cpp_pokemon_test/conversions_test.cpp:208 states *)
(* EXPECT_EQ(first_pokemon->get_level(), second_pokemon->get_level()).  Of  *)
(* a Pokemon that comes back from Generation I this is not true, so no run *)
(* claims it. *)
TradeKeepsLevel == [][\A g \in 1..2 : ToGame(g) => Level' = Level]_vars
=============================================================================
