---------------------------- MODULE Gen3Pokemon ----------------------------
(***************************************************************************)
(* A Pokemon of Generation III on its way through the games: objects of    *)
(* the classes of GBAPokemon and GCNPokemon, and to_game(), which converts *)
(* the structure (lib/conversions/gen3_conversions.cpp) and builds a new   *)
(* object over the result.                                                 *)
(***************************************************************************)
EXTENDS Gen3Native

CONSTANT OnBothSides  \* the items whose number is not above the last one of the GBA's own

ASSUME Gen3Assumption ==
  /\ GBAGames \cap GCNGames = {}
  /\ OnBothSides \subseteq Items /\ NoItem \notin Items
  /\ \A p \in Draws : p \subseteq Bits

(* The database: an Unown has no gender, a move has PP, no special ribbon  *)
(* has the name of a contest's.                                            *)
ASSUME KindsAssumption ==
  /\ \A kind \in Kinds : /\ kind.unown \in BOOLEAN /\ kind.two \in BOOLEAN
                         /\ kind.unown => kind.ratio = "none"
  /\ BasePP \in [Moves -> Nat]
  /\ Specials \cap (Contests \X ContestLevels) = {}

(* The two sides differ in the levels below the second. *)
ASSUME LevelsAssumption ==
  /\ {1, 100} \subseteq DOMAIN ExpAt /\ DOMAIN ExpAt \subseteq 1..100
  /\ ExpAt[100] \in Nat /\ \A l \in DOMAIN ExpAt : ExpAt[l] \in 0..ExpAt[100]
  /\ DOMAIN GCNExpAt = {0} \cup DOMAIN ExpAt
  /\ ExpAt[1] = 0 /\ GCNExpAt[0] = 0 /\ GCNExpAt[1] \in 1..ExpAt[100]
  /\ \A l \in DOMAIN ExpAt \ {1} : GCNExpAt[l] = ExpAt[l]

(* What the setters accept, and a byte is a byte. *)
ASSUME InputsAssumption ==
  /\ Experiences \subseteq 0..ExpAt[100]
  /\ Letters \subseteq 0..27
  /\ RandomBytes \subseteq 0..255
  /\ TrainerIDs # {}

GBA == INSTANCE GBAPokemon
GCN == INSTANCE GCNPokemon

OnGBA == game \in GBAGames
OnGCN == game \in GCNGames

Gen3Init ==
  /\ species \in Kinds
  /\ game \in Games
  /\ \E p \in Draws, level \in DOMAIN ExpAt, moves \in [Slots -> Moves] :
       LET iv == [s \in Stats |-> Min(IVValues)]
       IN \/ OnGBA /\ \E letter \in IF species.unown THEN Letters ELSE {NoForm} :
                        GBA!Make(level, p, iv, letter, moves)
          \/ OnGCN /\ \E form \in IF species.unown THEN Letters ELSE {NoForm, Shadow} :
                        GCN!Make(level, p, iv, form, moves)

-----------------------------------------------------------------------------
(* The level of the new structure follows from the experience, of which 0  *)
(* is level 1 on one side and level 0 on the other.                        *)
LevelFromGBA(data) ==
  LET level == GCNLevelAt(data.exp)
  IN IF level = 0 /\ ~data.egg THEN 1 ELSE level

(* Faulty variant of GBAToGCN: the stats and the HP are new. *)
GBAToGCNAnew(data) ==
  LET level == LevelFromGBA(data)
  IN [data EXCEPT !.level = level, !.stats = StatsFrom(level, data.iv, data.ev),
                  !.hp = "FULL", !.levelMet = level, !.condition = NoCondition,
                  !.item = IF data.item \in OnBothSides THEN data.item ELSE NoItem]

(* gba_party_pokemon_to_gcn() *)
GBAToGCN(data) ==
  LET level == LevelFromGBA(data)
  IN [data EXCEPT !.level = level, !.stats = StatsFrom(level, data.iv, data.ev), !.levelMet = level,
                  !.item = IF data.item \in OnBothSides THEN data.item ELSE NoItem]

(* gcn_pokemon_to_gba_party() *)
GCNToGBA(data) == [data EXCEPT !.levelMet = data.level, !.shadow = FALSE]

(* From one GBA game to another the game it comes from becomes the game it *)
(* is originally from.                                                     *)
FromGBAToGBA == GBA!FromParty([native EXCEPT !.levelMet = native.level, !.origin = game])

FromGBAToGCN == GCN!FromNative(GBAToGCN(native))

(* Colosseum and XD number their items differently; LibPkmGC does the rest *)
(* and what it does of the shadow is open.                                 *)
FromGCNToGCN(target) ==
  /\ target # game => native.item \in ItemsOf[target] \cup {NoItem}
  /\ \E shadow \in {native.shadow, IF target = game THEN native.shadow ELSE FALSE} :
       GCN!FromNative([native EXCEPT !.levelMet = native.level, !.shadow = shadow])

FromGCNToGBA(target) ==
  /\ native.item \in ItemsOf[target] \cup {NoItem}
  /\ GBA!FromParty(GCNToGBA(native))

ToGame(target) ==
  /\ \/ OnGBA /\ target \in GBAGames /\ FromGBAToGBA
     \/ OnGBA /\ target \in GCNGames /\ FromGBAToGCN
     \/ OnGCN /\ target \in GCNGames /\ FromGCNToGCN(target)
     \/ OnGCN /\ target \in GBAGames /\ FromGCNToGBA(target)
  /\ game' = target
  /\ UNCHANGED species

TradeNext ==
  \/ \E target \in Games : ToGame(target)
  \/ OnGBA /\ GBA!ReloadNext
  \/ OnGCN /\ GCN!Copy

TraitsNext == (OnGBA /\ GBA!TraitsNext) \/ (OnGCN /\ GCN!TraitsNext)
GrowthNext == (OnGBA /\ GBA!GrowthNext) \/ (OnGCN /\ GCN!GrowthNext)
MovesNext == (OnGBA /\ GBA!MovesNext) \/ (OnGCN /\ GCN!MovesNext)
HonoursNext == (OnGBA /\ GBA!HonoursNext) \/ (OnGCN /\ GCN!HonoursNext)
HistoryNext == (OnGBA /\ GBA!HistoryNext) \/ (OnGCN /\ GCN!HistoryNext)

Gen3Next == TradeNext \/ TraitsNext \/ GrowthNext \/ MovesNext \/ HonoursNext \/ HistoryNext

Gen3Spec == Gen3Init /\ [][Gen3Next]_gen3Vars

-----------------------------------------------------------------------------
SetNature(nature) == (OnGBA /\ GBA!SetNature(nature)) \/ (OnGCN /\ GCN!SetNature(nature))
SetAbility(ability) == (OnGBA /\ GBA!SetAbility(ability)) \/ (OnGCN /\ GCN!SetAbility(ability))
SetGender(gender) == (OnGBA /\ GBA!SetGender(gender)) \/ (OnGCN /\ GCN!SetGender(gender))
SetShininess(value) == (OnGBA /\ GBA!SetShininess(value)) \/ (OnGCN /\ GCN!SetShininess(value))
SetForm(form) == (OnGBA /\ GBA!SetForm(form)) \/ (OnGCN /\ GCN!SetForm(form))

Gen3TypeOK ==
  /\ species \in Kinds /\ game \in Games
  /\ native.pid \subseteq Bits /\ native.ot \in TrainerIDs /\ native.second \in BOOLEAN
  /\ native.letter \in 0..27 \cup {NoForm} /\ cache.form \in 0..27 \cup {NoForm, Shadow}
  /\ native.level \in DOMAIN GCNExpAt /\ native.exp \in 0..ExpAt[100]
  /\ native.levelMet \in DOMAIN GCNExpAt
  /\ native.ups \in [Slots -> NumPPUps] /\ native.contest \in [Contests -> 0..4]
  /\ native.item \in Items \cup {NoItem} /\ native.origin \in Games \cup {"GCN"}
  /\ OnGBA => ~native.shadow

(* The maps that the getters return agree with the structure that is saved *)
(* and traded, after setters, trades and reloads in any order.             *)
ViewsAgree ==
  /\ cache.IVs = native.iv /\ cache.EVs = native.ev /\ cache.stats = native.stats
  /\ \A i \in Slots : cache.moves[i] = [move |-> native.moves[i], pp |-> native.pps[i]]
  /\ cache.ribbons = RibbonsOf(native)
  /\ cache.markings = native.markings /\ cache.contestStats = native.contestStats

(* No move has more PP than its PP Ups allow.  That set_move() of the GBA  *)
(* leaves the PP Ups of the former move does not endanger it.              *)
PPWithinPPUps == \A i \in Slots : native.pps[i] <= PPWith(native.moves[i], native.ups[i])

(* The stats were computed of the IVs and EVs that are there now, although *)
(* the level may be another one: set_level() of the GameCube computes no   *)
(* stats, and a trade carries them on.                                     *)
StatsAreOfTheseIVs == native.stats.iv = native.iv /\ native.stats.ev = native.ev

(* One creature, seen through three structures: what is stored, what is    *)
(* cached and what is computed agree after any calls and trades.           *)
PokemonIsConsistent == Gen3TypeOK /\ ViewsAgree /\ PPWithinPPUps /\ StatsAreOfTheseIVs

(* "Nature is derived from personality, so we need to find a new one that  *)
(* preserves all other values": the nature is set, the rest stays, and the *)
(* ability's mark still fits the personality.                              *)
NatureKeepsTheRest ==
  [][\A nature \in Natures : SetNature(nature) =>
       /\ Nature' = nature
       /\ Gender' = Gender /\ Shiny' = Shiny /\ Ability' = Ability
       /\ native'.second = SecondFrom(native'.pid)]_gen3Vars

(* The same of the ability, and a shiny or a female is what was asked for. *)
TraitsAreSet ==
  [][/\ \A ability \in Abilities : SetAbility(ability) =>
          Ability' = ability /\ Nature' = Nature /\ Gender' = Gender /\ Shiny' = Shiny
     /\ \A gender \in Genders : SetGender(gender) => Gender' = gender /\ Ability' = Ability
     /\ SetShininess(TRUE) => Shiny'
     /\ \A form \in Letters : SetForm(form) /\ species.unown => LetterOf(native'.pid) = form]_gen3Vars

(* get_form() of an Unown says what its personality says; only the         *)
(* personality that set_ability() draws is not looked at.                  *)
FormIsTheLetter == species.unown => cache.form = LetterOf(native.pid)

OnlyAbilityLosesTheLetter ==
  [][FormIsTheLetter => FormIsTheLetter' \/ \E ability \in Abilities : SetAbility(ability)]_gen3Vars

(* conversions_test.cpp: what a trade keeps.  Unown is the exception: the  *)
(* GBA rewrites its personality after the letter in the species number.    *)
TradeKeepsTraits ==
  [][\A target \in Games : ToGame(target) =>
       /\ IF species.unown /\ target \in GBAGames
          THEN native'.pid = WithLetter(native.pid, native.letter)
          ELSE native'.pid = native.pid /\ Shiny' = Shiny /\ Gender' = Gender
       /\ Ability' = Ability /\ native'.ot = native.ot
       /\ cache'.ribbons = cache.ribbons /\ cache'.markings = cache.markings
       /\ cache'.contestStats = cache.contestStats /\ cache'.moves = cache.moves
       /\ native'.condition = native.condition /\ native'.hp = native.hp]_gen3Vars

(* The ribbons of the GBA: to give one takes none away, to take one away   *)
(* gives none.                                                             *)
RibbonsMoveOneWay ==
  [][\A c \in Contests, l \in ContestLevels :
       OnGBA => /\ GBA!SetContestRibbon(c, l, TRUE) => cache.ribbons \cup {<<c, l>>} \subseteq cache'.ribbons
                /\ GBA!SetContestRibbon(c, l, FALSE) => cache'.ribbons \subseteq cache.ribbons \ {<<c, l>>}]_gen3Vars

(* A setter sets what it is named after and leaves alone what shares its   *)
(* bits, as far as the named parts go.                                     *)
SettersKeepTheRest ==
  NatureKeepsTheRest /\ TraitsAreSet /\ OnlyAbilityLosesTheLetter /\ RibbonsMoveOneWay

(* testing/unit-tests/cpp/cpp_pokemon_test/gen3_pokemon_tests.cpp:195      *)
(* pokemon->set_shininess(false); EXPECT_FALSE(pokemon->is_shiny());       *)
(* This is not true of a Pokemon that was shiny, so no run claims it.      *)
ShininessIsTakenAway == [][SetShininess(FALSE) => ~Shiny']_gen3Vars
=============================================================================
