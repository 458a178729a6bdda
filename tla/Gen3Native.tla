----------------------------- MODULE Gen3Native ----------------------------
(***************************************************************************)
(* What the two classes of Generation III Pokemon have in common           *)
(* (lib/pokemon_impl.cpp, lib/calculations): the structure of the game and *)
(* what the getters return of it.                                          *)
(*                                                                         *)
(* One 32-bit number, the personality, is at once the nature, the gender,  *)
(* the shininess, the ability that the Pokemon ought to have and the       *)
(* letter of an Unown.  It is modelled by its set of bits, as is the       *)
(* trainer's ID.  Stats are modelled by what they were computed from.      *)
(*                                                                         *)
(* Left out: names, language, location, Pokerus, friendship and ball,      *)
(* which only their own setters touch.                                     *)
(***************************************************************************)
EXTENDS Integers, FiniteSets, FiniteSetsExt

CONSTANTS
  Kinds,        \* the species: [ratio, unown, two]: of which genders and abilities there are
  GBAGames, GCNGames,
  Draws,        \* the random personalities
  RandomBytes,  \* and random bytes
  TrainerIDs,
  Natures, Letters, \* inputs
  Stats, IVValues, EVValues,
  ExpAt,        \* the database's experience at a level
  GCNExpAt,     \* LibPkmGC's; there 0 is the experience of level 0
  Experiences,
  Conditions,
  Moves, NoMove, BasePP, Slots,
  Contests, ContestStats, Specials, Markings,
  Items, NoItem, ItemsOf   \* the items a game knows

VARIABLES
  species,  \* _database_entry, without the form
  game,     \* and its game
  native,   \* _pksav_pokemon or *_libpkmgc_pokemon_uptr
  cache     \* the form, _IVs, _EVs, _stats, _moves, _ribbons, _markings, _contest_stats

gen3Vars == <<species, game, native, cache>>

Games == GBAGames \cup GCNGames
Bits == 0..31
Genders == {"MALE", "FEMALE"}
Abilities == 1..2
NoForm == -1
Shadow == -2
NoCondition == "NONE"

-----------------------------------------------------------------------------
(* The bits of a personality. *)
Bit(p, i) == IF i \in p THEN 1 ELSE 0
NumberOf(byte) ==
  LET bit(i) == Bit(byte, i)
  IN bit(0) + 2 * bit(1) + 4 * bit(2) + 8 * bit(3) + 16 * bit(4) + 32 * bit(5) + 64 * bit(6) + 128 * bit(7)
LowByte(p) == p \cap 0..7
WithLowByte(p, byte) == (p \ (0..7)) \cup {i \in 0..7 : (byte \div 2^i) % 2 = 1}
Toggle(p, bits) == (p \ bits) \cup (bits \ p)

(* The remainder modulo 25, bit by bit from the highest. *)
NatureOf(p) ==
  LET rest[i \in 0..32] == IF i = 32 THEN 0 ELSE (Bit(p, i) + 2 * rest[i + 1]) % 25
  IN rest[0]

Parity(p) == Bit(p, 0)

FemaleBelow(ratio) ==
  CASE ratio = "7/8" -> 31 [] ratio = "3/4" -> 64 [] ratio = "1/2" -> 127 [] OTHER -> 191

GenderOf(ratio, p) ==
  CASE ratio = "none"   -> "GENDERLESS"
    [] ratio = "male"   -> "MALE"
    [] ratio = "female" -> "FEMALE"
    [] OTHER            -> IF NumberOf(LowByte(p)) < FemaleBelow(ratio) THEN "FEMALE" ELSE "MALE"

(* Both halves of personality and ID are laid over one another; all but    *)
(* the last three columns of a shiny one have an even number of ones.      *)
Odd(p, id, i) == ((i \in p) # (i + 16 \in p)) # ((i \in id) # (i + 16 \in id))

ShinyWith(p, id) == \A i \in 3..15 : ~Odd(p, id, i)

(* An Unown's letter is made of the last two bits of each byte. *)
LetterBits == {8 * byte + bit : byte \in 0..3, bit \in 0..1}
PlaceInLetter(i) == 2 * (i \div 8) + (i % 8)
LetterOf(p) == NumberOf({PlaceInLetter(i) : i \in p \cap LetterBits}) % 28

WithLetter(p, letter) ==
  (p \ LetterBits) \cup {i \in LetterBits : (letter \div 2^PlaceInLetter(i)) % 2 = 1}

-----------------------------------------------------------------------------
(* The setters that both classes share. *)

WithGender(ratio, p, gender) ==
  IF gender = "MALE" THEN {WithLowByte(p, 255)}
  ELSE {WithLowByte(p, b) : b \in {n \in RandomBytes : n < FemaleBelow(ratio)}}

GenderAllowed(ratio, gender) ==
  /\ ratio # "none"
  /\ ratio = "male" => gender = "MALE"
  /\ ratio = "female" => gender = "FEMALE"

(* Taking the shininess away changes one of the columns that do not count. *)
WithShininess(p, id, value) ==
  IF value THEN Toggle(p, {i \in 3..15 : Odd(p, id, i)})
           ELSE IF Odd(p, id, 0) THEN p ELSE Toggle(p, {0})

(* generate_personality() draws until everything fits; of a male it never  *)
(* draws 255 for the last byte.                                            *)
Fits(p, id, shiny, ability, gender, nature) ==
  /\ Parity(p) = ability - 1
  /\ gender = "MALE" => NumberOf(LowByte(p)) \in (FemaleBelow(species.ratio))..254
  /\ gender = "FEMALE" => NumberOf(LowByte(p)) < FemaleBelow(species.ratio)
  /\ ShinyWith(p, id) = shiny
  /\ NatureOf(p) = nature

Gender == GenderOf(species.ratio, native.pid)
Nature == NatureOf(native.pid)
Shiny == ShinyWith(native.pid, native.ot)
Ability == IF species.two /\ native.second THEN 2 ELSE 1

(* _set_ability_from_personality() *)
SecondFrom(p) == species.two /\ Parity(p) = 1

-----------------------------------------------------------------------------
NumPPUps == 0..3
PPWith(move, ups) == IF move = NoMove THEN 0 ELSE BasePP[move] + ups * (BasePP[move] \div 5)
FewestPPUps(move, pp) == Min({n \in NumPPUps : pp <= PPWith(move, n)})

LevelAt(experience) == Max({l \in DOMAIN ExpAt : ExpAt[l] <= experience})
GCNLevelAt(experience) == Max({l \in DOMAIN GCNExpAt : GCNExpAt[l] <= experience})

StatsFrom(level, iv, ev) == [level |-> level, iv |-> iv, ev |-> ev]

(* Of each kind of contest a Pokemon has the ribbons up to a level. *)
ContestLevels == 1..4
RibbonsOf(data) ==
  data.specials \cup {r \in Contests \X ContestLevels : r[2] <= data.contest[r[1]]}

(* What a constructor reads of a native structure, without the form.       *)
CacheOf(data, form) ==
  [ form |-> form, IVs |-> data.iv, EVs |-> data.ev, stats |-> data.stats,
    moves |-> [i \in Slots |-> [move |-> data.moves[i], pp |-> data.pps[i]]],
    ribbons |-> RibbonsOf(data), markings |-> data.markings, contestStats |-> data.contestStats ]

(* A new Pokemon, as far as the two classes agree. *)
NewNative(origin, level, p, second, letter, iv, experience, moves) ==
  [ pid |-> p, ot |-> CHOOSE id \in TrainerIDs : TRUE, second |-> second, letter |-> letter,
    shadow |-> FALSE, exp |-> experience, level |-> level, iv |-> iv, ev |-> [s \in Stats |-> 0],
    stats |-> StatsFrom(level, iv, [s \in Stats |-> 0]), hp |-> "FULL", condition |-> NoCondition,
    moves |-> moves, pps |-> [i \in Slots |-> PPWith(moves[i], 0)], ups |-> [i \in Slots |-> 0],
    contest |-> [c \in Contests |-> 0], specials |-> {}, obedient |-> FALSE, markings |-> {},
    contestStats |-> [s \in ContestStats |-> 0], item |-> NoItem, origin |-> origin,
    levelMet |-> level, egg |-> FALSE ]
=============================================================================
