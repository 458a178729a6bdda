-------------------------- MODULE MCNativeData ---------------------------
(* What is kept in native structures: an item list, a Pokemon's origin and *)
(* awards, and a trainer's card.  They share nothing and are checked as    *)
(* the four parts of one run; which part a behaviour belongs to is chosen  *)
(* when it begins.  Of the origin and the card traits that share a word,   *)
(* are converted together or are told of one another are set in one        *)
(* behaviour, the others in another.                                       *)
(*                                                                         *)
(* Three slots for one item more than the pocket takes, one of which       *)
(* belongs to another pocket, with amounts up to 2: a list can be full, a  *)
(* slot can be full, a removal can empty a slot, and a move shifts a slot  *)
(* it does not name.                                                       *)
(*                                                                         *)
(* Seven games: two of Generation I and one of Generation II, two of the   *)
(* GBA, of which one has a place whose number needs more than a byte, and  *)
(* both of the GameCube.  Values are those at the limits of what a setter  *)
(* takes or a structure holds, inside and outside.                         *)
(*                                                                         *)
(* Saves are of all nine types, with files that name one game, both or     *)
(* none, and "red" also as the end of "firered".                           *)
(*                                                                         *)
(* Ribbons are of two contests that lie side by side in the word, of which *)
(* one is the first, and of two others, next to the contests and to the    *)
(* obedience.                                                              *)
EXTENDS ItemList, PokemonOrigin, TrainerCard, Awards, TLC

CONSTANTS potion, repel, ether, bicycle, t1

FourItems == {potion, repel, ether, bicycle}
PocketOfThree == {potion, repel, ether}
OneThread == {t1}

SevenGames ==
  [ gen1 |-> {"red", "yellow"}, gen2 |-> {"gold"},
    gba |-> {"emerald", "sapphire"}, gcn |-> {"colosseum", "xd"} ]
Indices == [sapphire |-> 1, emerald |-> 3, colosseum |-> 15, xd |-> 15]

Lengths == [empty |-> 0, ASH |-> 3, SPECIES |-> 7, LONGER |-> 8, TOOLONG |-> 11]

\* 2105214279, of whose upper part Generation I has nothing
UsualID == {0, 1, 2, 6, 8, 10, 16, 17, 19, 20, 21, 22, 24, 26, 27, 28, 29, 30}
SomeIDs == {UsualID, {}, {0, 15}, {16, 31}}

TwoItems == (0 :> "NONE") @@ (3 :> "BRIGHTPOWDER")

NoPlaces == [place \in {} |-> 0]
InHoenn == ("Ferry" :> 87) @@ ("Trade" :> 254) @@ ("Fateful encounter" :> 255)
Places ==
  [ red |-> NoPlaces, yellow |-> NoPlaces, gold |-> [Special |-> 126, Route |-> 2],
    emerald |-> InHoenn @@ ("Aqua Hideout" :> 197), sapphire |-> InHoenn @@ ("Aqua Hideout" :> 486) ]

Beginnings ==
  [ colosseum |-> (0 :> "Distant land") @@ (1 :> "Outskirt Stand") @@ (5 :> "Phenac City")
                    @@ (9 :> "Outskirt Stand"),
    xd |-> (0 :> "Distant land") @@ (1 :> "Cipher Lab") ]

Values ==
  [ nickname |-> {"empty", "ASH", "LONGER", "TOOLONG"}, trainerName |-> {"empty", "ASH", "LONGER"},
    publicId |-> {{}, {0, 15}}, secretId |-> {{}, {0, 15}}, trainerId |-> SomeIDs,
    trainerGender |-> {"MALE", "FEMALE", "GENDERLESS"}, language |-> {"JAPANESE", "KOREAN", "CHINESE"},
    friendship |-> {-1, 255, 256}, pokerus |-> {15, 16}, egg |-> BOOLEAN,
    ball |-> {"NONE", "PREMIER_BALL", "DUSK_BALL"}, levelMet |-> {1, 2, 63, 100, 101},
    location |-> {"Special", "Route", "Ferry", "Aqua Hideout", "Distant land", "Outskirt Stand"},
    originalGame |-> {"red", "sapphire", "colosseum", "xd"}, heldItem |-> {"NONE", "BRIGHTPOWDER", "BICYCLE"} ]

Topics ==
  { {"nickname", "trainerName", "language"}, {"publicId", "secretId", "trainerId"},
    {"trainerGender", "ball", "levelMet", "originalGame"}, {"location", "trainerGender", "levelMet"},
    {"friendship", "pokerus", "egg", "heldItem"} }

SomeAmounts == {-1, 0, 59, 60, 255, 256, 9999, 10000, 65535, 65536, 999999, 1000000}

CardValues ==
  [ name |-> {"empty", "ASH", "LONGER"}, rivalName |-> {"empty", "ASH"},
    gender |-> {"MALE", "FEMALE", "GENDERLESS"},
    publicId |-> {{}, {0, 15}}, secretId |-> {{}, {0, 15}}, trainerId |-> SomeIDs,
    money |-> {-1, 0, 65536, 999999, 1000000}, casinoCoins |-> {256, 9999, 10000},
    moneyWithMom |-> {60, 999999}, daylightSavings |-> BOOLEAN,
    pikachuFriendship |-> {0, 255, 256}, nationalDex |-> BOOLEAN ]

SomeTimes ==
  [hours : {255, 65535, 65536}, minutes : {59, 60}, seconds : {0, 60}, frames : {59}]
    \cup [hours : {0}, minutes : {0}, seconds : {59}, frames : {0, 60}]

SomeFiles ==
  { {}, {"red"}, {"blue"}, {"red", "blue"}, {"firered", "red"}, {"leafgreen"}, {"leafgreen", "fr"}, {"lg"},
    {"gold"}, {"silver"}, {"ruby"}, {"sapphire"}, {"emerald"} }

\* a file is of one type, or also looks like one of Generation II
SomeLookalikes ==
  {{type} : type \in SaveTypes} \cup {{"RED_BLUE", "GOLD_SILVER"}, {"EMERALD", "CRYSTAL"}}

CardTopics ==
  { {"name", "rivalName", "gender"}, {"publicId", "secretId", "trainerId"},
    {"money", "casinoCoins", "moneyWithMom", "daylightSavings"},
    {"pikachuFriendship", "nationalDex", "gender"}, {} }

SomeRibbons ==
  {<<"Cool", 1>>, <<"Cool", 3>>, <<"Cool", 4>>, <<"Cool", 5>>, <<"Beauty", 1>>, <<"Beauty", 4>>,
   <<"Champion", 0>>, <<"World", 0>>, <<"Effort Master", 0>>}
SomeMarks == {"CIRCLE", "STAR"}
SomeContestStats == {<<"COOL", 255>>, <<"FEEL", 256>>}

VARIABLES subject, topic

EitherInit ==
  /\ subject \in {"list", "origin", "card", "awards"}
  /\ topic \in CASE subject = "origin" -> Topics [] subject = "card" -> CardTopics [] OTHER -> {{}}
  /\ Init
  /\ subject # "list" => numItems = 0
  /\ subject # "origin" => class = "gen1" /\ game = "red" /\ level = 5
  /\ OriginInit
  /\ subject # "card" => saveType = "YELLOW" /\ saveGame = "yellow"
  /\ CardInit
  /\ AwardsInit
  /\ subject # "awards" => console = "gcn" /\ ~Obedient

OriginStep ==
  \/ \E trait \in topic : \E value \in Inputs[trait] : SetTrait(trait, value)
  \/ \E target \in AllGames : ToGame(target)
  \/ ReloadPokemon

CardStep ==
  \/ \E field \in topic : \E value \in CardInputs[field] : SetField(field, value)
  \/ topic = {} /\ \E time \in TimesPlayed : SetTimePlayed(time)
  \/ \E name \in FileNames : LoadCard(name)

EitherNext ==
  /\ \/ subject = "list" /\ Next /\ UNCHANGED <<originVars, cardVars, awardVars>>
     \/ subject = "origin" /\ OriginStep /\ UNCHANGED <<vars, cardVars, awardVars>>
     \/ subject = "card" /\ CardStep /\ UNCHANGED <<vars, originVars, awardVars>>
     \/ subject = "awards" /\ AwardsNext /\ UNCHANGED <<vars, originVars, cardVars>>
  /\ UNCHANGED <<subject, topic>>

EitherSpec ==
  EitherInit /\ [][EitherNext]_<<vars, originVars, cardVars, awardVars, subject, topic>>
=============================================================================
