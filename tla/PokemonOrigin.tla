--------------------------- MODULE PokemonOrigin ---------------------------
(***************************************************************************)
(* What a Pokemon says of where it comes from and whose it is: names,      *)
(* trainer IDs, language, ball, level, place and game of its capture, and  *)
(* the plain counters beside them.                                         *)
(*                                                                         *)
(* Four classes keep these traits in four structures: what is a number of  *)
(* its own in one is some bits of a word in another, is kept beside the    *)
(* structure in a third and does not exist in the fourth.  A row of a      *)
(* table says where a class keeps a trait, which values its setter takes   *)
(* and what its getter tells.  to_game() carries the traits from one       *)
(* structure into another, and files carry the structure alone.            *)
(*                                                                         *)
(* The numbers of the bits are those of the save libraries.                *)
(***************************************************************************)
EXTENDS NativeRows

CONSTANTS
  GamesOf,         \* the games of each class
  GameIndex,       \* the number of a game of Generation III in a structure
  DefaultName,     \* the species' name in capitals
  DefaultTrainer,
  LevelsMade,
  BaseFriendship,
  CatchRate,
  ItemAt,          \* the items of Generation II by their numbers
  PlaceIndex,      \* for each game of the Game Boys, the numbers of places
  RangeStarts,     \* for each game of the GameCube, which place begins at which number
  Inputs           \* for each trait, the values that callers try

Classes == {"gen1", "gen2", "gba", "gcn"}
ClassOf(g) == CHOOSE c \in Classes : g \in GamesOf[c]
Gen3Games == GamesOf["gba"] \cup GamesOf["gcn"]
AllIDs == TrainerIDs \cup {DefaultID}
AllGames == UNION {GamesOf[c] : c \in Classes}

(* The database gives the games of Generation III their numbers, and every *)
(* place in a game one of its own; what a class stores has to fit.         *)
ASSUME OriginAssumption ==
  /\ \A c, d \in Classes : c # d => GamesOf[c] \cap GamesOf[d] = {}
  /\ "red" \in GamesOf["gen1"] /\ "gold" \in GamesOf["gen2"] /\ GamesOf["gcn"] = {"colosseum", "xd"}
  /\ \A g \in Gen3Games : GameIndex[g] \in 0..15
  /\ \A g, h \in Gen3Games \ {"xd"} : GameIndex[g] = GameIndex[h] => g = h
  /\ DefaultID \subseteq 0..31
  /\ LevelsMade \subseteq 2..100

ASSUME PlacesAssumption ==
  /\ \A g \in GamesOf["gen1"] : DOMAIN PlaceIndex[g] = {}
  /\ \A g \in GamesOf["gen2"] \cup GamesOf["gba"] : \A p, q \in DOMAIN PlaceIndex[g] :
       PlaceIndex[g][p] \in Nat /\ (PlaceIndex[g][p] = PlaceIndex[g][q] => p = q)
  /\ \A g \in GamesOf["gen2"] :
       "Special" \in DOMAIN PlaceIndex[g] /\ \A p \in DOMAIN PlaceIndex[g] : PlaceIndex[g][p] <= 127
  /\ \A g \in GamesOf["gcn"] : 0 \in DOMAIN RangeStarts[g] /\ DOMAIN RangeStarts[g] \subseteq 0..255

VARIABLES
  class,   \* of the object
  game,    \* get_game()
  level,
  cells    \* the structure, and what is kept beside it
originVars == <<class, game, level, cells>>

-----------------------------------------------------------------------------
Gen1Names == [nickname |-> Text("_nickname", 10)]

NotInGen1 ==
  Without({"gender", "shininess", "heldItem", "nature", "pokerus"})
    ++ [egg |-> Fixed(FALSE), catchRate |-> Row("catch_rate", {}, Same({}), Same(0..255), Refused)]

Gen1Trainer ==
  GBID("ot_id", AllIDs) ++ [trainerName |-> Text("_trainer_name", 7), trainerGender |-> Fixed("MALE")]

NotRecordedInGen1 ==
  Without({"language", "friendship", "ability", "ball", "levelMet", "originalGame",
           "personality", "markings", "ribbons", "contestStats"})

Gen2Names == [nickname |-> Text("_nickname", 10), egg |-> Cell("_is_egg", BOOLEAN)]

(* What Generation I had as catch rate need not be the number of an item.  *)
Gen2Item == [heldItem |-> Coded("item", Inverse(ItemAt), Refused)] ++ Without({"nature"})

Gen2Pokerus == [pokerus |-> Number("pokerus", 0, 4, 0..15)]

Gen2Trainer == [trainerGender |-> Gender("caught_data", 7)] ++ Gen1Trainer

Gen2Care ==
  [friendship |-> Cell("friendship", 0..255), levelMet |-> Number("caught_data", 8, 6, 2..63)]
    ++ Without({"language", "ability", "ball"})

NotRecordedInGen2 ==
  Without({"originalGame", "personality", "markings", "ribbons", "contestStats"})

GBANames == [nickname |-> Text("nickname", 10), egg |-> Cell("egg", BOOLEAN)]

GBATrainer ==
  IDParts("ot_id", AllIDs) ++ [trainerName |-> Text("otname", 7), pokerus |-> Number("pokerus", 0, 4, 0..15)]

GBALanguage == [JAPANESE |-> 513, ENGLISH |-> 514, KOREAN |-> 518]
BallNumber == [NONE |-> 0, POKE_BALL |-> 4, PREMIER_BALL |-> 12]

GBACare ==
  [trainerGender |-> Gender("origin_info", 15), language |-> Coded("language", GBALanguage, "ENGLISH"),
   friendship |-> Cell("friendship", 0..255)]

GBACapture ==
  [ball |-> Part("origin_info", 11, 4, BallNumber, "INVALID"),
   levelMet |-> Number("origin_info", 0, 7, 0..100)]

(* Colosseum and XD have the same number, and Colosseum is told of it. *)
GameCodes == [g \in Gen3Games \ {"xd"} |-> GameIndex[g]]
AnyGame == [g \in Gen3Games |-> GameIndex[IF g = "xd" THEN "colosseum" ELSE g]]

GBAOrigin ==
  [originalGame |-> Row("origin_info", 7..10, InWord(AnyGame, 7), Inverse(InWord(GameCodes, 7)), Refused)]

GCNNames == [nickname |-> Text("name", 10), egg |-> Cell("egg", BOOLEAN)]

(* The two halves of the ID are numbers of their own, TID and SID. *)
GCNTrainer ==
  IDParts("TID_SID", AllIDs) ++ [trainerName |-> Text("OTName", 7), pokerus |-> Number("pokerus", 0, 4, 0..15)]

GCNLanguage == [JAPANESE |-> 1, ENGLISH |-> 2]

GCNCare ==
  [trainerGender |-> Cell("OTGender", {"MALE", "FEMALE"}),
   language |-> Coded("language", GCNLanguage, "ENGLISH"), friendship |-> Cell("friendship", 0..255)]

GCNCapture ==
  [ball |-> Coded("ball", BallNumber, "INVALID"), levelMet |-> Cell("levelMet", 0..100)]

GCNOrigin == [originalGame |-> Row("game", {}, AnyGame, Inverse(GameCodes), Refused)]

(* Places have a number each, except on the GameCube, where a place is a   *)
(* range of them: it is stored as the last of its beginnings, and the one  *)
(* that begins at 0 cannot be stored.                                      *)
Greatest(S) == CHOOSE x \in S : \A y \in S : y <= x

PlaceNumber(g) ==
  IF g \in GamesOf["gcn"]
  THEN LET last(place) == Greatest({s \in DOMAIN RangeStarts[g] : RangeStarts[g][s] = place})
           places == {RangeStarts[g][s] : s \in DOMAIN RangeStarts[g]}
       IN [p \in {q \in places : last(q) > 0} |-> last(p)]
  ELSE PlaceIndex[g]  \* empty for Generation I

PlaceAt(g) ==
  IF g \in GamesOf["gcn"]
  THEN [n \in 0..255 |-> RangeStarts[g][Greatest({s \in DOMAIN RangeStarts[g] : s <= n})]]
  ELSE Inverse(PlaceNumber(g))

Gen2Location(g) == Part("caught_data", 0, 7, PlaceNumber(g), Refused)

(* One byte, whatever the number. *)
GBALocation(g) ==
  Row("met_location", {}, [p \in DOMAIN PlaceNumber(g) |-> PlaceNumber(g)[p] % 256], PlaceAt(g), Refused)

GCNLocation(g) == Row("location", {}, PlaceNumber(g), PlaceAt(g), Refused)

Rows ==
  [ gen1 |-> Gen1Names ++ NotInGen1 ++ Gen1Trainer ++ NotRecordedInGen1,
    gen2 |-> Gen2Names ++ Gen2Item ++ Gen2Pokerus ++ Gen2Trainer ++ Gen2Care ++ NotRecordedInGen2,
    gba |-> GBANames ++ GBATrainer ++ GBACare ++ GBACapture ++ GBAOrigin,
    gcn |-> GCNNames ++ GCNTrainer ++ GCNCare ++ GCNCapture ++ GCNOrigin ]

(* Where a Pokemon was met is read in its game's own list of places. *)
LocationRows ==
  [ gen1 |-> [g \in AllGames |-> Absent], gen2 |-> [g \in AllGames |-> Gen2Location(g)],
    gba |-> [g \in AllGames |-> GBALocation(g)], gcn |-> [g \in AllGames |-> GCNLocation(g)] ]

RowOf(c, g, trait) == IF trait = "location" THEN LocationRows[c][g] ELSE Rows[c][trait]
TraitsOf(c) == DOMAIN Rows[c] \cup {"location"}

-----------------------------------------------------------------------------
TraitTold(trait) == ToldOf(RowOf(class, game, trait), cells)

WithTrait(c, g, data, trait, value) == Stored(data, RowOf(c, g, trait), value)

(* A setter; it throws, and changes nothing, when it does not know the     *)
(* value.  On the GameCube the days that Pokerus lasts are stored twice.   *)
SetTrait(trait, value) ==
  /\ trait \in TraitsOf(class)
  /\ value \in DOMAIN RowOf(class, game, trait).code
  /\ LET data == WithTrait(class, game, cells, trait, value)
     IN cells' = IF class = "gcn" /\ trait = "pokerus" THEN [data EXCEPT !.days = value] ELSE data
  /\ UNCHANGED <<class, game, level>>

Least(a, b) == IF a < b THEN a ELSE b
TimesOfDay == {{14}, {15}, {14, 15}}
GBNames == [_nickname |-> DefaultName, _trainer_name |-> DefaultTrainer]

NewGen1 == [ot_id |-> Low(DefaultID), catch_rate |-> CatchRate] ++ GBNames

NewGen2(g, l, time) ==
  WithTrait("gen2", g,
    WithTrait("gen2", g, [ot_id |-> Low(DefaultID), item |-> 0, friendship |-> BaseFriendship, pokerus |-> {},
                          caught_data |-> time, _is_egg |-> FALSE] ++ GBNames,
              "levelMet", Least(l, 63)),
    "location", "Special")

NewGBA(g, l) ==
  [ nickname |-> DefaultName, otname |-> DefaultTrainer, ot_id |-> DefaultID, egg |-> FALSE,
    language |-> GBALanguage["ENGLISH"], friendship |-> BaseFriendship, pokerus |-> {}, pokerus_time |-> 0,
    met_location |-> PlaceNumber(g)["Fateful encounter"] % 256,
    origin_info |-> BitsOf(l) \cup Up(BitsOf(AnyGame[g]), 7) \cup Up(BitsOf(BallNumber["POKE_BALL"]), 11) ]

NewGCN(l) ==
  [ name |-> DefaultName, OTName |-> DefaultTrainer, TID_SID |-> DefaultID, egg |-> FALSE,
    language |-> GCNLanguage["ENGLISH"], friendship |-> BaseFriendship, pokerus |-> {}, days |-> 0,
    location |-> 0, OTGender |-> "MALE", ball |-> BallNumber["POKE_BALL"], levelMet |-> l,
    game |-> AnyGame["colosseum"] ]

OriginInit ==
  /\ class \in Classes /\ game \in GamesOf[class] /\ level \in LevelsMade
  /\ \/ class = "gen1" /\ cells = NewGen1
     \/ class = "gen2" /\ \E time \in TimesOfDay : cells = NewGen2(game, level, time)
     \/ class = "gba" /\ cells = NewGBA(game, level)
     \/ class = "gcn" /\ cells = NewGCN(level)

-----------------------------------------------------------------------------
(* A constructor over a structure of a Game Boy: the names, and that it is *)
(* an egg, are not in there.                                               *)
OverGen1(data) == [x \in {"ot_id", "catch_rate"} |-> data[x]] ++ GBNames
OverGen2(data) ==
  [x \in {"ot_id", "item", "friendship", "pokerus", "caught_data"} |-> data[x]]
    ++ [_is_egg |-> FALSE] ++ GBNames

(* to_game() sets the names after that. *)
Named(data) == [data EXCEPT !._nickname = cells._nickname, !._trainer_name = cells._trainer_name]

(* 26 bytes are copied: the ID, and the catch rate as held item.  A level  *)
(* above 63 reaches into the bits of the time of day, which are set next,  *)
(* and to_game() sets the level once more.                                 *)
Gen1ToGen2(time) ==
  [ ot_id |-> cells.ot_id, item |-> cells.catch_rate, friendship |-> BaseFriendship, pokerus |-> {},
    caught_data |-> (Up(BitsOf(level), 8) \ {14, 15}) \cup time ]

Gen2ToGen1 == [ot_id |-> cells.ot_id, catch_rate |-> cells.item]

WithLevelMet(c, g, data) == WithTrait(c, g, data, "levelMet", IF c = "gen2" THEN Least(level, 63) ELSE level)

(* gba_pc_pokemon_to_gcn().  Of a language that is in no row of its table  *)
(* the conversion throws.                                                  *)
LanguageOnBoth == [n \in {0} \cup {GBALanguage[l] : l \in DOMAIN GCNLanguage} |->
                     IF n = 0 THEN 0 ELSE GCNLanguage[Inverse(GBALanguage)[n]]]

(* Faulty variant of GBAToGCN: the ball is lost. *)
GBAToGCNInAnyBall ==
  [ NewGCN(level) EXCEPT !.name = cells.nickname, !.OTName = cells.otname, !.TID_SID = cells.ot_id,
    !.language = LanguageOnBoth[cells.language], !.friendship = cells.friendship, !.egg = cells.egg,
    !.pokerus = cells.pokerus, !.days = cells.pokerus_time, !.OTGender = TraitTold("trainerGender"),
    !.game = AnyGame[TraitTold("originalGame")] ]

GBAToGCN ==
  [ NewGCN(level) EXCEPT !.name = cells.nickname, !.OTName = cells.otname, !.TID_SID = cells.ot_id,
    !.language = LanguageOnBoth[cells.language], !.friendship = cells.friendship, !.egg = cells.egg,
    !.pokerus = cells.pokerus, !.days = cells.pokerus_time, !.OTGender = TraitTold("trainerGender"),
    !.ball = BallNumber[TraitTold("ball")], !.game = AnyGame[TraitTold("originalGame")] ]

(* gcn_pokemon_to_gba_pc() *)
GCNToGBA ==
  [ nickname |-> cells.name, otname |-> cells.OTName, ot_id |-> cells.TID_SID, egg |-> cells.egg,
    language |-> Inverse(LanguageOnBoth)[cells.language], friendship |-> cells.friendship,
    pokerus |-> cells.pokerus, pokerus_time |-> cells.days, met_location |-> 254,
    origin_info |-> BitsOf(level) \cup Up(BitsOf(cells.game), 7) \cup Up(BitsOf(cells.ball), 11)
                      \cup (IF cells.OTGender = "FEMALE" THEN {15} ELSE {}) ]

FromGen1(target) ==
  \/ ClassOf(target) = "gen1" /\ cells' = Named(OverGen1(cells))
  \/ ClassOf(target) = "gen2" /\ \E time \in TimesOfDay :
       cells' = Named(WithLevelMet("gen2", target, OverGen2(Gen1ToGen2(time))))

FromGen2(target) ==
  \/ ClassOf(target) = "gen1" /\ cells' = Named(OverGen1(Gen2ToGen1))
  \/ ClassOf(target) = "gen2" /\ cells' = Named(WithLevelMet("gen2", target, OverGen2(cells)))

(* The game that it leaves becomes the one it is originally from. *)
FromGBA(target) ==
  \/ /\ ClassOf(target) = "gba"
     /\ cells' = WithTrait("gba", target, WithLevelMet("gba", target, cells), "originalGame", game)
  \/ ClassOf(target) = "gcn" /\ cells.language \in DOMAIN LanguageOnBoth /\ cells' = GBAToGCN

FromGCN(target) ==
  LET converted == IF ClassOf(target) = "gba" THEN GCNToGBA ELSE WithLevelMet("gcn", target, cells)
  IN /\ ClassOf(target) \in {"gba", "gcn"}
     /\ cells' = WithTrait(ClassOf(target), target, converted, "originalGame", TraitTold("originalGame"))

ToGame(target) ==
  /\ \/ class = "gen1" /\ FromGen1(target)
     \/ class = "gen2" /\ FromGen2(target)
     \/ class = "gba" /\ FromGBA(target)
     \/ class = "gcn" /\ FromGCN(target)
  /\ class' = ClassOf(target) /\ game' = target
  /\ UNCHANGED level

(* A file holds the structure alone.  The game is one of the file's kind,  *)
(* and that of a GBA file is the one the Pokemon is originally from, on    *)
(* whichever side that is.  LibPkmGC may find a structure incomplete.      *)
LoadPk1 == class = "gen1" /\ cells' = OverGen1(cells) /\ game' = "red"

LoadPk2 == class = "gen2" /\ cells' = OverGen2(cells) /\ game' = "gold"

Load3gpkm ==
  /\ class = "gba" /\ TraitTold("originalGame") # Refused
  /\ game' = TraitTold("originalGame")
  /\ UNCHANGED cells

LoadCk3OrXk3 == class = "gcn" /\ UNCHANGED <<cells, game>>

(* export_to_file() and from_file() *)
ReloadPokemon ==
  /\ LoadPk1 \/ LoadPk2 \/ Load3gpkm \/ LoadCk3OrXk3
  /\ UNCHANGED <<class, level>>

OriginNext ==
  \/ \E trait \in DOMAIN Inputs : \E value \in Inputs[trait] : SetTrait(trait, value)
  \/ \E target \in AllGames : ToGame(target)
  \/ ReloadPokemon

OriginSpec == OriginInit /\ [][OriginNext]_originVars

-----------------------------------------------------------------------------
KnownTo ==
  [ c \in Classes |->
      {t \in TraitsOf(c) : DOMAIN RowOf(c, CHOOSE g \in GamesOf[c] : TRUE, t).told # {}} ]
Known == KnownTo[class]
Seen(g) == IF g = "xd" THEN "colosseum" ELSE g
IDs == {"publicId", "secretId", "trainerId"}

(* A setter sets what it is named after, and nothing else that shares its  *)
(* word; the three views of a trainer ID are one, and XD is told as        *)
(* Colosseum.  A place whose number is above 255 does not fit into the     *)
(* byte of the GBA: it is another place afterwards.                        *)
SettersAreExact ==
  \A trait \in DOMAIN Inputs : \A value \in Inputs[trait] : SetTrait(trait, value) =>
    /\ \/ TraitTold(trait)' = IF trait = "originalGame" THEN Seen(value) ELSE value
       \/ trait = "location" /\ class = "gba" /\ PlaceNumber(game)[value] > 255
    /\ \A other \in Known \ {trait} :
         TraitTold(other)' = TraitTold(other) \/ {trait, other} \subseteq IDs

IDsFit ==
  /\ "publicId" \in Known =>
       TraitTold("trainerId") =
         TraitTold("publicId") \cup (IF "secretId" \in Known THEN Up(TraitTold("secretId"), 16) ELSE {})
  /\ "levelMet" \in Known => TraitTold("levelMet") \in 0..100

(* conversions_test.cpp: a trade keeps what both classes know, except that *)
(* the new trainer met it at its level and somewhere else, that between    *)
(* games of the GBA it is from the game it leaves, and that in Generation  *)
(* II an egg is no egg any more.  The catch rate comes back.               *)
TradesKeepOrigin ==
  \A target \in AllGames : ToGame(target) =>
    /\ \A t \in (Known \cap Known') \ {"levelMet", "location", "originalGame", "egg"} : TraitTold(t)' = TraitTold(t)
    /\ "levelMet" \in Known' => TraitTold("levelMet")' = Least(level, IF class' = "gen2" THEN 63 ELSE 100)
    /\ "originalGame" \in Known =>
         TraitTold("originalGame")' = IF class = "gba" /\ class' = "gba" THEN Seen(game)
                                 ELSE TraitTold("originalGame")
    /\ class \in {"gba", "gcn"} => TraitTold("egg")' = TraitTold("egg")
    /\ class = "gen1" /\ class' = "gen2" => cells'.item = cells.catch_rate
    /\ class = "gen2" /\ class' = "gen1" => cells'.catch_rate = cells.item

(* A file brings back what is in the structure, and the names of the Game  *)
(* Boys are not.                                                           *)
FilesKeepStructure ==
  ReloadPokemon => \A t \in Known \ {"location"} :
    \/ TraitTold(t)' = TraitTold(t)
    \/ class \in {"gen1", "gen2"} /\ t \in {"nickname", "trainerName", "egg"}

(* An object is of a game of its class, until one that came from the       *)
(* GameCube is loaded from a file of the GBA.                              *)
OnlyFilesMisplace ==
  game \in GamesOf[class] =>
    \/ game' \in GamesOf[class']
    \/ ReloadPokemon /\ class = "gba" /\ TraitTold("originalGame") = "colosseum"

(* Where a Pokemon is from and whose it is survives setters, trades and    *)
(* files, in four structures.                                              *)
OriginsAreKept ==
  [][IDsFit' /\ SettersAreExact /\ TradesKeepOrigin /\ FilesKeepStructure /\ OnlyFilesMisplace]_originVars
=============================================================================
