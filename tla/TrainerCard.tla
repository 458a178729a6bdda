---------------------------- MODULE TrainerCard ----------------------------
(***************************************************************************)
(* What a save says of its trainer: name, ID, gender, rival, money, the    *)
(* time played and a few numbers beside them, and which game it is of.     *)
(*                                                                         *)
(* Each is kept in the save's buffer, in every type of save in another     *)
(* place and form: numbers as bytes, as decimal digits or little endian,   *)
(* an ID whole or in halves, a rival's name that is no name but follows    *)
(* from the trainer's gender.  Rows say where (NativeRows).  A file holds  *)
(* the buffer; the game it is of is partly a guess from the file's name.   *)
(***************************************************************************)
EXTENDS NativeRows, Sequences

CONSTANTS
  Amounts,     \* the numbers at the limits of what setters take
  Lookalikes,  \* the sets of types that the same bytes may pass for
  FileNames,   \* a file name is the set of the titles that occur in it
  CardInputs,  \* for each field, the values that callers try
  TimesPlayed

MaxMoney == 999999
MaxCoins == 9999
Within(max) == {n \in Amounts : n \in 0..max}
TimeParts == {"hours", "minutes", "seconds", "frames"}

VARIABLES
  saveType,  \* of the native save
  saveGame,  \* _game_id
  card       \* the trainer's part of the buffer
cardVars == <<saveType, saveGame, card>>

-----------------------------------------------------------------------------
(* Numbers in several bytes, with two decimal digits in a byte or with the *)
(* byte as the digit.  A number that needs more digits loses the first.    *)
Digits(n, units, size) == [i \in 1..size |-> (n \div units[i]) % units[2]]
Tens == <<1, 10, 100, 1000, 10000, 100000>>
Places256 == <<1, 256, 65536>>
Decimal(cell, bytes, max) == Coded(cell, [n \in Within(max) |-> Digits(n, Tens, 2 * bytes)], Refused)
Base256(cell, bytes, max) == Coded(cell, [n \in Within(max) |-> Digits(n, Places256, bytes)], Refused)
Plain(cell, max) == Cell(cell, Within(max))

(* A byte of which one value stands for MALE and every other for FEMALE.   *)
GenderByte(cell, settable) ==
  Row(cell, {}, [g \in settable |-> IF g = "MALE" THEN 0 ELSE 1],
      [n \in 0..255 |-> IF n = 0 THEN "MALE" ELSE "FEMALE"], Refused)

Time(maxHours) ==
  [hours |-> Plain("hours", maxHours)] ++ [part \in {"minutes", "seconds", "frames"} |-> Plain(part, 59)]

(* Frames are ignored, and told as 0. *)
Gen1Time == [frames |-> Fixed(0)] ++ Time(65535)
Gen1TrainerName == [name |-> Text("p_name", 7)]
Gen1IDs == GBID("p_id", TrainerIDs) ++ [gender |-> Fixed("MALE")]
Gen1Rival == [rivalName |-> Text("p_rival_name", 7)]
Gen1Money == [money |-> Decimal("p_money", 3, MaxMoney)]
Gen1Coins == [casinoCoins |-> Decimal("p_casino_coins", 2, MaxCoins)]
Gen1Pikachu == [pikachuFriendship |-> Plain("p_pikachu_friendship", 255)]

Gen2Time == Time(255)
Gen2TrainerName == [name |-> Text("p_name", 7)]
Gen2IDs == GBID("p_id", TrainerIDs)

(* Gold and Silver have no place for a gender. *)
Gen2Gender(type) ==
  [gender |-> IF type = "CRYSTAL" THEN GenderByte("p_gender", {"MALE", "FEMALE"}) ELSE Fixed("MALE")]

Gen2Rival == [rivalName |-> Text("p_rival_name", 7)]
Gen2Money == [money |-> Base256("p_money", 3, MaxMoney)]
Gen2Summer == [daylightSavings |-> Bit("p_daylight_savings", 7)]
Gen2Mom == [moneyWithMom |-> Decimal("p_money_with_mom", 3, MaxMoney)]
Gen2Coins == [casinoCoins |-> Decimal("p_casino_coins", 2, MaxCoins)]

GBATime == Time(65535)
GBATrainerName == [name |-> Text("p_name", 7)]
GBAIDs == IDParts("p_id", TrainerIDs)
GBAGender == [gender |-> GenderByte("p_gender", {"MALE", "FEMALE"})]

(* In Ruby, Sapphire and Emerald the rival is the one the trainer is not.  *)
GBARival(type) ==
  [rivalName |->
     IF type = "FIRERED_LEAFGREEN" THEN Text("p_rival_name", 7)
     ELSE Row("p_gender", {}, Same({}), [n \in 0..255 |-> IF n = 0 THEN "MAY" ELSE "BRENDAN"], Refused)]

GBAMoney == [money |-> Plain("p_money", MaxMoney)]
GBACoins == [casinoCoins |-> Plain("p_casino_coins", MaxCoins)]
GBADex == [nationalDex |-> Cell("p_nat_pokedex_unlockedB", BOOLEAN)]

GCNTime == Without(TimeParts)
GCNTrainerName == [name |-> Text("trainerName", 7)]
GCNIDs == IDParts("TID_SID", TrainerIDs)
GCNGender == [gender |-> GenderByte("trainerGender", {}), rivalName |-> Absent]
GCNMoney == [money |-> Plain("pokeDollars", MaxMoney)]

GBATypes == {"RUBY_SAPPHIRE", "EMERALD", "FIRERED_LEAFGREEN"}
SaveTypes == {"RED_BLUE", "YELLOW", "GOLD_SILVER", "CRYSTAL", "COLOSSEUM", "XD"} \cup GBATypes

(* The numbers beside the card are attributes, which a save registers. *)
Gen1Attributes == Gen1Coins
Gen2Attributes == Gen2Summer ++ Gen2Mom ++ Gen2Coins
GBAAttributes == GBACoins ++ GBADex

Gen1Fields == Gen1Time ++ Gen1TrainerName ++ Gen1IDs ++ Gen1Rival ++ Gen1Money ++ Gen1Attributes

Gen2Fields(type) ==
  Gen2Time ++ Gen2TrainerName ++ Gen2IDs ++ Gen2Gender(type) ++ Gen2Rival ++ Gen2Money ++ Gen2Attributes

GBAFields(type) ==
  GBATime ++ GBATrainerName ++ GBAIDs ++ GBAGender ++ GBARival(type) ++ GBAMoney ++ GBAAttributes

GCNFields == GCNTime ++ GCNTrainerName ++ GCNIDs ++ GCNGender ++ GCNMoney

Fields ==
  [ RED_BLUE |-> Gen1Fields, YELLOW |-> Gen1Fields ++ Gen1Pikachu,
    GOLD_SILVER |-> Gen2Fields("GOLD_SILVER"), CRYSTAL |-> Gen2Fields("CRYSTAL"),
    RUBY_SAPPHIRE |-> GBAFields("RUBY_SAPPHIRE"), EMERALD |-> GBAFields("EMERALD"),
    FIRERED_LEAFGREEN |-> GBAFields("FIRERED_LEAFGREEN"),
    COLOSSEUM |-> GCNFields, XD |-> GCNFields ]

(* The libraries are asked in this order what a file is. *)
Families == << {"COLOSSEUM", "XD"}, GBATypes, {"RED_BLUE", "YELLOW"}, {"GOLD_SILVER", "CRYSTAL"} >>

Detected(types) ==
  LET asked == {i \in DOMAIN Families : Families[i] \cap types # {}}
      first == CHOOSE i \in asked : \A j \in asked : i <= j
  IN CHOOSE type \in types : type \in Families[first]

(* Which of two games a save is of is not in the save: the title in the    *)
(* file's name decides, the first of these, or else the first game does.   *)
Titles ==
  [ RED_BLUE |-> << <<"red", "red">>, <<"blue", "blue">> >>,
    GOLD_SILVER |-> << <<"gold", "gold">>, <<"silver", "silver">> >>,
    RUBY_SAPPHIRE |-> << <<"ruby", "ruby">>, <<"sapphire", "sapphire">> >>,
    FIRERED_LEAFGREEN |-> << <<"firered", "firered">>, <<"fr", "firered">>,
                             <<"leafgreen", "leafgreen">>, <<"lg", "leafgreen">> >> ]

OneGame == [YELLOW |-> "yellow", CRYSTAL |-> "crystal", EMERALD |-> "emerald", COLOSSEUM |-> "colosseum", XD |-> "xd"]

GameNamed(type, name) ==
  LET found == {i \in DOMAIN Titles[type] : Titles[type][i][1] \in name}
      first == CHOOSE i \in found : \A j \in found : i <= j
  IN Titles[type][IF found = {} THEN 1 ELSE first][2]

GameLoaded(type, name) == IF type \in DOMAIN OneGame THEN OneGame[type] ELSE GameNamed(type, name)

(* A save comes from a file; in the byte for the gender there is anything. *)
Start(type, cell) ==
  LET whole == {f \in DOMAIN Fields[type] : Fields[type][f].cell = cell /\ Fields[type][f].mask = {}
                                           /\ DOMAIN Fields[type][f].code # {}}
      row == Fields[type][CHOOSE f \in whole : TRUE]
  IN IF whole = {} THEN {} ELSE CHOOSE s \in {row.code[v] : v \in DOMAIN row.code} : TRUE

StartOf(type, byte) ==
  [cell \in {Fields[type][f].cell : f \in DOMAIN Fields[type]} |->
     IF cell \in {"p_gender", "trainerGender"} THEN byte ELSE Start(type, cell)]

ASSUME CardAssumption ==
  /\ 0 \in Amounts
  /\ TrainerIDs # {}
  /\ \A types \in Lookalikes : types # {} /\ types \subseteq SaveTypes

CardInit ==
  /\ \E types \in Lookalikes : saveType = Detected(types)
  /\ saveGame \in {GameLoaded(saveType, name) : name \in FileNames}
  /\ card \in {StartOf(saveType, byte) : byte \in {0, 1, 255}}

CardTold(field) == ToldOf(Fields[saveType][field], card)

SetField(field, value) ==
  /\ field \in DOMAIN Fields[saveType]
  /\ value \in DOMAIN Fields[saveType][field].code
  /\ card' = Stored(card, Fields[saveType][field], value)
  /\ UNCHANGED <<saveType, saveGame>>

PartsKept == {part \in TimeParts : DOMAIN Fields[saveType][part].code # {}}
Fits(part, time) == time[part] \in DOMAIN Fields[saveType][part].code

(* Faulty variant of SetTimePlayed: part by part, until one is refused.    *)
SetTimeInTurn(time) ==
  /\ PartsKept # {}
  /\ card' = [cell \in DOMAIN card |->
                IF cell \in PartsKept /\ Fits(cell, time) THEN time[cell] ELSE card[cell]]
  /\ UNCHANGED <<saveType, saveGame>>

(* All parts are checked before one is written. *)
SetTimePlayed(time) ==
  /\ PartsKept # {}
  /\ \A part \in PartsKept : Fits(part, time)
  /\ card' = [cell \in DOMAIN card |-> IF cell \in PartsKept THEN time[cell] ELSE card[cell]]
  /\ UNCHANGED <<saveType, saveGame>>

(* save_as() and from_file(): a save is written as what it is. *)
LoadCard(name) ==
  /\ saveGame' = GameLoaded(saveType, name)
  /\ UNCHANGED <<saveType, card>>

CardNext ==
  \/ \E field \in DOMAIN CardInputs : \E value \in CardInputs[field] : SetField(field, value)
  \/ \E time \in TimesPlayed : SetTimePlayed(time)
  \/ \E name \in FileNames : LoadCard(name)

CardSpec == CardInit /\ [][CardNext]_cardVars

-----------------------------------------------------------------------------
(* What is told together: an ID and its halves; in three games the rival   *)
(* and the gender.                                                         *)
OneRecord(f, g) ==
  \/ {f, g} \subseteq {"publicId", "secretId", "trainerId"}
  \/ f = "gender" /\ g = "rivalName" /\ saveType \in {"RUBY_SAPPHIRE", "EMERALD"}

(* A setter of the card, except that of the time, sets what it is named    *)
(* after and nothing else.                                                 *)
CardSettersAreExact ==
  \A field \in DOMAIN CardInputs : \A value \in CardInputs[field] : SetField(field, value) =>
    /\ CardTold(field)' = value
    /\ \A other \in DOMAIN Fields[saveType] \ {field} :
         CardTold(other)' = CardTold(other) \/ OneRecord(field, other)

(* A time is set in all its parts or, when one is refused, in none.        *)
TimesAreSetWhole ==
  \A time \in TimesPlayed : SetTimePlayed(time) =>
    \A part \in TimeParts : CardTold(part)' = IF part \in PartsKept THEN time[part] ELSE 0

(* game_save_gbaimpl.cpp:90: the guess of the game keeps to the save's     *)
(* type, and to the title if the file's name has those of one game only.   *)
LoadsGuessWithinTheType ==
  \A name \in FileNames : LoadCard(name) /\ saveType \in DOMAIN Titles =>
      LET all == {Titles[saveType][i] : i \in DOMAIN Titles[saveType]}
          named == {t[2] : t \in {u \in all : u[1] \in name}}
      IN saveGame' \in {t[2] : t \in all} /\ (named = {} \/ saveGame' \in named)

(* An ID is its two halves; the rival is never of the trainer's gender.    *)
CardIsConsistent ==
  /\ CardTold("trainerId") =
       CardTold("publicId") \cup (IF saveType \in GBATypes \cup {"COLOSSEUM", "XD"}
                                 THEN Up(CardTold("secretId"), 16) ELSE {})
  /\ saveType \in {"RUBY_SAPPHIRE", "EMERALD"} =>
       (CardTold("rivalName") = "MAY" <=> CardTold("gender") = "MALE")

(* A trainer's card shows what was set, in any type of save, whatever else *)
(* is set before or after, and comes back from a file under any name.      *)
CardsAreKept ==
  [][CardIsConsistent' /\ CardSettersAreExact /\ TimesAreSetWhole /\ LoadsGuessWithinTheType]_cardVars
=============================================================================
