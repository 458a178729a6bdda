----------------------------- MODULE MCBreeding -----------------------------
(* Species with every rule of their own, and one without; each behaviour   *)
(* asks about the species, the moves or the IVs of a child: every pair is  *)
(* asked for its species, and one pair of each kind for the rest.  Or it   *)
(* is of a daycare, where two Pokemon, of which one has a nickname and may *)
(* be an egg, are stored in all places.                                    *)
EXTENDS Breeding, Daycare, TLC

VARIABLE topic

AllSpecies == {
  "DITTO", "NIDORAN_F", "NIDORAN_M", "NIDOQUEEN", "VOLBEAT", "ILLUMISE", "MANAPHY", "PHIONE",
  "MARILL", "AZUMARILL", "AZURILL", "MAGNEMITE", "VOLTORB", "PIKACHU", "PICHU", "JYNX", "SMOOCHUM" }

From == [s \in AllSpecies |->
  CASE s = "AZUMARILL" -> "MARILL" [] s = "MARILL" -> "AZURILL" [] s = "PIKACHU" -> "PICHU"
    [] s = "JYNX" -> "SMOOCHUM" [] OTHER -> "NONE"]

Introduced == [s \in AllSpecies |->
  CASE s \in {"MARILL", "AZUMARILL", "PICHU", "SMOOCHUM"} -> 2
    [] s \in {"AZURILL", "VOLBEAT", "ILLUMISE"} -> 3
    [] s \in {"MANAPHY", "PHIONE"} -> 4
    [] OTHER -> 1]

OneOrTwo == [s \in AllSpecies |->
  CASE s \in {"DITTO", "MANAPHY", "PHIONE", "MAGNEMITE", "VOLTORB"} -> {}
    [] s \in {"NIDORAN_M", "VOLBEAT"} -> {"MALE"}
    [] s \in {"NIDORAN_F", "NIDOQUEEN", "ILLUMISE", "JYNX", "SMOOCHUM"} -> {"FEMALE"}
    [] OTHER -> {"MALE", "FEMALE"}]

Groups == [s \in AllSpecies |->
  CASE s = "DITTO" -> {"DITTO"}
    [] s \in {"NIDORAN_F", "NIDORAN_M"} -> {"MONSTER", "GROUND"}
    [] s \in {"NIDOQUEEN", "AZURILL", "PICHU", "SMOOCHUM"} -> {"UNDISCOVERED"}
    [] s \in {"VOLBEAT", "ILLUMISE"} -> {"BUG", "HUMANSHAPE"}
    [] s \in {"MANAPHY", "PHIONE", "MARILL", "AZUMARILL"} -> {"WATER1", "FAIRY"}
    [] s \in {"MAGNEMITE", "VOLTORB"} -> {"MINERAL"}
    [] s = "JYNX" -> {"HUMANSHAPE"}
    [] OTHER -> {"GROUND", "FAIRY"}]

Lines == {[species |-> {"MARILL", "AZUMARILL"}, add |-> "MARILL"]}

SevenGames == {"GOLD", "CRYSTAL", "RUBY", "EMERALD", "DIAMOND", "BLACK", "X"}
Generations == [g \in SevenGames |->
  CASE g \in {"GOLD", "CRYSTAL"} -> 2 [] g \in {"RUBY", "EMERALD"} -> 3
    [] g = "DIAMOND" -> 4 [] g = "BLACK" -> 5 [] g = "X" -> 6]

PichuLike(moves) == [g \in SevenGames |-> [s \in AllSpecies |-> IF s = "PICHU" THEN moves ELSE {}]]

Eggs == PichuLike({"WISH", "ENCORE"})
Machines == PichuLike({"THUNDERBOLT", "ENCORE"})
Tutored == [s \in AllSpecies |-> IF s = "PICHU" THEN {"SWIFT"} ELSE {}]
Levels == [g \in SevenGames |-> [s \in AllSpecies |-> IF s # "PICHU" THEN <<>> ELSE
  << [move |-> "THUNDERSHOCK", level |-> 1], [move |-> "CHARM", level |-> 1],
     [move |-> "TAIL_WHIP", level |-> 5], [move |-> "SWEET_KISS", level |-> 11],
     [move |-> "CHARM", level |-> 16] >>]]

FourEach == {
  <<"NONE", "NONE", "NONE", "NONE">>, <<"WISH", "SWIFT", "SLAM", "NONE">>,
  <<"ENCORE", "WISH", "THUNDERBOLT", "SWEET_KISS">>, <<"CHARM", "SWEET_KISS", "TAIL_WHIP", "SLAM">>,
  <<"THUNDERBOLT", "THUNDERSHOCK", "SWIFT", "SLAM">> }

GBIVs == { [ATTACK |-> a, DEFENSE |-> d, SPEED |-> 7, SPECIAL |-> s] :
             a \in {0, 15}, d \in {1, 10}, s \in {0, 7, 8, 15} }

IVOf(hp, atk, def, spd, spa, sde) ==
  [HP |-> hp, ATTACK |-> atk, DEFENSE |-> def, SPEED |-> spd, SPATK |-> spa, SPDEF |-> sde]

ModernIVs == {
  IVOf(0, 0, 0, 0, 0, 0), IVOf(31, 31, 31, 31, 31, 31), IVOf(31, 10, 20, 20, 5, 0),
  IVOf(12, 12, 30, 12, 12, 12), IVOf(0, 1, 2, 3, 4, 5), IVOf(30, 29, 28, 27, 26, 25),
  IVOf(7, 31, 7, 0, 31, 7), IVOf(15, 15, 16, 16, 17, 17) }

IVChoices == [g \in 2..6 |-> IF g = 2 THEN GBIVs ELSE ModernIVs]

(* e_stat: HP, ATTACK, DEFENSE, SPEED, SPECIAL, SPATK, SPDEF *)
StatOrder == [s \in {"HP", "ATTACK", "DEFENSE", "SPEED", "SPECIAL", "SPATK", "SPDEF"} |->
  CASE s = "HP" -> 1 [] s = "ATTACK" -> 2 [] s = "DEFENSE" -> 3 [] s = "SPEED" -> 4
    [] s = "SPECIAL" -> 5 [] s = "SPATK" -> 6 [] OTHER -> 7]

PairsForMoves == {<<"PIKACHU", "PIKACHU">>, <<"DITTO", "PIKACHU">>}
PairsForIVs == {<<"PIKACHU", "MARILL">>, <<"DITTO", "PIKACHU">>, <<"MAGNEMITE", "DITTO">>}

Nicknamed == [data |-> [species |-> "PICHU", level |-> 5], name |-> "NICK", egg |-> TRUE]
Unnamed == [data |-> [species |-> "JYNX", level |-> 5], name |-> "SPECIES", egg |-> FALSE]
TwoOffered == {Nicknamed, Unnamed}

MCInit ==
  /\ topic \in {"species", "moves", "IVs", "daycare"}
  /\ topic # "daycare" => kind = "gen1"
  /\ DaycareInit
  /\ topic = "daycare" => mother = Parent("DITTO", "GOLD") /\ father = Parent("PICHU", "GOLD")
  /\ Init
  /\ topic = "moves" => <<mother.species, father.species>> \in PairsForMoves /\ mother.game = father.game
  /\ topic = "IVs" =>
       /\ <<mother.species, father.species>> \in PairsForIVs
       /\ mother.game = father.game /\ Generation[mother.game] \in 2..3

PairNext ==
  \/ AskNext
  \/ topic = "moves" /\ \E moves \in MoveLists : Teach(moves)
  \/ topic = "moves" /\ \E item \in {"NONE", LightBall} : Hold(item)
  \/ topic = "IVs" /\ \E IVs \in IVLists[Generation[mother.game]] : SetIVs(IVs)

MCNext ==
  /\ \/ topic # "daycare" /\ PairNext /\ UNCHANGED daycareVars
     \/ topic = "daycare" /\ DaycareNext /\ UNCHANGED vars
  /\ UNCHANGED topic

MCSpec == MCInit /\ [][MCNext]_<<vars, daycareVars, topic>>
=============================================================================
