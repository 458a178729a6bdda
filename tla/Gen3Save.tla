------------------------------ MODULE Gen3Save ------------------------------
(***************************************************************************)
(* A save of Generation III with its party, its PC and its Pokedex         *)
(* (lib/game_save_gbaimpl.cpp, game_save_gcnimpl.cpp and the parties,      *)
(* boxes and PCs of the same names).                                       *)
(*                                                                         *)
(* A party or a box has a native structure and, for each of its places, an *)
(* object with a copy of its own, which callers get hold of and change;    *)
(* get_native() brings the structure up to date.  A set_pokemon() copies   *)
(* the given Pokemon and puts a new object in the place.  save_as()        *)
(* collects everything in the save that was loaded and writes it out.      *)
(* Module GameSave has the callers who do not wait for save_as(); here it  *)
(* is one step, and what matters is what the objects, the structures, the  *)
(* buffer and the files hold of each other.                                *)
(*                                                                         *)
(* The Game Boy Advance keeps the names and the wallpapers of the boxes    *)
(* beside them, and three copies of the 'seen' bits; the GameCube keeps    *)
(* the name in the box, has no wallpapers, and LibPKMN does not know its   *)
(* Pokedex.                                                                *)
(***************************************************************************)
EXTENDS Integers, FiniteSets

CONSTANTS
  PartySize, BoxSize,  \* 6, and 30 on both consoles
  NumBoxes,            \* 14, on the GameCube 3 or 8
  Species,
  Marks,               \* what a caller can change in a Pokemon
  Names,               \* of boxes
  Files, NoFile,       \* the paths a save can be written to, and no save
  FirstFile,           \* the path it was loaded from
  Games,               \* which of "RSE", "FRLG" and "GCN" there are
  FailingDisks,        \* bound: the games whose files can fail to be written
  Offered,             \* bound: the Pokemon that callers hand in
  GameMade,            \* bound: the Pokemon that are in the loaded save
  MaxCalls             \* bound: how many calls there are

NoSpecies == "none"
Mons == [species : Species \cup {NoSpecies}, egg : BOOLEAN, mark : Marks]
Empty(mon) == mon.species = NoSpecies
NoMon == [species |-> NoSpecies, egg |-> FALSE, mark |-> CHOOSE mark \in Marks : TRUE]

ASSUME SizesAssumption ==
  /\ PartySize \in Nat \ {0} /\ BoxSize \in Nat \ {0} /\ NumBoxes \in Nat
ASSUME MonsAssumption ==
  /\ NoSpecies \notin Species
  /\ \E mark \in Marks : TRUE
  /\ Offered \subseteq Mons /\ GameMade \subseteq {mon \in Mons : ~Empty(mon)}
ASSUME FilesAssumption ==
  /\ FirstFile \in Files /\ \E name \in Names : TRUE
  /\ Games \subseteq {"RSE", "FRLG", "GCN"} /\ FailingDisks \subseteq Games
  /\ MaxCalls \in Nat

VARIABLES
  game,          \* of the save; it stays
  lists,         \* _pokemon_list of the party and of each box
  natives,       \* _pksav_party, _pksav_box: the Pokemon in it...
  count,         \* ...and the number of those in the party
  boxes,         \* _box_name and _wallpaper of each box
  seen, caught,  \* the Pokedex
  held,          \* a variable of a caller with a Pokemon in it
  buffer,        \* _pksav_save, _current_slot
  files,         \* the save in each file
  filepath,      \* _filepath
  made,          \* history: what the objects showed when save_as() returned
  calls

vars == <<game, lists, natives, count, boxes, seen, caught, held, buffer, files, filepath, made, calls>>

Party == 0
Box == 1..NumBoxes
List == {Party} \cup Box
Place(where) == IF where = Party THEN 0..PartySize-1 ELSE 0..BoxSize-1
HasPokedex == game # "GCN"

(* Where the object in a caller's variable is, if it still is in a list. *)
Nowhere == [in |-> FALSE, where |-> Party, index |-> 0]
At(where, index) == [in |-> TRUE, where |-> where, index |-> index]
Held == IF held.at.in THEN lists[held.at.where][held.at.index] ELSE held.mon

-----------------------------------------------------------------------------
(* Wallpapers are numbered, and from 12 on Ruby, Sapphire and Emerald have *)
(* others than FireRed and LeafGreen.  A number of none is shown as        *)
(* "Forest".                                                               *)
GamesOwn == IF game = "FRLG" THEN "Stars" ELSE "Polka-Dot"
Wallpapers == IF game = "GCN" THEN {"Forest"} ELSE {"Forest", "City", GamesOwn}
WallpaperNumbers == {0, 1, 12, 16}

WallpaperOf(number) ==
  CASE number = 1 -> "City" [] number = 12 -> GamesOwn [] OTHER -> "Forest"

\* Faulty variant of NumberOf: the wallpapers of Ruby, Sapphire and Emerald only.
NumberOfRSE(wallpaper) ==
  CASE wallpaper = "City" -> 1 [] wallpaper = "Polka-Dot" -> 12 [] OTHER -> 0

NumberOf(wallpaper) ==
  CASE wallpaper = "City" -> 1 [] wallpaper = GamesOwn -> 12 [] OTHER -> 0

(* A Pokemon, or none, in each place. *)
Contents(mons) ==
  {p \in [List -> UNION {[Place(where) -> mons] : where \in List}] :
     \A where \in List : p[where] \in [Place(where) -> mons]}

(* A save as a file holds it. *)
Images ==
  [ pokemon : Contents(Mons),
    count : 0..PartySize, names : [Box -> Names], wallpapers : [Box -> WallpaperNumbers],
    seenA : SUBSET Species, seenB : SUBSET Species, seenC : SUBSET Species,
    owned : SUBSET Species ]

ASSUME NoFileAssumption == NoFile \notin Images

NumFilled(pokemon) == Cardinality({i \in DOMAIN pokemon : ~Empty(pokemon[i])})

(* _from_native() of the party.  On the Game Boy Advance "memory is not    *)
(* necessarily zeroed-out past the num_pokemon point".                     *)
LoadedParty(image) ==
  [i \in Place(Party) |->
    IF HasPokedex /\ i >= image.count THEN NoMon ELSE image.pokemon[Party][i]]

LoadedCount(image) == IF HasPokedex THEN image.count ELSE NumFilled(image.pokemon[Party])

LoadedLists(image) == [image.pokemon EXCEPT ![Party] = LoadedParty(image)]
LoadedBoxes(image) ==
  [box \in Box |-> [ name |-> image.names[box], wallpaper |-> WallpaperOf(image.wallpapers[box]) ]]

(* What callers see of a save, and what they would see of a file. *)
Shown == [ lists |-> lists, count |-> count, boxes |-> boxes, seen |-> seen, caught |-> caught ]
ShownBy(image) ==
  [ lists |-> LoadedLists(image), count |-> LoadedCount(image), boxes |-> LoadedBoxes(image),
    seen |-> image.seenA, caught |-> image.owned ]

Registered(mons) == {mon.species : mon \in {m \in mons : ~Empty(m) /\ ~m.egg}}
MonsOf(pokemon) == UNION {{pokemon[where][i] : i \in Place(where)} : where \in List}

(* The constructors over what is in the file. *)
Load(image) ==
  /\ buffer' = image
  /\ lists' = LoadedLists(image)
  /\ natives' = LoadedLists(image)
  /\ count' = LoadedCount(image)
  /\ boxes' = LoadedBoxes(image)
  /\ seen' = image.seenA
  /\ caught' = image.owned

(* What the game wrote: a party without gaps, on the Game Boy Advance with *)
(* remains of others behind it, boxes with gaps, three equal copies of the *)
(* 'seen' bits, a number for each wallpaper that may be none's, and in the *)
(* Pokedex whatever is there and is no egg.                                *)
SavedByGame ==
  { image \in [ pokemon : Contents(GameMade \cup {NoMon}),
                count : 0..PartySize, names : {[box \in Box |-> CHOOSE name \in Names : TRUE]},
                wallpapers : [Box -> IF HasPokedex THEN {12, 16} ELSE {0}],
                seenA : SUBSET Species, seenB : SUBSET Species, seenC : SUBSET Species,
                owned : SUBSET Species ] :
      /\ \E k \in image.count..PartySize :
           /\ \A i \in Place(Party) : i < k <=> ~Empty(image.pokemon[Party][i])
           /\ ~HasPokedex => k = image.count
      /\ image.owned = IF HasPokedex THEN Registered(MonsOf(LoadedLists(image))) ELSE {}
      /\ image.seenA = image.owned /\ image.seenB = image.owned /\ image.seenC = image.owned }

Init ==
  /\ game \in Games
  /\ buffer \in SavedByGame
  /\ lists = LoadedLists(buffer) /\ natives = lists
  /\ count = LoadedCount(buffer)
  /\ boxes = LoadedBoxes(buffer)
  /\ seen = buffer.seenA /\ caught = buffer.owned
  /\ held = [at |-> Nowhere, mon |-> NoMon]
  /\ files = [f \in Files |-> IF f = FirstFile THEN buffer ELSE NoFile]
  /\ made = [f \in Files |-> IF f = FirstFile THEN Shown ELSE NoFile]
  /\ filepath = FirstFile
  /\ calls = 0

-----------------------------------------------------------------------------
Call ==
  /\ calls < MaxCalls
  /\ calls' = calls + 1
  /\ UNCHANGED game

(* get_pokemon() of the party or of a box. *)
Hold(where, index) ==
  /\ Call
  /\ held' = [at |-> At(where, index), mon |-> NoMon]
  /\ UNCHANGED <<lists, natives, count, boxes, seen, caught, buffer, files, filepath, made>>

(* Any setter of the Pokemon in the variable; module Gen3Pokemon has them. *)
ChangeHeld(mark) ==
  /\ Call
  /\ ~Empty(Held)
  /\ IF held.at.in
       THEN /\ lists' = [lists EXCEPT ![held.at.where][held.at.index].mark = mark]
            /\ UNCHANGED held
       ELSE /\ held' = [held EXCEPT !.mon.mark = mark]
            /\ UNCHANGED lists
  /\ UNCHANGED <<natives, count, boxes, seen, caught, buffer, files, filepath, made>>

(* A party stores Pokemon contiguously; a box has gaps, and its index is   *)
(* checked against the capacity itself and then again by at().             *)
Fits(where, index, mon) ==
  /\ index \in Place(where)
  /\ where = Party => /\ index <= count
                      /\ ~(index < count - 1 /\ Empty(mon))

CountAfter(where, index, mon) ==
  IF where = Party /\ index = count /\ ~Empty(mon) THEN count + 1
  ELSE IF where = Party /\ index = count - 1 /\ Empty(mon) THEN count - 1
  ELSE count

(* set_has_seen(species, true), set_has_caught(species, true) *)
Register(where, mon) ==
  /\ seen' = IF HasPokedex THEN seen \cup Registered({mon}) ELSE seen
  /\ caught' = IF HasPokedex THEN caught \cup Registered({mon}) ELSE caught

\* Faulty variant of Replaced: the place keeps its object, whose data is overwritten.
ReplacedInPlace(where, index) == held

(* A variable keeps the object that was in the place. *)
Replaced(where, index) ==
  IF held.at = At(where, index) THEN [at |-> Nowhere, mon |-> Held] ELSE held

\* Faulty variant of Put: the native structure waits for get_native().
PutObject(where, index, mon) ==
  /\ lists' = [lists EXCEPT ![where][index] = mon]
  /\ UNCHANGED natives

Put(where, index, mon) ==
  /\ lists' = [lists EXCEPT ![where][index] = mon]
  /\ natives' = [natives EXCEPT ![where][index] = mon]

(* set_pokemon() of the party or of a box.  The Pokemon given is a new one *)
(* or the one in the variable, which a box refuses to set to itself.       *)
SetPokemon(where, index, mon) ==
  /\ Call
  /\ mon \in Offered \cup {Held}
  /\ Fits(where, index, mon)
  /\ mon \notin Offered => ~(where # Party /\ held.at = At(where, index))
  /\ Put(where, index, mon)
  /\ count' = CountAfter(where, index, mon)
  /\ Register(where, mon)
  /\ held' = Replaced(where, index)
  /\ UNCHANGED <<boxes, buffer, files, filepath, made>>

SetBoxName(box, name) ==
  /\ Call
  /\ boxes' = [boxes EXCEPT ![box].name = name]
  /\ UNCHANGED <<lists, natives, count, seen, caught, held, buffer, files, filepath, made>>

SetWallpaper(box, wallpaper) ==
  /\ Call
  /\ HasPokedex
  /\ boxes' = [boxes EXCEPT ![box].wallpaper = wallpaper]
  /\ UNCHANGED <<lists, natives, count, seen, caught, held, buffer, files, filepath, made>>

-----------------------------------------------------------------------------
\* Faulty variant of WithPokedex: the second copy is as old as the third.
WithFirstCopy(image) ==
  IF HasPokedex THEN [image EXCEPT !.seenA = seen, !.owned = caught] ELSE image

(* The Pokedex in the save: 'seen' goes to the first copy, to the second,  *)
(* and to the second again.  The GameCube's is not touched.                *)
WithPokedex(image) ==
  IF HasPokedex THEN [image EXCEPT !.seenA = seen, !.seenB = seen, !.owned = caught] ELSE image

(* Everything that save_as() collects: get_native() of the party, and of   *)
(* the PC, which asks each box and adds the names and the wallpapers.      *)
Collected ==
  WithPokedex([buffer EXCEPT !.pokemon = lists, !.count = count,
                             !.names = [box \in Box |-> boxes[box].name],
                             !.wallpapers = [box \in Box |-> NumberOf(boxes[box].wallpaper)]])

Collect ==
  /\ buffer' = Collected
  /\ natives' = lists
  /\ UNCHANGED <<lists, count, boxes, seen, caught, held>>

SaveAs(file) ==
  /\ Call
  /\ Collect
  /\ files' = [files EXCEPT ![file] = Collected]
  /\ made' = [made EXCEPT ![file] = Shown]
  /\ filepath' = file

(* The file cannot be opened, and is as before, or cannot be written to    *)
(* its end.  On the Game Boy Advance that is an exception; the GameCube's  *)
(* write_file() does not look at its stream, and save_as() returns.        *)
SaveFails(file) ==
  /\ Call
  /\ game \in FailingDisks
  /\ Collect
  /\ \E left \in {files[file], NoFile} :
       /\ files' = [files EXCEPT ![file] = left]
       /\ IF game = "GCN"
            THEN /\ made' = [made EXCEPT ![file] = Shown]
                 /\ filepath' = file
            ELSE /\ made' = IF left = NoFile THEN [made EXCEPT ![file] = NoFile] ELSE made
                 /\ UNCHANGED filepath

(* from_file(): a new save takes the old one's place; the variable keeps   *)
(* its Pokemon.                                                            *)
FromFile(file) ==
  /\ Call
  /\ files[file] # NoFile
  /\ Load(files[file])
  /\ filepath' = file
  /\ held' = [at |-> Nowhere, mon |-> Held]
  /\ UNCHANGED <<files, made>>

Next ==
  \/ \E where \in List : \E index \in Place(where) : Hold(where, index)
  \/ \E mark \in Marks : ChangeHeld(mark)
  \/ \E where \in List, index \in 0..PartySize+BoxSize, mon \in Offered \cup {Held} :
       SetPokemon(where, index, mon)
  \/ \E box \in Box, name \in Names : SetBoxName(box, name)
  \/ \E box \in Box : \E wallpaper \in Wallpapers : SetWallpaper(box, wallpaper)
  \/ \E file \in Files : SaveAs(file) \/ SaveFails(file) \/ FromFile(file)

Spec == Init /\ [][Next]_vars

-----------------------------------------------------------------------------
TypeOK ==
  /\ game \in Games
  /\ {lists, natives} \subseteq Contents(Mons)
  /\ count \in 0..PartySize
  /\ boxes \in [Box -> [name : Names, wallpaper : Wallpapers]]
  /\ {seen, caught} \subseteq SUBSET Species
  /\ Held \in Mons
  /\ buffer \in Images
  /\ \A file \in Files : files[file] \in Images \cup {NoFile}
  /\ filepath \in Files
  /\ calls \in 0..MaxCalls

(* "Parties store Pokemon contiguously" (pokemon_party_gbaimpl.cpp:68):    *)
(* whatever is set, taken, saved and loaded, the Pokemon are those before  *)
(* the count.                                                              *)
PartyIsContiguous == \A i \in Place(Party) : i < count <=> ~Empty(lists[Party][i])

(* get_num_pokemon() of a box counts in the native structure, which lags   *)
(* behind the objects; it gives the number of Pokemon that callers see.    *)
BoxCountIsExact == \A box \in Box : NumFilled(natives[box]) = NumFilled(lists[box])

(* Parties and boxes alike: get_num_pokemon() tells how many there are.    *)
CountsAreExact == PartyIsContiguous /\ BoxCountIsExact

(* A save_as() that returned has written what the objects showed: whoever  *)
(* loads the file sees the same party, boxes, names, wallpapers and        *)
(* Pokedex ("throws std::runtime_error if the save operation failed",      *)
(* include/pkmn/game_save.hpp:95).                                         *)
FilesHoldWhatWasShown ==
  \A file \in Files :
    made[file] # NoFile => files[file] # NoFile /\ ShownBy(files[file]) = made[file]

(* "Any Pokemon in the party and PC must be in the Pokedex"                *)
(* (cpp_game_save_test.cpp:400), in every file that a Game Boy Advance     *)
(* game reads, unless it is an egg; the copies of 'seen' that are written  *)
(* agree, and the third knows no more than they do.  The rest of the state *)
(* has its type.                                                           *)
SavedPokemonAreRegistered ==
  /\ TypeOK
  /\ HasPokedex =>
    \A file \in Files :
      files[file] # NoFile =>
        /\ Registered(MonsOf(LoadedLists(files[file]))) \subseteq files[file].owned \cap files[file].seenA
        /\ files[file].seenB = files[file].seenA
        /\ files[file].seenC \subseteq files[file].seenA

(* "All existing variables will correspond to the same Pokemon, even if    *)
(* their underlying memory has changed" (pokemon_party_gbaimpl.cpp:94):    *)
(* only the setters of a Pokemon change the one in a caller's variable.    *)
VariablesKeepTheirPokemon ==
  [][(\E mark \in Marks : ChangeHeld(mark)) \/ (\E where \in List : \E index \in Place(where) : Hold(where, index))
       \/ Held' = Held]_vars
=============================================================================
