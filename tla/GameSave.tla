----------------------------- MODULE GameSave ------------------------------
(***************************************************************************)
(* A Game Boy save (lib/game_save_gen1impl.cpp, game_save_gen2impl.cpp,    *)
(* over game_save_impl.cpp and pokemon_pc_gen2impl.cpp): the objects that  *)
(* callers work on, the buffer that the save was loaded into, and the      *)
(* files.                                                                  *)
(*                                                                         *)
(* save_as() collects the objects' native structures in the buffer, one    *)
(* after the other, and writes the buffer to the file.  The mutex of an    *)
(* object is taken and released by its get_native(), so callers can change *)
(* one object while another is collected; callers who are careful do       *)
(* nothing while save_as() runs.  The PC keeps one box, the current one,   *)
(* in a place of its own and leaves an outdated copy of it among the       *)
(* others; the number of the current box may also be no box's number.      *)
(*                                                                         *)
(* What a party, a box or a bag does with its contents is the business of  *)
(* modules PokemonList, ItemList and ItemBag; here a list is a set of      *)
(* Pokemon, one of each species, and a bag is the number of the call that  *)
(* last changed it.                                                        *)
(***************************************************************************)
EXTENDS Integers, Sequences

CONSTANTS
  NumBoxes,        \* 12 in Generation I, 14 in Generation II
  Species,
  Names,           \* of boxes; Generation I has none, that is, a single one
  Files, NoFile,   \* the paths a save can be written to, and no content
  FirstFile,       \* the path it was loaded from
  MaxChanges,      \* bound: how many calls change an object
  CarefulCallers   \* do callers let save_as() run alone?

ASSUME GameSaveAssumption ==
  /\ NumBoxes \in Nat \ {0}
  /\ FirstFile \in Files /\ NoFile \notin Files
  /\ MaxChanges \in Nat
  /\ CarefulCallers \in BOOLEAN

VARIABLES
  changes,   \* how many calls have changed an object
  objects,   \* what the save's objects show
  buffer,    \* _pksav_save
  files,     \* the content of each file
  filepath,  \* _filepath
  made,      \* history: what the objects showed when each file was written
  putting,   \* a set_pokemon() that has not told the Pokedex yet, or Idle
  saving     \* where a save_as() is, or Idle

vars == <<changes, objects, buffer, files, filepath, made, putting, saving>>

Box == 0..NumBoxes-1
Party == -1
List == Box \cup {Party}
Idle == [op |-> "idle"]

(* Everything in a save, as the objects show it... *)
Contents == [ bag : 0..MaxChanges, itemPC : 0..MaxChanges, lists : [List -> SUBSET Species],
              names : [Box -> Names], pokedex : SUBSET Species ]

(* ...and as a file holds it.  The number of the current box is a byte,    *)
(* which has one value here that is the number of no box.                  *)
Images == [ bag : 0..MaxChanges, itemPC : 0..MaxChanges, lists : [List -> SUBSET Species],
            currentBoxNum : 0..NumBoxes, currentBox : SUBSET Species,
            names : [Box -> Names], pokedex : SUBSET Species ]

ASSUME NoFileAssumption == NoFile \notin Images

-----------------------------------------------------------------------------
(* The constructors over a loaded buffer. *)
Loaded(image) ==
  [ bag |-> image.bag, itemPC |-> image.itemPC,
    lists |-> [where \in List |->
                 IF where = image.currentBoxNum THEN image.currentBox ELSE image.lists[where]],
    names |-> image.names, pokedex |-> image.pokedex ]

Pokemon(contents) == UNION {contents.lists[where] : where \in List}

(* What the game wrote: its Pokemon are in its Pokedex.  The copy of the   *)
(* current box among the others, or the current box's place when there is  *)
(* no such box, can hold anything.                                         *)
Init ==
  /\ buffer \in { image \in Images :
                    image.bag = 0 /\ image.itemPC = 0 /\ Pokemon(Loaded(image)) = image.pokedex }
  /\ objects = Loaded(buffer)
  /\ changes = 0
  /\ files = [f \in Files |-> IF f = FirstFile THEN buffer ELSE NoFile]
  /\ made = [f \in Files |-> IF f = FirstFile THEN objects ELSE NoFile]
  /\ filepath = FirstFile
  /\ putting = Idle
  /\ saving = Idle

-----------------------------------------------------------------------------
(* What callers do to the objects. *)
Change ==
  /\ CarefulCallers => saving = Idle
  /\ changes < MaxChanges
  /\ changes' = changes + 1

ChangeItems ==
  /\ Change
  /\ \/ objects' = [objects EXCEPT !.bag = changes']
     \/ objects' = [objects EXCEPT !.itemPC = changes']
  /\ UNCHANGED <<buffer, files, filepath, made, putting, saving>>

SetBoxName(box, name) ==
  /\ Change
  /\ objects' = [objects EXCEPT !.names[box] = name]
  /\ UNCHANGED <<buffer, files, filepath, made, putting, saving>>

(* get_native() and set_pokemon() wait for a list that set_pokemon() holds. *)
Free(where) == putting # Idle => putting.where # where

(* set_pokemon() of the party or of a box: an empty Pokemon... *)
TakePokemon(where, species) ==
  /\ Change
  /\ Free(where)
  /\ objects' = [objects EXCEPT !.lists[where] = @ \ {species}]
  /\ UNCHANGED <<buffer, files, filepath, made, putting, saving>>

(* ...or another one, first in the list... *)
PutPokemon(where, species) ==
  /\ Change
  /\ putting = Idle
  /\ objects' = [objects EXCEPT !.lists[where] = @ \cup {species}]
  /\ putting' = [op |-> "put", where |-> where, species |-> species]
  /\ UNCHANGED <<buffer, files, filepath, made, saving>>

\* Faulty variant of RegisterPokemon: the box was never given the Pokedex.
RegisterPartyPokemon ==
  /\ putting # Idle
  /\ objects' = IF putting.where = Party
                  THEN [objects EXCEPT !.pokedex = @ \cup {putting.species}] ELSE objects
  /\ putting' = Idle
  /\ UNCHANGED <<changes, buffer, files, filepath, made, saving>>

(* ...and then in the Pokedex, with the list's mutex still held. *)
RegisterPokemon ==
  /\ putting # Idle
  /\ objects' = [objects EXCEPT !.pokedex = @ \cup {putting.species}]
  /\ putting' = Idle
  /\ UNCHANGED <<changes, buffer, files, filepath, made, saving>>

-----------------------------------------------------------------------------
(* save_as(); save() is save_as() with the path it knows. *)
BeginSave(file) ==
  /\ saving = Idle
  /\ CarefulCallers => putting = Idle
  /\ saving' = [op |-> "save", file |-> file, part |-> "bag", where |-> Party, asked |-> FALSE]
  /\ UNCHANGED <<changes, objects, buffer, files, filepath, made, putting>>

Collect(part, next, collected) ==
  /\ saving # Idle /\ saving.part = part
  /\ saving' = [saving EXCEPT !.part = next]
  /\ buffer' = collected
  /\ UNCHANGED <<changes, objects, files, filepath, made, putting>>

CollectBag == Collect("bag", "itemPC", [buffer EXCEPT !.bag = objects.bag])
CollectItemPC == Collect("itemPC", "lists", [buffer EXCEPT !.itemPC = objects.itemPC])
(* The party and, in the PC's _to_native(), each box: get_native() waits   *)
(* for the list's mutex and lets go of it...                               *)
AskList ==
  /\ saving # Idle /\ saving.part = "lists" /\ ~saving.asked
  /\ Free(saving.where)
  /\ saving' = [saving EXCEPT !.asked = TRUE]
  /\ UNCHANGED <<changes, objects, buffer, files, filepath, made, putting>>

\* Faulty variant of WithList: the current box has no place of its own.
WithListInArray(where) == [buffer EXCEPT !.lists[where] = objects.lists[where]]

(* ...before the native list is copied.  The current box goes to its own   *)
(* place, the array keeps what it had.                                     *)
WithList(where) ==
  IF where = buffer.currentBoxNum THEN [buffer EXCEPT !.currentBox = objects.lists[where]]
  ELSE [buffer EXCEPT !.lists[where] = objects.lists[where]]

CopyList ==
  /\ saving # Idle /\ saving.part = "lists" /\ saving.asked
  /\ buffer' = WithList(saving.where)
  /\ saving' = IF saving.where + 1 \in List
                 THEN [saving EXCEPT !.where = @ + 1, !.asked = FALSE]
                 ELSE [saving EXCEPT !.part = "pokedex"]
  /\ UNCHANGED <<changes, objects, files, filepath, made, putting>>

(* The names of the boxes stay behind in the PC's native structure. *)
CollectPokedex == Collect("pokedex", "write", [buffer EXCEPT !.pokedex = objects.pokedex])

\* Faulty variant of WriteFails: the new path is kept.
WriteFailsLate ==
  /\ saving # Idle /\ saving.part = "write"
  /\ filepath' = saving.file
  /\ saving' = Idle
  /\ UNCHANGED <<changes, objects, buffer, files, made, putting>>

(* The file cannot be written: an exception, before the path is kept. *)
WriteFails ==
  /\ saving # Idle /\ saving.part = "write"
  /\ saving' = Idle
  /\ UNCHANGED <<changes, objects, buffer, files, filepath, made, putting>>

WriteFile ==
  /\ saving # Idle /\ saving.part = "write"
  /\ files' = [files EXCEPT ![saving.file] = buffer]
  /\ made' = [made EXCEPT ![saving.file] = objects]
  /\ filepath' = saving.file
  /\ saving' = Idle
  /\ UNCHANGED <<changes, objects, buffer, putting>>

(* from_file(): a new save object takes the old one's place. *)
FromFile(file) ==
  /\ saving = Idle /\ putting = Idle
  /\ files[file] # NoFile
  /\ buffer' = files[file]
  /\ objects' = Loaded(files[file])
  /\ filepath' = file
  /\ UNCHANGED <<changes, files, made, putting, saving>>

Next ==
  \/ ChangeItems
  \/ \E box \in Box, name \in Names : SetBoxName(box, name)
  \/ \E where \in List, species \in Species : TakePokemon(where, species) \/ PutPokemon(where, species)
  \/ RegisterPokemon
  \/ \E file \in Files : BeginSave(file) \/ FromFile(file)
  \/ CollectBag \/ CollectItemPC \/ AskList \/ CopyList \/ CollectPokedex
  \/ WriteFile \/ WriteFails

Spec == Init /\ [][Next]_vars

-----------------------------------------------------------------------------
TypeOK ==
  /\ changes \in 0..MaxChanges
  /\ objects \in Contents
  /\ buffer \in Images
  /\ files \in [Files -> Images \cup {NoFile}]
  /\ made \in [Files -> Contents \cup {NoFile}]
  /\ filepath \in Files
  /\ putting \in {Idle} \cup [op : {"put"}, where : List, species : Species]
  /\ saving \in {Idle} \cup [op : {"save"}, file : Files, where : List, asked : BOOLEAN,
                             part : {"bag", "itemPC", "lists", "pokedex", "write"}]

Written == {file \in Files : files[file] # NoFile}

(* What a file that is loaded shows, but for the names of the boxes.       *)
HoldsWhatWasShown(file) ==
  [Loaded(files[file]) EXCEPT !.names = made[file].names] = made[file]

(* Whoever loads a file sees what the objects showed when it was written,  *)
(* wherever the current box is: the items, the party, every box and the    *)
(* Pokedex (compare_game_saves, cpp_game_save_test.cpp:884).  The path     *)
(* save() writes to is that of such a file, also after a write that        *)
(* failed: it never names a file that was not written.                     *)
FilesHoldWhatWasShown ==
  /\ TypeOK
  /\ filepath \in Written
  /\ \A file \in Written : HoldsWhatWasShown(file)

(* And the names of the boxes (cpp_game_save_test.cpp:1081)?  The code      *)
(* does not save them, so no run claims this. *)
FilesHoldBoxNames == \A file \in Written : files[file].names = made[file].names

(* "Any Pokemon in the party and PC must be in the Pokedex"                *)
(* (cpp_game_save_test.cpp:400), in every file.                            *)
SavedPokemonAreRegistered ==
  \A file \in Written : Pokemon(Loaded(files[file])) \subseteq files[file].pokedex
=============================================================================
