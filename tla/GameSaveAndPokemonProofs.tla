---------------------- MODULE GameSaveAndPokemonProofs ----------------------
(***************************************************************************)
(* Theorems about the saves of the Game Boys, for any number of boxes and  *)
(* of paths, and for callers who let save_as() run alone; and about the    *)
(* Pokemon of Generation III, for any games, species, moves and random     *)
(* personalities.                                                          *)
(***************************************************************************)
EXTENDS GameSave, Gen3Pokemon, FiniteSetTheorems, WellFoundedInduction, TLAPS


LEMMA ListType == Party \in List /\ Box \subseteq List /\ List = -1..NumBoxes-1
BY GameSaveAssumption DEF List, Box, Party

(* What a loaded image shows is the contents of a save. *)
LEMMA LoadedType ==
  ASSUME NEW image \in Images
  PROVE  /\ Loaded(image) \in Contents
         /\ Loaded(image).pokedex = image.pokedex
         /\ \A where \in List : Loaded(image).lists[where] =
              IF where = image.currentBoxNum THEN image.currentBox ELSE image.lists[where]
BY DEF Loaded, Images, Contents

(* Two contents that agree on all but the names show the same.             *)
LEMMA SameContents ==
  ASSUME NEW a \in Contents, NEW b \in Contents,
         a.bag = b.bag, a.itemPC = b.itemPC, a.pokedex = b.pokedex,
         \A where \in List : a.lists[where] = b.lists[where]
  PROVE  [a EXCEPT !.names = b.names] = b
<1>1. a.lists = b.lists
  BY DEF Contents
<1>2. QED
  BY <1>1 DEF Contents

-----------------------------------------------------------------------------
(* While save_as() runs alone, the buffer shows what the objects show in   *)
(* the parts that were collected...                                        *)
Collected ==
  saving # Idle =>
    /\ putting = Idle
    /\ saving.part \in {"bag", "itemPC"} => saving.where = Party
    /\ saving.part # "bag" => buffer.bag = objects.bag
    /\ saving.part \notin {"bag", "itemPC"} => buffer.itemPC = objects.itemPC
    /\ \A where \in List :
         saving.part \in {"pokedex", "write"} \/ (saving.part = "lists" /\ where < saving.where) =>
           Loaded(buffer).lists[where] = objects.lists[where]
    /\ saving.part = "write" => buffer.pokedex = objects.pokedex

(* ...every Pokemon is in the Pokedex, or its set_pokemon() is under way...*)
Registered(contents) == \A where \in List : contents.lists[where] \subseteq contents.pokedex
ObjectsAreRegistered ==
  \A where \in List :
    objects.lists[where] \subseteq
      objects.pokedex \cup (IF putting = Idle THEN {} ELSE {putting.species})

(* ...and each file was written from objects that were.                    *)
FilesAreRight ==
  \A file \in Written : /\ made[file] \in Contents
                        /\ HoldsWhatWasShown(file)
                        /\ Registered(Loaded(files[file]))

IInv ==
  /\ TypeOK
  /\ filepath \in Written
  /\ Collected
  /\ ObjectsAreRegistered
  /\ FilesAreRight

LEMMA InitInvariant == Init => IInv
<1> SUFFICES ASSUME Init PROVE IInv
  OBVIOUS
<1>1. /\ buffer \in Images /\ buffer # NoFile /\ objects = Loaded(buffer) /\ objects \in Contents
      /\ putting = Idle /\ saving = Idle /\ filepath = FirstFile /\ FirstFile \in Files
      /\ changes = 0 /\ 0 \in 0..MaxChanges
  BY LoadedType, NoFileAssumption, GameSaveAssumption DEF Init
<1>2. /\ files \in [Files -> Images \cup {NoFile}] /\ files[FirstFile] = buffer
      /\ made \in [Files -> Contents \cup {NoFile}] /\ made[FirstFile] = objects
      /\ \A file \in Files \ {FirstFile} : files[file] = NoFile
  BY <1>1 DEF Init
<1>3. Written = {FirstFile}
  BY <1>1, <1>2 DEF Written
<1>4. Registered(objects)
  BY <1>1, LoadedType DEF Init, Registered, Pokemon
<1>5. HoldsWhatWasShown(FirstFile)
  BY <1>1, <1>2 DEF HoldsWhatWasShown, Contents
<1>6. TypeOK
  BY <1>1, <1>2 DEF TypeOK
<1>7. Collected /\ ObjectsAreRegistered
  BY <1>1, <1>4 DEF Collected, ObjectsAreRegistered, Registered
<1>8. QED
  BY <1>1, <1>2, <1>3, <1>4, <1>5, <1>6, <1>7 DEF IInv, FilesAreRight

(* A step that leaves the files alone keeps what is true of them. *)
LEMMA FilesAlone ==
  ASSUME IInv, UNCHANGED <<files, made>>
  PROVE  FilesAreRight' /\ Written' = Written
BY DEF IInv, FilesAreRight, Written, HoldsWhatWasShown

(* What a save under way knows, of another kind of part.                   *)
LEMMA SavingType ==
  ASSUME TypeOK, saving # Idle
  PROVE  saving \in [op : {"save"}, file : Files, where : List, asked : BOOLEAN,
                     part : {"bag", "itemPC", "lists", "pokedex", "write"}]
BY DEF TypeOK

(* A caller changes an object: no save is under way. *)
LEMMA ChangeKeeps ==
  ASSUME CarefulCallers, IInv, Change, objects' \in Contents, ObjectsAreRegistered',
         putting' \in {Idle} \cup [op : {"put"}, where : List, species : Species],
         UNCHANGED <<buffer, files, filepath, made, saving>>
  PROVE  IInv'
<1>1. saving' = Idle /\ changes' \in 0..MaxChanges
  BY GameSaveAssumption DEF Change, IInv, TypeOK
<1>2. TypeOK'
  BY <1>1 DEF IInv, TypeOK
<1>3. Collected'
  BY <1>1 DEF Collected
<1>4. QED
  BY <1>2, <1>3, FilesAlone DEF IInv

(* A part is collected, and the next one is about to be. *)
LEMMA CollectKeeps ==
  ASSUME IInv, saving # Idle, buffer' \in Images, Collected',
         saving' \in [op : {"save"}, file : Files, where : List, asked : BOOLEAN,
                      part : {"bag", "itemPC", "lists", "pokedex", "write"}],
         UNCHANGED <<changes, objects, files, filepath, made, putting>>
  PROVE  IInv'
<1>1. TypeOK'
  BY DEF IInv, TypeOK
<1>2. ObjectsAreRegistered'
  BY DEF IInv, ObjectsAreRegistered
<1>3. QED
  BY <1>1, <1>2, FilesAlone DEF IInv

LEMMA StepInvariant == CarefulCallers /\ IInv /\ [Next]_vars => IInv'
<1> SUFFICES ASSUME CarefulCallers, IInv, [Next]_vars PROVE IInv'
  OBVIOUS
<1>0. /\ objects \in Contents /\ buffer \in Images /\ changes \in 0..MaxChanges
      /\ putting \in {Idle} \cup [op : {"put"}, where : List, species : Species]
  BY DEF IInv, TypeOK
<1>1. CASE ChangeItems
  <2>1. changes' \in 0..MaxChanges
    BY <1>0, <1>1, GameSaveAssumption DEF ChangeItems, Change
  <2>2. objects' \in Contents /\ objects'.lists = objects.lists /\ objects'.pokedex = objects.pokedex
    BY <1>0, <1>1, <2>1 DEF ChangeItems, Contents
  <2>3. ObjectsAreRegistered'
    BY <1>1, <2>2 DEF ChangeItems, IInv, ObjectsAreRegistered
  <2>4. QED
    BY <1>0, <1>1, <2>2, <2>3, ChangeKeeps DEF ChangeItems
<1>2. ASSUME NEW box \in Box, NEW name \in Names, SetBoxName(box, name) PROVE IInv'
  <2>1. objects' \in Contents /\ objects'.lists = objects.lists /\ objects'.pokedex = objects.pokedex
    BY <1>0, <1>2 DEF SetBoxName, Contents
  <2>2. ObjectsAreRegistered'
    BY <1>2, <2>1 DEF SetBoxName, IInv, ObjectsAreRegistered
  <2>3. QED
    BY <1>0, <1>2, <2>1, <2>2, ChangeKeeps DEF SetBoxName
<1>3. ASSUME NEW where \in List, NEW kind \in Species, TakePokemon(where, kind) PROVE IInv'
  <2>1. /\ objects' \in Contents /\ objects'.pokedex = objects.pokedex
        /\ \A w \in List : objects'.lists[w] \subseteq objects.lists[w]
    BY <1>0, <1>3 DEF TakePokemon, Contents
  <2>2. ObjectsAreRegistered'
    BY <1>3, <2>1 DEF TakePokemon, IInv, ObjectsAreRegistered
  <2>3. QED
    BY <1>0, <1>3, <2>1, <2>2, ChangeKeeps DEF TakePokemon
<1>4. ASSUME NEW where \in List, NEW kind \in Species, PutPokemon(where, kind) PROVE IInv'
  <2>1. /\ objects' \in Contents /\ objects'.pokedex = objects.pokedex
        /\ \A w \in List : objects'.lists[w] \subseteq objects.lists[w] \cup {kind}
    BY <1>0, <1>4 DEF PutPokemon, Contents
  <2>2. /\ putting = Idle /\ putting' # Idle /\ putting'.species = kind
        /\ putting' \in [op : {"put"}, where : List, species : Species]
    BY <1>4 DEF PutPokemon, Idle
  <2>3. ObjectsAreRegistered'
    BY <2>1, <2>2 DEF IInv, ObjectsAreRegistered
  <2>4. QED
    BY <1>4, <2>1, <2>2, <2>3, ChangeKeeps DEF PutPokemon
<1>5. CASE RegisterPokemon
  <2>1. saving = Idle /\ putting' = Idle /\ putting.species \in Species
    BY <1>0, <1>5 DEF RegisterPokemon, IInv, Collected
  <2>2. /\ objects' \in Contents /\ objects'.lists = objects.lists
        /\ objects'.pokedex = objects.pokedex \cup {putting.species}
    BY <1>0, <1>5, <2>1 DEF RegisterPokemon, Contents
  <2>3. ObjectsAreRegistered'
    BY <1>5, <2>1, <2>2 DEF RegisterPokemon, IInv, ObjectsAreRegistered
  <2>4. TypeOK' /\ Collected'
    BY <1>5, <2>1, <2>2 DEF RegisterPokemon, IInv, TypeOK, Collected
  <2>5. QED
    BY <1>5, <2>3, <2>4, FilesAlone DEF RegisterPokemon, IInv
<1>6. ASSUME NEW file \in Files, BeginSave(file) PROVE IInv'
  <2>1. /\ saving' = [op |-> "save", file |-> file, part |-> "bag", where |-> Party, asked |-> FALSE]
        /\ putting' = Idle /\ UNCHANGED <<changes, objects, buffer, files, filepath, made, putting>>
    BY <1>6 DEF BeginSave
  <2>2. saving' \in [op : {"save"}, file : Files, where : List, asked : BOOLEAN,
                     part : {"bag", "itemPC", "lists", "pokedex", "write"}]
    BY <2>1, ListType
  <2>3. Collected'
    BY <2>1 DEF Collected
  <2>4. TypeOK' /\ ObjectsAreRegistered'
    BY <2>1, <2>2 DEF IInv, TypeOK, ObjectsAreRegistered
  <2>5. QED
    BY <2>1, <2>3, <2>4, FilesAlone DEF IInv
<1>7. ASSUME NEW file \in Files, FromFile(file) PROVE IInv'
  <2>1. file \in Written /\ files[file] \in Images
    BY <1>7 DEF FromFile, Written, IInv, TypeOK
  <2>2. /\ saving' = Idle /\ putting' = Idle /\ objects' = Loaded(files[file]) /\ objects' \in Contents
        /\ buffer' \in Images /\ filepath' = file
    BY <1>7, <2>1, LoadedType DEF FromFile
  <2>3. ObjectsAreRegistered'
    BY <2>1, <2>2 DEF IInv, FilesAreRight, ObjectsAreRegistered, Registered
  <2>4. TypeOK' /\ Collected'
    BY <1>7, <2>2 DEF FromFile, IInv, TypeOK, Collected
  <2>5. QED
    BY <1>7, <2>1, <2>2, <2>3, <2>4, FilesAlone DEF FromFile, IInv
<1>8. CASE CollectBag
  <2>1. saving # Idle /\ saving.part = "bag" /\ saving' = [saving EXCEPT !.part = "itemPC"]
        /\ buffer' = [buffer EXCEPT !.bag = objects.bag]
        /\ UNCHANGED <<changes, objects, files, filepath, made, putting>>
    BY <1>8 DEF CollectBag, Collect
  <2>2. saving' \in [op : {"save"}, file : Files, where : List, asked : BOOLEAN,
                     part : {"bag", "itemPC", "lists", "pokedex", "write"}] /\ saving'.part = "itemPC"
    BY <2>1, SavingType DEF IInv
  <2>3. buffer' \in Images /\ buffer'.bag = objects'.bag
    BY <1>0, <2>1 DEF Images, Contents
  <2>4. Collected'
    BY <2>1, <2>2, <2>3 DEF IInv, Collected
  <2>5. QED
    BY <2>1, <2>2, <2>3, <2>4, CollectKeeps
<1>9. CASE CollectItemPC
  <2>1. saving # Idle /\ saving.part = "itemPC" /\ saving' = [saving EXCEPT !.part = "lists"]
        /\ buffer' = [buffer EXCEPT !.itemPC = objects.itemPC]
        /\ UNCHANGED <<changes, objects, files, filepath, made, putting>>
    BY <1>9 DEF CollectItemPC, Collect
  <2>2. saving' \in [op : {"save"}, file : Files, where : List, asked : BOOLEAN,
                     part : {"bag", "itemPC", "lists", "pokedex", "write"}] /\ saving'.part = "lists"
    BY <2>1, SavingType DEF IInv
  <2>3. buffer' \in Images /\ buffer'.itemPC = objects'.itemPC /\ buffer'.bag = buffer.bag
    BY <1>0, <2>1 DEF Images, Contents
  <2>4. saving.where = Party /\ saving'.where = saving.where
    BY <2>1, SavingType DEF IInv, Collected
  <2>5. \A where \in List : ~(where < Party)
    BY ListType, GameSaveAssumption DEF Party
  <2>6. Collected'
    BY <2>1, <2>2, <2>3, <2>4, <2>5 DEF IInv, Collected
  <2>7. QED
    BY <2>1, <2>2, <2>3, <2>6, CollectKeeps
<1>10. CASE AskList
  <2>1. saving # Idle /\ saving' = [saving EXCEPT !.asked = TRUE]
        /\ UNCHANGED <<changes, objects, buffer, files, filepath, made, putting>>
    BY <1>10 DEF AskList
  <2>2. saving' \in [op : {"save"}, file : Files, where : List, asked : BOOLEAN,
                     part : {"bag", "itemPC", "lists", "pokedex", "write"}]
        /\ saving'.part = saving.part /\ saving'.where = saving.where
    BY <2>1, SavingType DEF IInv
  <2>3. Collected'
    BY <2>1, <2>2 DEF IInv, Collected
  <2>4. QED
    BY <1>0, <2>1, <2>2, <2>3, CollectKeeps
<1>11. CASE CopyList
  <2> DEFINE here == saving.where
  <2>1. /\ saving # Idle /\ saving.part = "lists" /\ buffer' = WithList(here)
        /\ saving' = IF here + 1 \in List THEN [saving EXCEPT !.where = @ + 1, !.asked = FALSE]
                     ELSE [saving EXCEPT !.part = "pokedex"]
        /\ UNCHANGED <<changes, objects, files, filepath, made, putting>>
    BY <1>11 DEF CopyList
  <2>2. here \in List /\ here \in Int
    BY <2>1, SavingType, ListType, GameSaveAssumption DEF IInv
  <2>3. /\ buffer' \in Images /\ buffer'.bag = buffer.bag /\ buffer'.itemPC = buffer.itemPC
        /\ Loaded(buffer').lists[here] = objects.lists[here]
        /\ \A w \in List : w # here => Loaded(buffer').lists[w] = Loaded(buffer).lists[w]
    <3>1. CASE here = buffer.currentBoxNum
      <4>1. buffer' = [buffer EXCEPT !.currentBox = objects.lists[here]]
        BY <2>1, <3>1 DEF WithList
      <4>2. objects.lists[here] \in SUBSET Species
        BY <1>0, <2>2 DEF Contents
      <4>3. /\ buffer' \in Images /\ buffer'.bag = buffer.bag /\ buffer'.itemPC = buffer.itemPC
            /\ buffer'.currentBoxNum = here /\ buffer'.currentBox = objects.lists[here]
            /\ buffer'.lists = buffer.lists
        BY <1>0, <3>1, <4>1, <4>2 DEF Images
      <4>4. QED
        BY <1>0, <2>2, <3>1, <4>3, LoadedType
    <3>2. CASE here # buffer.currentBoxNum
      <4>1. buffer' = [buffer EXCEPT !.lists[here] = objects.lists[here]]
        BY <2>1, <3>2 DEF WithList
      <4>2. objects.lists[here] \in SUBSET Species
        BY <1>0, <2>2 DEF Contents
      <4>3. /\ buffer' \in Images /\ buffer'.bag = buffer.bag /\ buffer'.itemPC = buffer.itemPC
            /\ buffer'.currentBoxNum = buffer.currentBoxNum /\ buffer'.currentBox = buffer.currentBox
            /\ buffer'.lists[here] = objects.lists[here]
            /\ \A w \in List : w # here => buffer'.lists[w] = buffer.lists[w]
        BY <1>0, <2>2, <4>1, <4>2 DEF Images
      <4>4. QED
        BY <1>0, <2>2, <3>2, <4>3, LoadedType
    <3>3. QED
      BY <3>1, <3>2
  <2>4. /\ putting = Idle /\ buffer.bag = objects.bag /\ buffer.itemPC = objects.itemPC
        /\ \A w \in List : w < here => Loaded(buffer).lists[w] = objects.lists[w]
    BY <2>1 DEF IInv, Collected
  <2>5. \A w \in List : w < here + 1 => Loaded(buffer').lists[w] = objects.lists[w]
    <3>1. \A w \in List : w < here + 1 => w = here \/ w < here
      BY <2>2, ListType, GameSaveAssumption
    <3>2. QED
      BY <2>2, <2>3, <2>4, <3>1
  <2>6. CASE here + 1 \in List
    <3>1. saving' = [saving EXCEPT !.where = @ + 1, !.asked = FALSE]
      BY <2>1, <2>6
    <3>2. /\ saving' \in [op : {"save"}, file : Files, where : List, asked : BOOLEAN,
                          part : {"bag", "itemPC", "lists", "pokedex", "write"}]
          /\ saving'.part = "lists" /\ saving'.where = here + 1
      BY <2>1, <2>6, <3>1, SavingType DEF IInv
    <3>3. Collected'
      BY <2>1, <2>3, <2>4, <2>5, <3>2 DEF Collected
    <3>4. QED
      BY <2>1, <2>3, <3>2, <3>3, CollectKeeps
  <2>7. CASE here + 1 \notin List
    <3>1. saving' = [saving EXCEPT !.part = "pokedex"]
      BY <2>1, <2>7
    <3>2. /\ saving' \in [op : {"save"}, file : Files, where : List, asked : BOOLEAN,
                          part : {"bag", "itemPC", "lists", "pokedex", "write"}]
          /\ saving'.part = "pokedex"
      BY <2>1, <3>1, SavingType DEF IInv
    <3>3. \A w \in List : w < here + 1
      BY <2>2, <2>7, ListType, GameSaveAssumption
    <3>4. Collected'
      BY <2>1, <2>3, <2>4, <2>5, <3>2, <3>3 DEF Collected
    <3>5. QED
      BY <2>1, <2>3, <3>2, <3>4, CollectKeeps
  <2>8. QED
    BY <2>6, <2>7
<1>12. CASE CollectPokedex
  <2>1. saving # Idle /\ saving.part = "pokedex" /\ saving' = [saving EXCEPT !.part = "write"]
        /\ buffer' = [buffer EXCEPT !.pokedex = objects.pokedex]
        /\ UNCHANGED <<changes, objects, files, filepath, made, putting>>
    BY <1>12 DEF CollectPokedex, Collect
  <2>2. saving' \in [op : {"save"}, file : Files, where : List, asked : BOOLEAN,
                     part : {"bag", "itemPC", "lists", "pokedex", "write"}] /\ saving'.part = "write"
    BY <2>1, SavingType DEF IInv
  <2>3. /\ buffer' \in Images /\ buffer'.bag = buffer.bag /\ buffer'.itemPC = buffer.itemPC
        /\ buffer'.pokedex = objects.pokedex
        /\ buffer'.lists = buffer.lists /\ buffer'.currentBox = buffer.currentBox
        /\ buffer'.currentBoxNum = buffer.currentBoxNum
    BY <1>0, <2>1 DEF Images, Contents
  <2>4. \A where \in List : Loaded(buffer').lists[where] = Loaded(buffer).lists[where]
    BY <1>0, <2>3, LoadedType
  <2>5. Collected'
    BY <2>1, <2>2, <2>3, <2>4 DEF IInv, Collected
  <2>6. QED
    BY <2>1, <2>2, <2>3, <2>5, CollectKeeps
<1>13. CASE WriteFile
  <2> DEFINE file == saving.file
  <2>1. /\ saving # Idle /\ saving.part = "write" /\ saving' = Idle /\ filepath' = file
        /\ files' = [files EXCEPT ![file] = buffer] /\ made' = [made EXCEPT ![file] = objects]
        /\ UNCHANGED <<changes, objects, buffer, putting>>
    BY <1>13 DEF WriteFile
  <2>2. file \in Files
    BY <2>1, SavingType DEF IInv
  <2>3. /\ files' \in [Files -> Images \cup {NoFile}] /\ files'[file] = buffer
        /\ \A f \in Files : f # file => files'[f] = files[f]
        /\ made' \in [Files -> Contents \cup {NoFile}] /\ made'[file] = objects
        /\ \A f \in Files : f # file => made'[f] = made[f]
    BY <1>0, <2>1, <2>2 DEF IInv, TypeOK
  <2>4. Written' = Written \cup {file}
    BY <1>0, <2>2, <2>3, NoFileAssumption DEF Written
  <2>5. /\ putting = Idle /\ buffer.bag = objects.bag /\ buffer.itemPC = objects.itemPC
        /\ buffer.pokedex = objects.pokedex
        /\ \A where \in List : Loaded(buffer).lists[where] = objects.lists[where]
    BY <2>1 DEF IInv, Collected
  <2>6. Loaded(buffer).bag = buffer.bag /\ Loaded(buffer).itemPC = buffer.itemPC
    BY DEF Loaded
  <2>7. [Loaded(buffer) EXCEPT !.names = objects.names] = objects
    BY <1>0, <2>5, <2>6, LoadedType, SameContents
  <2>8. Registered(Loaded(buffer))
    BY <1>0, <2>5, LoadedType DEF IInv, ObjectsAreRegistered, Registered
  <2>9. ASSUME NEW f \in Written'
        PROVE  made'[f] \in Contents /\ HoldsWhatWasShown(f)' /\ Registered(Loaded(files'[f]))
    <3>1. CASE f = file
      BY <1>0, <2>3, <2>7, <2>8, <3>1 DEF HoldsWhatWasShown
    <3>2. CASE f # file
      BY <2>3, <2>4, <2>9, <3>2 DEF IInv, FilesAreRight, HoldsWhatWasShown, Written
    <3>3. QED
      BY <3>1, <3>2
  <2>10. FilesAreRight'
    BY <2>9 DEF FilesAreRight
  <2>11. TypeOK'
    BY <2>1, <2>2, <2>3 DEF IInv, TypeOK
  <2>12. Collected' /\ ObjectsAreRegistered'
    BY <2>1 DEF IInv, Collected, ObjectsAreRegistered
  <2>13. QED
    BY <2>1, <2>4, <2>10, <2>11, <2>12 DEF IInv
<1>14. CASE WriteFails
  <2>1. saving' = Idle /\ UNCHANGED <<changes, objects, buffer, files, filepath, made, putting>>
    BY <1>14 DEF WriteFails
  <2>2. TypeOK' /\ Collected' /\ ObjectsAreRegistered'
    BY <2>1 DEF IInv, TypeOK, Collected, ObjectsAreRegistered
  <2>3. QED
    BY <2>1, <2>2, FilesAlone DEF IInv
<1>15. CASE UNCHANGED vars
  <2>1. TypeOK' /\ Collected' /\ ObjectsAreRegistered'
    BY <1>15 DEF vars, IInv, TypeOK, Collected, ObjectsAreRegistered
  <2>2. QED
    BY <1>15, <2>1, FilesAlone DEF vars, IInv
<1>16. QED
  BY <1>1, <1>2, <1>3, <1>4, <1>5, <1>6, <1>7, <1>8, <1>9, <1>10, <1>11, <1>12, <1>13, <1>14, <1>15
  DEF Next

(* What FilesHoldWhatWasShown says is part of the invariant.               *)
LEMMA RightFiles == IInv => FilesHoldWhatWasShown /\ SavedPokemonAreRegistered
<1> SUFFICES ASSUME IInv PROVE FilesHoldWhatWasShown /\ SavedPokemonAreRegistered
  OBVIOUS
<1>1. FilesHoldWhatWasShown
  BY DEF IInv, FilesAreRight, FilesHoldWhatWasShown
<1>2. \A file \in Written : files[file] \in Images
  BY DEF IInv, TypeOK, Written
<1>3. \A file \in Written : Loaded(files[file]).pokedex = files[file].pokedex
  BY <1>2, LoadedType
<1>4. SavedPokemonAreRegistered
  BY <1>3 DEF IInv, FilesAreRight, Registered, SavedPokemonAreRegistered, Pokemon
<1>5. QED
  BY <1>1, <1>4

(* Whoever loads a file that save_as() wrote sees what the objects showed, *)
(* whichever box is the current one, and save() goes to such a file.       *)
THEOREM FilesTheorem ==
  ASSUME CarefulCallers
  PROVE  Spec => []FilesHoldWhatWasShown
<1>1. Init => IInv
  BY InitInvariant
<1>2. IInv /\ [Next]_vars => IInv'
  BY StepInvariant
<1>3. IInv => FilesHoldWhatWasShown
  BY RightFiles
<1>4. QED
  BY <1>1, <1>2, <1>3, PTL DEF Spec

(* In every file, the Pokemon of the party and of the boxes are in the     *)
(* Pokedex.                                                                *)
THEOREM RegisteredTheorem ==
  ASSUME CarefulCallers
  PROVE  Spec => []SavedPokemonAreRegistered
<1>1. Init => IInv
  BY InitInvariant
<1>2. IInv /\ [Next]_vars => IInv'
  BY StepInvariant
<1>3. IInv => SavedPokemonAreRegistered
  BY RightFiles
<1>4. QED
  BY <1>1, <1>2, <1>3, PTL DEF Spec

-----------------------------------------------------------------------------
(* Generation III.  A structure is a record; what EXCEPT does to it is     *)
(* easily seen of a function over the names of its fields.                 *)
Fields ==
  {"pid", "ot", "second", "letter", "shadow", "exp", "level", "iv", "ev", "stats", "hp", "condition",
   "moves", "pps", "ups", "contest", "specials", "obedient", "markings", "contestStats", "item", "origin",
   "levelMet", "egg"}
CacheFields == {"form", "IVs", "EVs", "stats", "moves", "ribbons", "markings", "contestStats"}

Whole(fields, record) == record = [f \in fields |-> record[f]]

GoodMoves(data) ==
  /\ data.moves \in [Slots -> Moves \cup {NoMove}]
  /\ data.pps \in [Slots -> Nat]
  /\ data.ups \in [Slots -> NumPPUps]
  /\ \A i \in Slots : data.pps[i] <= PPWith(data.moves[i], data.ups[i])

GoodTraits(data) ==
  /\ data.pid \subseteq Bits /\ data.ot \in TrainerIDs /\ data.second \in BOOLEAN
  /\ data.letter \in 0..27 \cup {NoForm} /\ data.shadow \in BOOLEAN
  /\ data.item \in Items \cup {NoItem} /\ data.origin \in Games \cup {"GCN"}
  /\ data.levelMet \in DOMAIN GCNExpAt

GoodGrowth(data) ==
  /\ data.level \in DOMAIN GCNExpAt /\ data.exp \in 0..ExpAt[100]
  /\ data.stats.iv = data.iv /\ data.stats.ev = data.ev

GoodHonours(data) ==
  /\ data.contest \in [Contests -> 0..4] /\ data.specials \subseteq Specials

Good(data) == GoodTraits(data) /\ GoodGrowth(data) /\ GoodMoves(data) /\ GoodHonours(data)

Forms == 0..27 \cup {NoForm, Shadow}

SeenGrowth(data, seen) == seen.IVs = data.iv /\ seen.EVs = data.ev /\ seen.stats = data.stats
SeenMoves(data, seen) == seen.moves = [i \in Slots |-> [move |-> data.moves[i], pp |-> data.pps[i]]]
SeenHonours(data, seen) ==
  /\ seen.ribbons = RibbonsOf(data) /\ seen.markings = data.markings /\ seen.contestStats = data.contestStats

Seen(data, seen) ==
  seen.form \in Forms /\ SeenGrowth(data, seen) /\ SeenMoves(data, seen) /\ SeenHonours(data, seen)

(* The inductive invariant: the structure is a good one, the maps are what *)
(* it says, an Unown has a letter, and nothing on the GBA is in shadow.    *)
Gen3Inv ==
  /\ species \in Kinds /\ game \in Games
  /\ Whole(Fields, native) /\ Good(native)
  /\ Whole(CacheFields, cache) /\ Seen(native, cache)
  /\ species.unown => native.letter \in 0..27
  /\ OnGBA => ~native.shadow

(* It implies what the run checks. *)
LEMMA Gen3InvIsEnough == Gen3Inv => PokemonIsConsistent
<1> SUFFICES ASSUME Gen3Inv PROVE PokemonIsConsistent
  OBVIOUS
<1>1. Gen3TypeOK
  BY DEF Gen3Inv, Good, GoodTraits, GoodGrowth, GoodMoves, GoodHonours, Seen, Forms, Gen3TypeOK
<1>2. ViewsAgree
  BY DEF Gen3Inv, Seen, SeenGrowth, SeenMoves, SeenHonours, ViewsAgree
<1>3. PPWithinPPUps /\ StatsAreOfTheseIVs
  BY DEF Gen3Inv, Good, GoodMoves, GoodGrowth, PPWithinPPUps, StatsAreOfTheseIVs
<1> QED
  BY <1>1, <1>2, <1>3 DEF PokemonIsConsistent

(* The instances have copies of what they share with this module. *)
LEMMA SameOperators ==
  /\ GBA!NoForm = NoForm /\ GCN!NoForm = NoForm /\ GCN!Shadow = Shadow
  /\ \A n, f : GBA!CacheOf(n, f) = CacheOf(n, f) /\ GCN!CacheOf(n, f) = CacheOf(n, f)
  /\ \A n : GBA!RibbonsOf(n) = RibbonsOf(n) /\ GCN!RibbonsOf(n) = RibbonsOf(n)
  /\ \A move, ups : GBA!PPWith(move, ups) = PPWith(move, ups) /\ GCN!PPWith(move, ups) = PPWith(move, ups)
  /\ \A level, iv, ev : /\ GBA!StatsFrom(level, iv, ev) = StatsFrom(level, iv, ev)
                        /\ GCN!StatsFrom(level, iv, ev) = StatsFrom(level, iv, ev)
<1>1. GBA!NoForm = NoForm /\ GCN!NoForm = NoForm /\ GCN!Shadow = Shadow
  BY DEF GBA!NoForm, NoForm, GCN!NoForm, GCN!Shadow, Shadow
<1>2. ASSUME NEW n PROVE GBA!RibbonsOf(n) = RibbonsOf(n) /\ GCN!RibbonsOf(n) = RibbonsOf(n)
  BY DEF RibbonsOf, ContestLevels, GBA!RibbonsOf, GBA!ContestLevels, GCN!RibbonsOf, GCN!ContestLevels
<1>3. ASSUME NEW n, NEW f PROVE GBA!CacheOf(n, f) = CacheOf(n, f) /\ GCN!CacheOf(n, f) = CacheOf(n, f)
  BY <1>2 DEF CacheOf, GBA!CacheOf, GCN!CacheOf
<1>4. ASSUME NEW move, NEW ups
      PROVE  GBA!PPWith(move, ups) = PPWith(move, ups) /\ GCN!PPWith(move, ups) = PPWith(move, ups)
  BY DEF PPWith, GBA!PPWith, GCN!PPWith
<1>5. ASSUME NEW level, NEW iv, NEW ev
      PROVE  /\ GBA!StatsFrom(level, iv, ev) = StatsFrom(level, iv, ev)
             /\ GCN!StatsFrom(level, iv, ev) = StatsFrom(level, iv, ev)
  BY DEF StatsFrom, GBA!StatsFrom, GCN!StatsFrom
<1> QED
  BY <1>1, <1>2, <1>3, <1>4, <1>5

LEMMA SameBits ==
  /\ \A p : GBA!LetterOf(p) = LetterOf(p) /\ GCN!LetterOf(p) = LetterOf(p)
  /\ \A p, l : GBA!WithLetter(p, l) = WithLetter(p, l) /\ GCN!WithLetter(p, l) = WithLetter(p, l)
  /\ \A p : GBA!NatureOf(p) = NatureOf(p) /\ GCN!NatureOf(p) = NatureOf(p)
  /\ \A p : GBA!Parity(p) = Parity(p) /\ GCN!Parity(p) = Parity(p)
  /\ \A p : GBA!LowByte(p) = LowByte(p) /\ GCN!LowByte(p) = LowByte(p)
  /\ \A p : GBA!NumberOf(p) = NumberOf(p) /\ GCN!NumberOf(p) = NumberOf(p)
<1>1. ASSUME NEW p PROVE GBA!NumberOf(p) = NumberOf(p) /\ GCN!NumberOf(p) = NumberOf(p)
  BY DEF NumberOf, GBA!NumberOf, GCN!NumberOf, Bit, GBA!Bit, GCN!Bit
<1>2. ASSUME NEW p PROVE GBA!LetterOf(p) = LetterOf(p) /\ GCN!LetterOf(p) = LetterOf(p)
  BY <1>1 DEF LetterOf, PlaceInLetter, LetterBits, GBA!LetterOf, GBA!PlaceInLetter, GBA!LetterBits,
              GCN!LetterOf, GCN!PlaceInLetter, GCN!LetterBits
<1>3. ASSUME NEW p, NEW l
      PROVE  GBA!WithLetter(p, l) = WithLetter(p, l) /\ GCN!WithLetter(p, l) = WithLetter(p, l)
  BY DEF WithLetter, PlaceInLetter, LetterBits, GBA!WithLetter, GBA!PlaceInLetter, GBA!LetterBits,
         GCN!WithLetter, GCN!PlaceInLetter, GCN!LetterBits
<1>4. ASSUME NEW p PROVE GBA!NatureOf(p) = NatureOf(p) /\ GCN!NatureOf(p) = NatureOf(p)
  BY Zenon DEF NatureOf, Bit, GBA!NatureOf, GBA!Bit, GCN!NatureOf, GCN!Bit
<1>5. ASSUME NEW p PROVE GBA!Parity(p) = Parity(p) /\ GCN!Parity(p) = Parity(p)
  BY DEF Parity, GBA!Parity, GCN!Parity, Bit, GBA!Bit, GCN!Bit
<1>6. ASSUME NEW p PROVE GBA!LowByte(p) = LowByte(p) /\ GCN!LowByte(p) = LowByte(p)
  BY DEF LowByte, GBA!LowByte, GCN!LowByte
<1> QED
  BY <1>1, <1>2, <1>3, <1>4, <1>5, <1>6

(* A set of numbers has a least one, and one that is bounded a greatest.   *)
Below == {pair \in Nat \X Nat : pair[1] < pair[2]}

LEMMA SmallestIsThere ==
  ASSUME NEW S \in SUBSET Nat, S # {}
  PROVE  \E x \in S : \A y \in S : x <= y
<1>1. IsWellFoundedOn(OpToRel(<, Nat), Nat)
  BY NatLessThanWellFounded
<1>2. IsWellFoundedOn(Below, Nat)
  BY <1>1 DEF OpToRel, Below
<1>3. PICK x \in S : \A y \in S : <<y, x>> \notin Below
  BY <1>2, WFMin
<1>4. \A y \in S : ~(y < x)
  BY <1>3 DEF Below
<1> QED
  BY <1>4

LEMMA GreatestIsThere ==
  ASSUME NEW n \in Nat, NEW S \in SUBSET (0..n), S # {}
  PROVE  \E x \in S : \A y \in S : x >= y
<1> DEFINE T == {n - x : x \in S}
<1>1. T \in SUBSET Nat /\ T # {}
  <2>1. \A x \in S : n - x \in Nat
    OBVIOUS
  <2> QED
    BY <2>1
<1>2. PICK t \in T : \A u \in T : t <= u
  BY <1>1, SmallestIsThere
<1>3. PICK x \in S : t = n - x
  BY <1>2
<1>4. \A y \in S : n - x <= n - y /\ x \in 0..n /\ y \in 0..n
  BY <1>2, <1>3
<1> QED
  BY <1>4

(* There is a level for any experience, on either side. *)
LEMMA LevelsAreLevels ==
  ASSUME NEW experience \in 0..ExpAt[100]
  PROVE  /\ GBA!LevelAt(experience) \in DOMAIN ExpAt
         /\ GCNLevelAt(experience) \in DOMAIN GCNExpAt
         /\ GCN!GCNLevelAt(experience) \in DOMAIN GCNExpAt
<1>1. \E x \in {l \in DOMAIN ExpAt : ExpAt[l] <= experience} :
        \A y \in {l \in DOMAIN ExpAt : ExpAt[l] <= experience} : x >= y
  <2>1. /\ {l \in DOMAIN ExpAt : ExpAt[l] <= experience} \in SUBSET (0..100)
        /\ 1 \in {l \in DOMAIN ExpAt : ExpAt[l] <= experience}
    BY LevelsAssumption
  <2> QED
    BY <2>1, GreatestIsThere
<1>2. \E x \in {l \in DOMAIN GCNExpAt : GCNExpAt[l] <= experience} :
        \A y \in {l \in DOMAIN GCNExpAt : GCNExpAt[l] <= experience} : x >= y
  <2>1. /\ {l \in DOMAIN GCNExpAt : GCNExpAt[l] <= experience} \in SUBSET (0..100)
        /\ 0 \in {l \in DOMAIN GCNExpAt : GCNExpAt[l] <= experience}
    BY LevelsAssumption
  <2> QED
    BY <2>1, GreatestIsThere
<1> QED
  BY <1>1, <1>2 DEF GBA!LevelAt, GCNLevelAt, GCN!GCNLevelAt, Max, GBA!Max, GCN!Max

LEMMA ExpOfALevel ==
  ASSUME NEW level \in DOMAIN ExpAt
  PROVE  ExpAt[level] \in 0..ExpAt[100] /\ GCNExpAt[level] \in 0..ExpAt[100] /\ level \in DOMAIN GCNExpAt
BY LevelsAssumption

LEMMA LettersAreLetters == \A p : LetterOf(p) \in 0..27
BY DEF LetterOf, NumberOf, Bit

LEMMA PPIsANumber ==
  ASSUME NEW move \in Moves \cup {NoMove}, NEW ups \in NumPPUps
  PROVE  PPWith(move, ups) \in Nat /\ PPWith(move, 0) \in Nat /\ PPWith(move, 0) <= PPWith(move, ups)
BY KindsAssumption DEF PPWith, NumPPUps

-----------------------------------------------------------------------------
(* What a setter of one kind may touch without any other part noticing. *)
TraitFields ==
  {"pid", "ot", "second", "letter", "shadow", "hp", "condition", "obedient", "item", "origin", "levelMet", "egg"}

LEMMA TraitsStep ==
  ASSUME Gen3Inv, UNCHANGED <<species, game>>,
         Whole(Fields, native'), GoodTraits(native'),
         \A f \in Fields \ TraitFields : native'[f] = native[f],
         species.unown => native'.letter \in 0..27,
         OnGBA => ~native'.shadow,
         Whole(CacheFields, cache'), cache'.form \in Forms,
         \A f \in CacheFields \ {"form"} : cache'[f] = cache[f]
  PROVE  Gen3Inv'
<1>1. GoodGrowth(native') /\ GoodMoves(native') /\ GoodHonours(native')
  BY DEF Gen3Inv, Good, GoodGrowth, GoodMoves, GoodHonours, Fields, TraitFields
<1>2. Seen(native', cache')
  BY DEF Gen3Inv, Seen, SeenGrowth, SeenMoves, SeenHonours, RibbonsOf, Fields, TraitFields, CacheFields
<1> QED
  BY <1>1, <1>2 DEF Gen3Inv, Good, OnGBA

(* The setters that have nothing to do with the personality leave it and   *)
(* the form that was read of it alone.                                     *)
FormKept == native'.pid = native.pid /\ cache'.form = cache.form /\ species' = species

GrowthFields == {"exp", "level", "iv", "ev", "stats", "hp", "condition", "egg"}

LEMMA GrowthStep ==
  ASSUME Gen3Inv, UNCHANGED <<species, game>>,
         Whole(Fields, native'), GoodGrowth(native'),
         \A f \in Fields \ GrowthFields : native'[f] = native[f],
         Whole(CacheFields, cache'), SeenGrowth(native', cache'),
         \A f \in CacheFields \ {"IVs", "EVs", "stats"} : cache'[f] = cache[f]
  PROVE  Gen3Inv' /\ FormKept
<1>1. GoodTraits(native') /\ GoodMoves(native') /\ GoodHonours(native')
  BY DEF Gen3Inv, Good, GoodTraits, GoodMoves, GoodHonours, Fields, GrowthFields
<1>2. Seen(native', cache')
  BY DEF Gen3Inv, Seen, SeenGrowth, SeenMoves, SeenHonours, RibbonsOf, Fields, GrowthFields, CacheFields
<1>3. native'.letter = native.letter /\ native'.shadow = native.shadow /\ FormKept
  BY DEF FormKept, Fields, GrowthFields, CacheFields
<1> QED
  BY <1>1, <1>2, <1>3 DEF Gen3Inv, Good, OnGBA

LEMMA MovesStep ==
  ASSUME Gen3Inv, UNCHANGED <<species, game>>,
         Whole(Fields, native'), GoodMoves(native'),
         \A f \in Fields \ {"moves", "pps", "ups"} : native'[f] = native[f],
         Whole(CacheFields, cache'), SeenMoves(native', cache'),
         \A f \in CacheFields \ {"moves"} : cache'[f] = cache[f]
  PROVE  Gen3Inv' /\ FormKept
<1>1. GoodTraits(native') /\ GoodGrowth(native') /\ GoodHonours(native')
  BY DEF Gen3Inv, Good, GoodTraits, GoodGrowth, GoodHonours, Fields
<1>2. Seen(native', cache')
  BY DEF Gen3Inv, Seen, SeenGrowth, SeenMoves, SeenHonours, RibbonsOf, Fields, CacheFields
<1>3. native'.letter = native.letter /\ native'.shadow = native.shadow /\ FormKept
  BY DEF FormKept, Fields, CacheFields
<1> QED
  BY <1>1, <1>2, <1>3 DEF Gen3Inv, Good, OnGBA

HonourFields == {"contest", "specials", "markings", "contestStats"}

LEMMA HonoursStep ==
  ASSUME Gen3Inv, UNCHANGED <<species, game>>,
         Whole(Fields, native'), GoodHonours(native'),
         \A f \in Fields \ HonourFields : native'[f] = native[f],
         Whole(CacheFields, cache'), SeenHonours(native', cache'),
         \A f \in CacheFields \ {"ribbons", "markings", "contestStats"} : cache'[f] = cache[f]
  PROVE  Gen3Inv' /\ FormKept
<1>1. GoodTraits(native') /\ GoodGrowth(native') /\ GoodMoves(native')
  BY DEF Gen3Inv, Good, GoodTraits, GoodGrowth, GoodMoves, Fields, HonourFields
<1>2. Seen(native', cache')
  BY DEF Gen3Inv, Seen, SeenGrowth, SeenMoves, Fields, HonourFields, CacheFields
<1>3. native'.letter = native.letter /\ native'.shadow = native.shadow /\ FormKept
  BY DEF FormKept, Fields, HonourFields, CacheFields
<1> QED
  BY <1>1, <1>2, <1>3 DEF Gen3Inv, Good, OnGBA

-----------------------------------------------------------------------------
(* The setters that change one field that nothing depends on. *)
LEMMA GBAPlainStep ==
  ASSUME Gen3Inv, OnGBA,
         \/ \E hp \in {"FULL", "SOME"} : GBA!SetCurrentHP(hp)
         \/ \E condition \in Conditions : GBA!SetCondition(condition)
         \/ \E value \in BOOLEAN : GBA!SetIsEgg(value) \/ GBA!SetIsObedient(value)
         \/ \E id \in TrainerIDs : GBA!SetTrainerID(id)
         \/ \E item \in Items \cup {NoItem} : GBA!SetHeldItem(item)
         \/ \E level \in {0, 100} : GBA!SetLevelMet(level)
         \/ \E origin \in Games : GBA!SetOriginalGame(origin)
  PROVE  Gen3Inv' /\ FormKept
<1>1. /\ Whole(Fields, native')
      /\ \A f \in Fields \ {"hp", "condition", "egg", "obedient", "ot", "item", "levelMet", "origin"} :
           native'[f] = native[f]
  BY DEF Gen3Inv, Whole, Fields, GBA!SetCurrentHP, GBA!SetCondition, GBA!SetIsEgg, GBA!SetIsObedient,
         GBA!SetTrainerID, GBA!SetHeldItem, GBA!SetLevelMet, GBA!SetOriginalGame
<1>2. /\ native'.ot \in TrainerIDs /\ native'.item \in Items \cup {NoItem}
      /\ native'.origin \in Games \cup {"GCN"} /\ native'.levelMet \in DOMAIN GCNExpAt
  BY LevelsAssumption
     DEF Gen3Inv, Good, GoodTraits, Whole, Fields, GBA!SetCurrentHP, GBA!SetCondition, GBA!SetIsEgg, GBA!SetIsObedient,
         GBA!SetTrainerID, GBA!SetHeldItem, GBA!SetLevelMet, GBA!SetOriginalGame
<1>3. UNCHANGED <<species, game, cache>>
  BY DEF GBA!SetCurrentHP, GBA!SetCondition, GBA!SetIsEgg, GBA!SetIsObedient,
         GBA!SetTrainerID, GBA!SetHeldItem, GBA!SetLevelMet, GBA!SetOriginalGame
<1>4. /\ native'.pid = native.pid /\ native'.second = native.second /\ native'.letter = native.letter
      /\ native'.shadow = native.shadow
  BY <1>1 DEF Fields
<1>5. FormKept
  BY <1>3, <1>4 DEF FormKept
<1> QED
  BY <1>1, <1>2, <1>3, <1>4, <1>5, TraitsStep DEF Gen3Inv, Good, GoodTraits, Seen, Fields, TraitFields

(* The personality and what is read of it. *)
LEMMA FormsStep ==
  ASSUME Gen3Inv, UNCHANGED <<species, game>>,
         Whole(Fields, native'),
         \A f \in Fields \ {"pid", "second", "letter", "shadow"} : native'[f] = native[f],
         native'.pid \subseteq Bits, native'.second \in BOOLEAN,
         native'.letter \in 0..27 \cup {NoForm}, native'.shadow \in BOOLEAN,
         species.unown => native'.letter \in 0..27,
         OnGBA => ~native'.shadow,
         NEW form \in Forms, cache' = [cache EXCEPT !.form = form]
  PROVE  Gen3Inv'
<1>1. /\ Whole(CacheFields, cache') /\ cache'.form = form
      /\ \A f \in CacheFields \ {"form"} : cache'[f] = cache[f]
  BY DEF Gen3Inv, Whole, CacheFields
<1>2. GoodTraits(native')
  BY DEF Gen3Inv, Good, GoodTraits, Fields
<1> QED
  BY <1>1, <1>2, TraitsStep DEF Fields, TraitFields

LEMMA BitsStayBits ==
  ASSUME NEW p \in SUBSET Bits
  PROVE  /\ \A letter : WithLetter(p, letter) \subseteq Bits
         /\ \A byte : GBA!WithLowByte(p, byte) \subseteq Bits /\ GCN!WithLowByte(p, byte) \subseteq Bits
         /\ \A id, value : GBA!WithShininess(p, id, value) \subseteq Bits /\ GCN!WithShininess(p, id, value) \subseteq Bits
<1>1. \A letter : WithLetter(p, letter) \subseteq Bits
  <2>1. ASSUME NEW i \in LetterBits PROVE i \in Bits
    BY DEF LetterBits, Bits
  <2> QED
    BY <2>1 DEF WithLetter
<1>2. \A byte : GBA!WithLowByte(p, byte) \subseteq Bits /\ GCN!WithLowByte(p, byte) \subseteq Bits
  <2>1. 0..7 \subseteq Bits
    BY DEF Bits
  <2> QED
    BY <2>1 DEF GBA!WithLowByte, GCN!WithLowByte
<1>3. \A columns \in SUBSET Bits : GBA!Toggle(p, columns) \subseteq Bits /\ GCN!Toggle(p, columns) \subseteq Bits
  BY DEF GBA!Toggle, GCN!Toggle
<1>4. 3..15 \subseteq Bits /\ {0} \subseteq Bits
  BY DEF Bits
<1>5. ASSUME NEW id, NEW value
      PROVE  GBA!WithShininess(p, id, value) \subseteq Bits /\ GCN!WithShininess(p, id, value) \subseteq Bits
  <2>1. {i \in 3..15 : GBA!Odd(p, id, i)} \subseteq Bits /\ {i \in 3..15 : GCN!Odd(p, id, i)} \subseteq Bits
    BY <1>4
  <2>2. GBA!WithShininess(p, id, value) \subseteq Bits
    BY <1>3, <1>4, <2>1 DEF GBA!WithShininess
  <2>3. GCN!WithShininess(p, id, value) \subseteq Bits
    BY <1>3, <1>4, <2>1 DEF GCN!WithShininess
  <2> QED
    BY <2>2, <2>3
<1> QED
  BY <1>1, <1>2, <1>5

LEMMA GendersBits ==
  ASSUME NEW p \in SUBSET Bits, NEW ratio, NEW gender
  PROVE  /\ \A q \in GBA!WithGender(ratio, p, gender) : q \subseteq Bits
         /\ \A q \in GCN!WithGender(ratio, p, gender) : q \subseteq Bits
<1>1. ASSUME NEW q \in GBA!WithGender(ratio, p, gender) PROVE \E byte : q = GBA!WithLowByte(p, byte)
  BY <1>1 DEF GBA!WithGender
<1>2. ASSUME NEW q \in GCN!WithGender(ratio, p, gender) PROVE \E byte : q = GCN!WithLowByte(p, byte)
  BY <1>2 DEF GCN!WithGender
<1> QED
  BY <1>1, <1>2, BitsStayBits

LEMMA GBATraitsStep ==
  ASSUME Gen3Inv, OnGBA, GBA!TraitsNext
  PROVE  Gen3Inv'
<1>0. /\ native.pid \in SUBSET Bits /\ native.second \in BOOLEAN /\ native.letter \in 0..27 \cup {NoForm}
      /\ ~native.shadow /\ native.shadow \in BOOLEAN /\ cache.form \in Forms
      /\ species \in Kinds /\ species.two \in BOOLEAN
      /\ species.unown => native.letter \in 0..27
  BY KindsAssumption DEF Gen3Inv, Good, GoodTraits, Seen
<1>1. ASSUME NEW letter \in Letters, GBA!SetForm(letter) PROVE Gen3Inv'
  <2>1. /\ Whole(Fields, native') /\ native'.pid = WithLetter(native.pid, letter) /\ native'.letter = letter
        /\ \A f \in Fields \ {"pid", "letter"} : native'[f] = native[f]
    BY <1>1, SameBits DEF GBA!SetForm, Gen3Inv, Whole, Fields
  <2>2. letter \in 0..27 /\ letter \in Forms
    BY InputsAssumption DEF Forms
  <2>3. cache' = [cache EXCEPT !.form = letter] /\ UNCHANGED <<species, game>>
    BY <1>1 DEF GBA!SetForm
  <2> QED
    BY <1>0, <2>1, <2>2, <2>3, BitsStayBits, FormsStep DEF Fields
<1>2. ASSUME NEW gender \in GBA!Genders, GBA!SetGender(gender) PROVE Gen3Inv'
  <2>1. PICK p \in GBA!WithGender(species.ratio, native.pid, gender) : native' = [native EXCEPT !.pid = p]
    BY <1>2 DEF GBA!SetGender
  <2>2. /\ Whole(Fields, native') /\ native'.pid = p /\ \A f \in Fields \ {"pid"} : native'[f] = native[f]
    BY <2>1 DEF Gen3Inv, Whole, Fields
  <2>3. cache' = [cache EXCEPT !.form = cache.form] /\ UNCHANGED <<species, game>>
    BY <1>2 DEF GBA!SetGender, Gen3Inv, Whole, CacheFields
  <2>4. p \subseteq Bits
    BY <1>0, GendersBits
  <2> QED
    BY <1>0, <2>2, <2>3, <2>4, FormsStep DEF Fields
<1>3. ASSUME NEW value \in BOOLEAN, GBA!SetShininess(value) PROVE Gen3Inv'
  <2>1. PICK p : p = GBA!WithShininess(native.pid, native.ot, value)
    OBVIOUS
  <2>2. /\ Whole(Fields, native') /\ native'.pid = p /\ \A f \in Fields \ {"pid"} : native'[f] = native[f]
    BY <1>3, <2>1 DEF GBA!SetShininess, Gen3Inv, Whole, Fields
  <2>3. PICK form \in Forms : cache' = [cache EXCEPT !.form = form]
    BY <1>0, <1>3, <2>1, SameBits, LettersAreLetters DEF GBA!SetShininess, GBA!FormFrom, Forms
  <2>4. p \subseteq Bits /\ UNCHANGED <<species, game>>
    BY <1>0, <1>3, <2>1, BitsStayBits DEF GBA!SetShininess
  <2> QED
    BY <1>0, <2>2, <2>3, <2>4, FormsStep DEF Fields
<1>4. ASSUME NEW p \in Draws, GBA!TakePersonality(p), UNCHANGED <<species, game>> PROVE Gen3Inv'
  <2>2. /\ Whole(Fields, native') /\ native'.pid = p /\ native'.second = GBA!SecondFrom(p)
        /\ \A f \in Fields \ {"pid", "second"} : native'[f] = native[f]
    BY <1>4 DEF GBA!TakePersonality, Gen3Inv, Whole, Fields
  <2>3. PICK form \in Forms : cache' = [cache EXCEPT !.form = form]
    BY <1>0, <1>4, SameBits, LettersAreLetters DEF GBA!TakePersonality, GBA!FormFrom, Forms
  <2>4. p \subseteq Bits /\ GBA!SecondFrom(p) \in BOOLEAN
    BY <1>0, Gen3Assumption DEF GBA!SecondFrom
  <2> QED
    BY <1>0, <1>4, <2>2, <2>3, <2>4, FormsStep DEF Fields
<1>5. ASSUME NEW ability \in GBA!Abilities, GBA!SetAbility(ability) PROVE Gen3Inv'
  <2>1. PICK p \in Draws : native' = [native EXCEPT !.pid = p, !.second = ability = 2]
    BY <1>5 DEF GBA!SetAbility
  <2>2. /\ Whole(Fields, native') /\ native'.pid = p /\ native'.second \in BOOLEAN
        /\ \A f \in Fields \ {"pid", "second"} : native'[f] = native[f]
    BY <2>1 DEF Gen3Inv, Whole, Fields
  <2>3. cache' = [cache EXCEPT !.form = cache.form] /\ UNCHANGED <<species, game>>
    BY <1>5 DEF GBA!SetAbility, Gen3Inv, Whole, CacheFields
  <2>4. p \subseteq Bits
    BY Gen3Assumption
  <2> QED
    BY <1>0, <2>2, <2>3, <2>4, FormsStep DEF Fields
<1> QED
  BY <1>1, <1>2, <1>3, <1>4, <1>5, GBAPlainStep DEF GBA!TraitsNext, GBA!SetPersonality, GBA!SetNature

(* Level, stats, HP and condition are computed anew... *)
ComputedFields == {"level", "stats", "hp", "condition"}

LEMMA GBAComputed ==
  ASSUME NEW old, Whole(Fields, old), old.exp \in 0..ExpAt[100], NEW new, new = GBA!WithPartyData(old)
  PROVE  /\ Whole(Fields, new) /\ GoodGrowth(new)
         /\ \A f \in Fields \ ComputedFields : new[f] = old[f]
<1>1. PICK level \in DOMAIN ExpAt : level = GBA!LevelAt(old.exp)
  BY LevelsAreLevels
<1>2. new = [old EXCEPT !.level = level, !.stats = StatsFrom(level, old.iv, old.ev),
                        !.hp = "FULL", !.condition = GBA!NoCondition]
  BY <1>1, SameOperators DEF GBA!WithPartyData
<1>3. /\ Whole(Fields, new) /\ new.level = level /\ new.stats = StatsFrom(level, old.iv, old.ev)
      /\ \A f \in Fields \ ComputedFields : new[f] = old[f]
  BY <1>2 DEF Whole, Fields, ComputedFields
<1>4. new.stats.iv = old.iv /\ new.stats.ev = old.ev
  BY <1>3 DEF StatsFrom
<1>5. level \in DOMAIN GCNExpAt
  BY LevelsAssumption
<1> QED
  BY <1>3, <1>4, <1>5 DEF GoodGrowth, Fields, ComputedFields

LEMMA GCNComputed ==
  ASSUME NEW old, Whole(Fields, old), old.exp \in 0..ExpAt[100], NEW new, new = GCN!ResetPartyData(old)
  PROVE  /\ Whole(Fields, new) /\ GoodGrowth(new)
         /\ \A f \in Fields \ ComputedFields : new[f] = old[f]
<1>1. PICK level \in DOMAIN GCNExpAt : level = GCN!GCNLevelAt(old.exp)
  BY LevelsAreLevels
<1>2. new = [old EXCEPT !.level = level, !.stats = StatsFrom(level, old.iv, old.ev),
                        !.hp = "FULL", !.condition = GCN!NoCondition]
  BY <1>1, SameOperators DEF GCN!ResetPartyData
<1>3. /\ Whole(Fields, new) /\ new.level = level /\ new.stats = StatsFrom(level, old.iv, old.ev)
      /\ \A f \in Fields \ ComputedFields : new[f] = old[f]
  BY <1>2 DEF Whole, Fields, ComputedFields
<1>4. new.stats.iv = old.iv /\ new.stats.ev = old.ev
  BY <1>3 DEF StatsFrom
<1> QED
  BY <1>3, <1>4 DEF GoodGrowth, Fields, ComputedFields

(* ...of an experience, or of IVs or EVs, and read. *)
LEMMA ComputedStep ==
  ASSUME Gen3Inv, UNCHANGED <<species, game>>,
         NEW experience \in 0..ExpAt[100], NEW iv, NEW ev, NEW old,
         Whole(Fields, old), old.exp = experience, old.iv = iv, old.ev = ev,
         \A f \in Fields \ {"exp", "iv", "ev"} : old[f] = native[f],
         native' = GBA!WithPartyData(old) \/ native' = GCN!ResetPartyData(old),
         Whole(CacheFields, cache'),
         cache'.IVs = iv, cache'.EVs = ev, cache'.stats = native'.stats,
         \A f \in CacheFields \ {"IVs", "EVs", "stats"} : cache'[f] = cache[f]
  PROVE  Gen3Inv' /\ FormKept
<1>1. /\ Whole(Fields, native') /\ GoodGrowth(native')
      /\ \A f \in Fields \ ComputedFields : native'[f] = old[f]
  BY GBAComputed, GCNComputed
<1>2. SeenGrowth(native', cache')
  BY <1>1 DEF SeenGrowth, Fields, ComputedFields
<1>3. \A f \in Fields \ GrowthFields : native'[f] = native[f]
  BY <1>1 DEF Fields, GrowthFields, ComputedFields
<1> QED
  BY <1>1, <1>2, <1>3, GrowthStep

LEMMA GBAGrowthStep ==
  ASSUME Gen3Inv, OnGBA, GBA!GrowthNext
  PROVE  Gen3Inv' /\ FormKept
<1>0. /\ Whole(Fields, native) /\ Whole(CacheFields, cache) /\ native.exp \in 0..ExpAt[100]
      /\ cache.IVs = native.iv /\ cache.EVs = native.ev
  BY DEF Gen3Inv, Good, GoodGrowth, Seen, SeenGrowth
<1>1. ASSUME NEW experience \in 0..ExpAt[100], UNCHANGED <<species, game>>,
             native' = GBA!WithPartyData([native EXCEPT !.exp = experience]),
             cache' = GBA!ReadStats(native')
      PROVE  Gen3Inv' /\ FormKept
  <2>1. PICK old : old = [native EXCEPT !.exp = experience]
    OBVIOUS
  <2>2. /\ Whole(Fields, old) /\ old.exp = experience /\ old.iv = native.iv /\ old.ev = native.ev
        /\ \A f \in Fields \ {"exp", "iv", "ev"} : old[f] = native[f]
    BY <1>0, <2>1 DEF Whole, Fields
  <2>3. /\ Whole(CacheFields, cache') /\ cache'.stats = native'.stats
        /\ \A f \in CacheFields \ {"stats"} : cache'[f] = cache[f]
    BY <1>0, <1>1 DEF GBA!ReadStats, Whole, CacheFields
  <2>4. cache'.IVs = native.iv /\ cache'.EVs = native.ev
    BY <1>0, <2>3 DEF CacheFields
  <2>5. native' = GBA!WithPartyData(old)
    BY <1>1, <2>1
  <2> QED
    BY <1>1, <2>2, <2>3, <2>4, <2>5, ComputedStep
<1>2. ASSUME NEW stat, NEW value, GBA!SetIV(stat, value) PROVE Gen3Inv' /\ FormKept
  <2>1. PICK old : old = [native EXCEPT !.iv[stat] = value]
    OBVIOUS
  <2>2. PICK iv : iv = [native.iv EXCEPT ![stat] = value]
    OBVIOUS
  <2>3. /\ Whole(Fields, old) /\ old.exp = native.exp /\ old.iv = iv /\ old.ev = native.ev
        /\ \A f \in Fields \ {"exp", "iv", "ev"} : old[f] = native[f]
    BY <1>0, <2>1, <2>2 DEF Whole, Fields
  <2>4. /\ Whole(CacheFields, cache') /\ cache'.stats = native'.stats /\ cache'.IVs = iv
        /\ \A f \in CacheFields \ {"stats", "IVs"} : cache'[f] = cache[f]
    BY <1>0, <1>2, <2>2 DEF GBA!SetIV, GBA!ReadStats, Whole, CacheFields
  <2>5. cache'.EVs = native.ev
    BY <1>0, <2>4 DEF CacheFields
  <2>6. native' = GBA!WithPartyData(old) /\ UNCHANGED <<species, game>>
    BY <1>2, <2>1 DEF GBA!SetIV
  <2> QED
    BY <1>0, <2>3, <2>4, <2>5, <2>6, ComputedStep
<1>3. ASSUME NEW stat, NEW value, GBA!SetEV(stat, value) PROVE Gen3Inv' /\ FormKept
  <2>1. PICK old : old = [native EXCEPT !.ev[stat] = value]
    OBVIOUS
  <2>2. PICK ev : ev = [native.ev EXCEPT ![stat] = value]
    OBVIOUS
  <2>3. /\ Whole(Fields, old) /\ old.exp = native.exp /\ old.iv = native.iv /\ old.ev = ev
        /\ \A f \in Fields \ {"exp", "iv", "ev"} : old[f] = native[f]
    BY <1>0, <2>1, <2>2 DEF Whole, Fields
  <2>4. native' = GBA!WithPartyData(old) /\ UNCHANGED <<species, game>>
    BY <1>3, <2>1 DEF GBA!SetEV
  <2>5. native'.ev = ev
    BY <1>0, <2>3, <2>4, GBAComputed DEF Fields, ComputedFields
  <2>6. /\ Whole(CacheFields, cache') /\ cache'.stats = native'.stats /\ cache'.EVs = ev
        /\ \A f \in CacheFields \ {"stats", "EVs"} : cache'[f] = cache[f]
    BY <1>0, <1>3, <2>5 DEF GBA!SetEV, GBA!ReadStats, Whole, CacheFields
  <2>7. cache'.IVs = native.iv
    BY <1>0, <2>6 DEF CacheFields
  <2> QED
    BY <1>0, <2>3, <2>4, <2>6, <2>7, ComputedStep
<1>4. ASSUME NEW experience \in Experiences, GBA!SetExperience(experience) PROVE Gen3Inv' /\ FormKept
  BY <1>1, <1>4, InputsAssumption DEF GBA!SetExperience
<1>5. ASSUME NEW level \in DOMAIN ExpAt, GBA!SetLevel(level) PROVE Gen3Inv' /\ FormKept
  <2>1. PICK experience \in 0..ExpAt[100] : experience = ExpAt[level]
    BY ExpOfALevel
  <2> QED
    BY <1>1, <1>5, <2>1 DEF GBA!SetLevel
<1> QED
  BY <1>2, <1>3, <1>4, <1>5, GBAPlainStep DEF GBA!GrowthNext

(* Moves. *)
LEMMA FewestAreThere ==
  ASSUME NEW move \in Moves \cup {NoMove}, NEW pp \in 0..PPWith(move, 3)
  PROVE  /\ GBA!FewestPPUps(move, pp) \in NumPPUps /\ pp <= PPWith(move, GBA!FewestPPUps(move, pp))
         /\ GCN!FewestPPUps(move, pp) \in NumPPUps /\ pp <= PPWith(move, GCN!FewestPPUps(move, pp))
<1>1. {n \in NumPPUps : pp <= PPWith(move, n)} \in SUBSET Nat /\ 3 \in {n \in NumPPUps : pp <= PPWith(move, n)}
  BY PPIsANumber DEF NumPPUps
<1>2. \E k \in {n \in NumPPUps : pp <= PPWith(move, n)} : \A m \in {n \in NumPPUps : pp <= PPWith(move, n)} : k <= m
  BY <1>1, SmallestIsThere
<1>3. PICK n : n = CHOOSE k \in {i \in NumPPUps : pp <= PPWith(move, i)} :
                     \A m \in {i \in NumPPUps : pp <= PPWith(move, i)} : k <= m
  OBVIOUS
<1>4. n \in NumPPUps /\ pp <= PPWith(move, n)
  BY <1>2, <1>3
<1>5. GBA!FewestPPUps(move, pp) = n
  BY <1>3, SameOperators DEF GBA!FewestPPUps, GBA!Min, GBA!NumPPUps, NumPPUps
<1>6. GCN!FewestPPUps(move, pp) = n
  BY <1>3, SameOperators DEF GCN!FewestPPUps, GCN!Min, GCN!NumPPUps, NumPPUps
<1> QED
  BY <1>4, <1>5, <1>6

LEMMA OneMoveStep ==
  ASSUME Gen3Inv, UNCHANGED <<species, game>>,
         NEW slot \in Slots, NEW move \in Moves \cup {NoMove}, NEW pp \in Nat, NEW ups \in NumPPUps,
         pp <= PPWith(move, ups),
         Whole(Fields, native'),
         native'.moves = [native.moves EXCEPT ![slot] = move],
         native'.pps = [native.pps EXCEPT ![slot] = pp],
         native'.ups = [native.ups EXCEPT ![slot] = ups],
         \A f \in Fields \ {"moves", "pps", "ups"} : native'[f] = native[f],
         Whole(CacheFields, cache'),
         cache'.moves = [cache.moves EXCEPT ![slot] = [move |-> move, pp |-> pp]],
         \A f \in CacheFields \ {"moves"} : cache'[f] = cache[f]
  PROVE  Gen3Inv' /\ FormKept
<1>1. GoodMoves(native')
  BY DEF Gen3Inv, Good, GoodMoves
<1>2. SeenMoves(native', cache')
  <2>1. cache.moves = [i \in Slots |-> [move |-> native.moves[i], pp |-> native.pps[i]]]
    BY DEF Gen3Inv, Seen, SeenMoves
  <2>2. \A i \in Slots : [cache.moves EXCEPT ![slot] = [move |-> move, pp |-> pp]][i]
                           = [move |-> native'.moves[i], pp |-> native'.pps[i]]
    BY <2>1 DEF Gen3Inv, Good, GoodMoves
  <2>3. [cache.moves EXCEPT ![slot] = [move |-> move, pp |-> pp]]
          = [i \in Slots |-> [cache.moves EXCEPT ![slot] = [move |-> move, pp |-> pp]][i]]
    BY <2>1
  <2> QED
    BY <2>2, <2>3 DEF SeenMoves
<1> QED
  BY <1>1, <1>2, MovesStep

(* A move has the PP it has without PP Ups, which are kept on the GBA and  *)
(* taken away on the GameCube.                                             *)
LEMMA SetMoveStep ==
  ASSUME Gen3Inv, NEW slot \in Slots, NEW move \in Moves \cup {NoMove},
         GBA!SetMove(slot, move) \/ GCN!SetMove(slot, move)
  PROVE  Gen3Inv' /\ FormKept
<1>1. PICK pp : pp = PPWith(move, 0)
  OBVIOUS
<1>2. PICK ups \in NumPPUps : /\ native'.ups = [native.ups EXCEPT ![slot] = ups]
                              /\ pp \in Nat /\ pp <= PPWith(move, ups)
  <2>1. native.ups \in [Slots -> NumPPUps] /\ native.ups[slot] \in NumPPUps /\ 0 \in NumPPUps
    BY DEF Gen3Inv, Good, GoodMoves, NumPPUps
  <2>2. CASE GBA!SetMove(slot, move)
    <3>1. native'.ups = [native.ups EXCEPT ![slot] = native.ups[slot]]
      BY <2>1, <2>2 DEF GBA!SetMove, Gen3Inv, Whole, Fields
    <3> QED
      BY <1>1, <2>1, <3>1, PPIsANumber
  <2>3. CASE GCN!SetMove(slot, move)
    <3>1. native'.ups = [native.ups EXCEPT ![slot] = 0]
      BY <2>3 DEF GCN!SetMove, Gen3Inv, Whole, Fields
    <3> QED
      BY <1>1, <2>1, <3>1, PPIsANumber
  <2> QED
    BY <2>2, <2>3
<1>3. /\ Whole(Fields, native')
      /\ native'.moves = [native.moves EXCEPT ![slot] = move]
      /\ native'.pps = [native.pps EXCEPT ![slot] = pp]
      /\ \A f \in Fields \ {"moves", "pps", "ups"} : native'[f] = native[f]
  BY <1>1, SameOperators DEF GBA!SetMove, GCN!SetMove, Gen3Inv, Whole, Fields
<1>4. /\ Whole(CacheFields, cache')
      /\ cache'.moves = [cache.moves EXCEPT ![slot] = [move |-> move, pp |-> pp]]
      /\ \A f \in CacheFields \ {"moves"} : cache'[f] = cache[f]
  BY <1>1, SameOperators DEF GBA!SetMove, GCN!SetMove, Gen3Inv, Whole, CacheFields
<1>5. UNCHANGED <<species, game>>
  BY DEF GBA!SetMove, GCN!SetMove
<1> QED
  BY <1>2, <1>3, <1>4, <1>5, OneMoveStep

(* As many PP Ups as the PP need. *)
LEMMA SetMovePPStep ==
  ASSUME Gen3Inv, NEW slot \in Slots, NEW pp, GBA!SetMovePP(slot, pp) \/ GCN!SetMovePP(slot, pp)
  PROVE  Gen3Inv' /\ FormKept
<1>1. /\ native.moves \in [Slots -> Moves \cup {NoMove}]
      /\ cache.moves = [i \in Slots |-> [move |-> native.moves[i], pp |-> native.pps[i]]]
  BY DEF Gen3Inv, Good, GoodMoves, Seen, SeenMoves
<1>2. PICK move \in Moves \cup {NoMove} : move = native.moves[slot] /\ move = cache.moves[slot].move
  BY <1>1
<1>3. pp \in 0..PPWith(move, 3) /\ pp \in Nat
  <2>1. PPWith(move, 3) \in Nat /\ pp \in 0..PPWith(move, 3)
    BY <1>2, SameOperators, PPIsANumber DEF GBA!SetMovePP, GCN!SetMovePP, NumPPUps
  <2> QED
    BY <2>1
<1>4. PICK ups \in NumPPUps : native'.ups = [native.ups EXCEPT ![slot] = ups] /\ pp <= PPWith(move, ups)
  <2>1. \/ native'.ups = [native.ups EXCEPT ![slot] = GBA!FewestPPUps(move, pp)]
        \/ native'.ups = [native.ups EXCEPT ![slot] = GCN!FewestPPUps(move, pp)]
    <3>1. ASSUME NEW ups, native' = [native EXCEPT !.pps[slot] = pp, !.ups[slot] = ups]
          PROVE  native'.ups = [native.ups EXCEPT ![slot] = ups]
      BY <3>1 DEF Gen3Inv, Whole, Fields
    <3>2. \/ native' = [native EXCEPT !.pps[slot] = pp, !.ups[slot] = GBA!FewestPPUps(move, pp)]
          \/ native' = [native EXCEPT !.pps[slot] = pp, !.ups[slot] = GCN!FewestPPUps(move, pp)]
      BY <1>2 DEF GBA!SetMovePP, GCN!SetMovePP
    <3> QED
      BY <3>1, <3>2
  <2> QED
    BY <1>3, <2>1, FewestAreThere
<1>5. /\ Whole(Fields, native')
      /\ native'.moves = native.moves
      /\ native'.pps = [native.pps EXCEPT ![slot] = pp]
      /\ \A f \in Fields \ {"moves", "pps", "ups"} : native'[f] = native[f]
  BY DEF GBA!SetMovePP, GCN!SetMovePP, Gen3Inv, Whole, Fields
<1>6. native'.moves = [native.moves EXCEPT ![slot] = move]
  BY <1>1, <1>2, <1>5
<1>7. /\ Whole(CacheFields, cache')
      /\ cache'.moves = [cache.moves EXCEPT ![slot] = [cache.moves[slot] EXCEPT !.pp = pp]]
      /\ \A f \in CacheFields \ {"moves"} : cache'[f] = cache[f]
  BY DEF GBA!SetMovePP, GCN!SetMovePP, Gen3Inv, Whole, CacheFields
<1>8. [cache.moves[slot] EXCEPT !.pp = pp] = [move |-> move, pp |-> pp]
  BY <1>1, <1>2
<1>9. UNCHANGED <<species, game>>
  BY DEF GBA!SetMovePP, GCN!SetMovePP
<1> QED
  BY <1>3, <1>4, <1>5, <1>6, <1>7, <1>8, <1>9, OneMoveStep

(* Ribbons, markings and contests. *)
LEMMA AfterIsALevel ==
  ASSUME NEW current \in 0..4, NEW level \in 1..4, NEW value \in BOOLEAN
  PROVE  /\ GBA!ContestAfter(current, level, value) \in 0..4
         /\ (IF value THEN level ELSE level - 1) \in 0..4
BY DEF GBA!ContestAfter, GBA!Larger, GBA!Smaller

LEMMA ContestStep ==
  ASSUME Gen3Inv, NEW contest \in Contests, NEW level \in 1..4, NEW value \in BOOLEAN,
         GBA!SetContestRibbon(contest, level, value) \/ GCN!SetContestRibbon(contest, level, value)
  PROVE  Gen3Inv' /\ FormKept
<1>1. native.contest \in [Contests -> 0..4] /\ native.contest[contest] \in 0..4 /\ native.specials \subseteq Specials
  BY DEF Gen3Inv, Good, GoodHonours
<1>2. PICK now \in 0..4 : native'= [native EXCEPT !.contest[contest] = now]
  BY <1>1, AfterIsALevel DEF GBA!SetContestRibbon, GCN!SetContestRibbon
<1>3. /\ Whole(Fields, native') /\ native'.contest = [native.contest EXCEPT ![contest] = now]
      /\ \A f \in Fields \ {"contest"} : native'[f] = native[f]
  BY <1>2 DEF Gen3Inv, Whole, Fields
<1>4. GoodHonours(native') /\ native'.markings = native.markings /\ native'.contestStats = native.contestStats
  BY <1>1, <1>3 DEF GoodHonours, Fields
<1>5. /\ Whole(CacheFields, cache') /\ cache'.ribbons = RibbonsOf(native')
      /\ \A f \in CacheFields \ {"ribbons"} : cache'[f] = cache[f]
  BY SameOperators DEF GBA!SetContestRibbon, GCN!SetContestRibbon, Gen3Inv, Whole, CacheFields
<1>6. SeenHonours(native', cache')
  BY <1>4, <1>5 DEF Gen3Inv, Seen, SeenHonours, CacheFields
<1>7. UNCHANGED <<species, game>>
  BY DEF GBA!SetContestRibbon, GCN!SetContestRibbon
<1> QED
  BY <1>3, <1>4, <1>5, <1>6, <1>7, HonoursStep DEF HonourFields

LEMMA SpecialStep ==
  ASSUME Gen3Inv, NEW ribbon \in Specials, NEW value \in BOOLEAN,
         GBA!SetSpecialRibbon(ribbon, value) \/ GCN!SetSpecialRibbon(ribbon, value)
  PROVE  Gen3Inv' /\ FormKept
<1>1. PICK now : now = IF value THEN native.specials \cup {ribbon} ELSE native.specials \ {ribbon}
  OBVIOUS
<1>2. /\ Whole(Fields, native') /\ native'.specials = now
      /\ \A f \in Fields \ {"specials"} : native'[f] = native[f]
  BY <1>1 DEF Gen3Inv, Whole, Fields, GBA!SetSpecialRibbon, GCN!SetSpecialRibbon
<1>3. /\ GoodHonours(native') /\ native'.contest = native.contest
      /\ native'.markings = native.markings /\ native'.contestStats = native.contestStats
  BY <1>1, <1>2 DEF Gen3Inv, Good, GoodHonours, Fields
<1>4. /\ Whole(CacheFields, cache') /\ \A f \in CacheFields \ {"ribbons"} : cache'[f] = cache[f]
  BY DEF GBA!SetSpecialRibbon, GCN!SetSpecialRibbon, Gen3Inv, Whole, CacheFields
<1>5. cache'.ribbons = RibbonsOf(native')
  <2>1. CASE GBA!SetSpecialRibbon(ribbon, value)
    BY <2>1, SameOperators DEF GBA!SetSpecialRibbon, Gen3Inv, Whole, CacheFields
  <2>2. CASE GCN!SetSpecialRibbon(ribbon, value)
    <3>1. cache'.ribbons = IF value THEN cache.ribbons \cup {ribbon} ELSE cache.ribbons \ {ribbon}
      BY <2>2 DEF GCN!SetSpecialRibbon, Gen3Inv, Whole, CacheFields
    <3>2. cache.ribbons = native.specials \cup {r \in Contests \X ContestLevels : r[2] <= native.contest[r[1]]}
      BY DEF Gen3Inv, Seen, SeenHonours, RibbonsOf
    <3>3. RibbonsOf(native') = now \cup {r \in Contests \X ContestLevels : r[2] <= native.contest[r[1]]}
      BY <1>2, <1>3 DEF RibbonsOf
    <3>4. ribbon \notin {r \in Contests \X ContestLevels : r[2] <= native.contest[r[1]]}
      BY KindsAssumption
    <3> QED
      BY <1>1, <3>1, <3>2, <3>3, <3>4
  <2> QED
    BY <2>1, <2>2
<1>6. SeenHonours(native', cache')
  BY <1>3, <1>4, <1>5 DEF Gen3Inv, Seen, SeenHonours, CacheFields
<1>7. UNCHANGED <<species, game>>
  BY DEF GBA!SetSpecialRibbon, GCN!SetSpecialRibbon
<1> QED
  BY <1>2, <1>3, <1>4, <1>6, <1>7, HonoursStep DEF HonourFields

LEMMA MarkStep ==
  ASSUME Gen3Inv,
         \/ \E marking \in Markings, value \in BOOLEAN : GBA!SetMarking(marking, value) \/ GCN!SetMarking(marking, value)
         \/ \E stat, value : GBA!SetContestStat(stat, value) \/ GCN!SetContestStat(stat, value)
  PROVE  Gen3Inv' /\ FormKept
<1>1. /\ Whole(Fields, native') /\ \A f \in Fields \ {"markings", "contestStats"} : native'[f] = native[f]
  BY DEF Gen3Inv, Whole, Fields, GBA!SetMarking, GCN!SetMarking, GBA!SetContestStat, GCN!SetContestStat
<1>2. /\ Whole(CacheFields, cache') /\ \A f \in CacheFields \ {"markings", "contestStats"} : cache'[f] = cache[f]
  BY DEF Gen3Inv, Whole, CacheFields, GBA!SetMarking, GCN!SetMarking, GBA!SetContestStat, GCN!SetContestStat
<1>3. native'.specials = native.specials /\ native'.contest = native.contest /\ cache'.ribbons = cache.ribbons
  BY <1>1, <1>2 DEF Fields, CacheFields
<1>4. cache'.markings = native'.markings /\ cache'.contestStats = native'.contestStats
  <2>0. cache.markings = native.markings /\ cache.contestStats = native.contestStats
    BY DEF Gen3Inv, Seen, SeenHonours
  <2>1. CASE \E marking \in Markings, value \in BOOLEAN : GBA!SetMarking(marking, value) \/ GCN!SetMarking(marking, value)
    BY <2>0, <2>1 DEF Gen3Inv, Whole, Fields, CacheFields, GBA!SetMarking, GCN!SetMarking
  <2>2. CASE \E stat, value : GBA!SetContestStat(stat, value) \/ GCN!SetContestStat(stat, value)
    BY <2>0, <2>2 DEF Gen3Inv, Whole, Fields, CacheFields, GBA!SetContestStat, GCN!SetContestStat
  <2> QED
    BY <2>1, <2>2
<1>5. SeenHonours(native', cache') /\ GoodHonours(native')
  BY <1>3, <1>4 DEF Gen3Inv, Good, GoodHonours, Seen, SeenHonours, RibbonsOf
<1>6. UNCHANGED <<species, game>>
  BY DEF GBA!SetMarking, GCN!SetMarking, GBA!SetContestStat, GCN!SetContestStat
<1> QED
  BY <1>1, <1>2, <1>5, <1>6, HonoursStep DEF HonourFields

LEMMA GBAOtherSteps ==
  ASSUME Gen3Inv, OnGBA, GBA!MovesNext \/ GBA!HonoursNext \/ GBA!HistoryNext
  PROVE  Gen3Inv' /\ FormKept
<1>1. CASE GBA!MovesNext
  BY <1>1, SetMoveStep, SetMovePPStep DEF GBA!MovesNext
<1>2. CASE GBA!HonoursNext
  BY <1>2, ContestStep, SpecialStep, MarkStep, GBAPlainStep DEF GBA!HonoursNext, GBA!ContestLevels
<1>3. CASE GBA!HistoryNext
  BY <1>3, GBAPlainStep, SameOperators DEF GBA!HistoryNext, GBA!Games, Games
<1> QED
  BY <1>1, <1>2, <1>3

-----------------------------------------------------------------------------
(* The same on the GameCube. *)
LEMMA GCNPlainStep ==
  ASSUME Gen3Inv, OnGCN,
         \/ \E hp \in {"FULL", "SOME"} : GCN!SetCurrentHP(hp)
         \/ \E condition \in Conditions : GCN!SetCondition(condition)
         \/ \E value \in BOOLEAN : GCN!SetIsEgg(value) \/ GCN!SetIsObedient(value)
         \/ \E id \in TrainerIDs : GCN!SetTrainerID(id)
         \/ \E item \in Items \cup {NoItem} : GCN!SetHeldItem(item)
         \/ \E level \in {0, 100} : GCN!SetLevelMet(level)
         \/ \E origin \in Games : GCN!SetOriginalGame(origin)
  PROVE  Gen3Inv' /\ FormKept
<1>1. /\ Whole(Fields, native')
      /\ \A f \in Fields \ {"hp", "condition", "egg", "obedient", "ot", "item", "levelMet", "origin"} :
           native'[f] = native[f]
  BY DEF Gen3Inv, Whole, Fields, GCN!SetCurrentHP, GCN!SetCondition, GCN!SetIsEgg, GCN!SetIsObedient,
         GCN!SetTrainerID, GCN!SetHeldItem, GCN!SetLevelMet, GCN!SetOriginalGame
<1>2. /\ native'.ot \in TrainerIDs /\ native'.item \in Items \cup {NoItem}
      /\ native'.origin \in Games \cup {"GCN"} /\ native'.levelMet \in DOMAIN GCNExpAt
  BY LevelsAssumption
     DEF Games, Gen3Inv, Good, GoodTraits, Whole, Fields, GCN!SetCurrentHP, GCN!SetCondition, GCN!SetIsEgg, GCN!SetIsObedient,
         GCN!SetTrainerID, GCN!SetHeldItem, GCN!SetLevelMet, GCN!SetOriginalGame
<1>3. UNCHANGED <<species, game, cache>>
  BY DEF GCN!SetCurrentHP, GCN!SetCondition, GCN!SetIsEgg, GCN!SetIsObedient,
         GCN!SetTrainerID, GCN!SetHeldItem, GCN!SetLevelMet, GCN!SetOriginalGame
<1>4. /\ native'.pid = native.pid /\ native'.second = native.second /\ native'.letter = native.letter
      /\ native'.shadow = native.shadow
  BY <1>1 DEF Fields
<1>5. FormKept
  BY <1>3, <1>4 DEF FormKept
<1> QED
  BY <1>1, <1>2, <1>3, <1>4, <1>5, TraitsStep DEF Gen3Inv, Good, GoodTraits, Seen, Fields, TraitFields

LEMMA GCNTraitsStep ==
  ASSUME Gen3Inv, OnGCN, GCN!TraitsNext
  PROVE  Gen3Inv'
<1>0. /\ native.pid \in SUBSET Bits /\ native.second \in BOOLEAN /\ native.letter \in 0..27 \cup {NoForm}
      /\ ~OnGBA /\ native.shadow \in BOOLEAN /\ cache.form \in Forms
      /\ species \in Kinds /\ species.two \in BOOLEAN
      /\ species.unown => native.letter \in 0..27
  BY KindsAssumption, Gen3Assumption DEF OnGBA, OnGCN, Gen3Inv, Good, GoodTraits, Seen
<1>1. ASSUME NEW form \in Letters \cup {GCN!NoForm, GCN!Shadow}, GCN!SetForm(form) PROVE Gen3Inv'
  <2>1. PICK shadow \in BOOLEAN :
          shadow = IF (form = GCN!Shadow) = (cache.form = GCN!Shadow) THEN native.shadow ELSE form = GCN!Shadow
    BY <1>0
  <2>2. PICK p \in SUBSET Bits : p = IF species.unown THEN GCN!WithLetter(native.pid, form) ELSE native.pid
    BY <1>0, SameBits, BitsStayBits
  <2>3. native' = [native EXCEPT !.pid = p, !.shadow = shadow]
    BY <1>1, <2>1, <2>2 DEF GCN!SetForm
  <2>4. /\ Whole(Fields, native') /\ native'.pid = p /\ native'.shadow = shadow
        /\ \A f \in Fields \ {"pid", "shadow"} : native'[f] = native[f]
    BY <2>3 DEF Gen3Inv, Whole, Fields
  <2>5. form \in Forms
    BY InputsAssumption, SameOperators DEF Forms
  <2>6. cache' = [cache EXCEPT !.form = form] /\ UNCHANGED <<species, game>>
    BY <1>1 DEF GCN!SetForm
  <2> QED
    BY <1>0, <2>4, <2>5, <2>6, FormsStep DEF Fields
<1>2. ASSUME NEW gender \in GCN!Genders, GCN!SetGender(gender) PROVE Gen3Inv'
  <2>1. PICK p \in GCN!WithGender(species.ratio, native.pid, gender) : native' = [native EXCEPT !.pid = p]
    BY <1>2 DEF GCN!SetGender
  <2>2. /\ Whole(Fields, native') /\ native'.pid = p /\ \A f \in Fields \ {"pid"} : native'[f] = native[f]
    BY <2>1 DEF Gen3Inv, Whole, Fields
  <2>3. cache' = [cache EXCEPT !.form = cache.form] /\ UNCHANGED <<species, game>>
    BY <1>2 DEF GCN!SetGender, Gen3Inv, Whole, CacheFields
  <2>4. p \subseteq Bits
    BY <1>0, GendersBits
  <2> QED
    BY <1>0, <2>2, <2>3, <2>4, FormsStep DEF Fields
<1>3. ASSUME NEW value \in BOOLEAN, GCN!SetShininess(value) PROVE Gen3Inv'
  <2>1. PICK p : p = GCN!WithShininess(native.pid, native.ot, value)
    OBVIOUS
  <2>2. /\ Whole(Fields, native') /\ native'.pid = p /\ \A f \in Fields \ {"pid"} : native'[f] = native[f]
    BY <1>3, <2>1 DEF GCN!SetShininess, Gen3Inv, Whole, Fields
  <2>3. PICK form \in Forms : cache' = [cache EXCEPT !.form = form]
    BY <1>0, <1>3, <2>1, SameBits, LettersAreLetters DEF GCN!SetShininess, GCN!FormFrom, Forms
  <2>4. p \subseteq Bits /\ UNCHANGED <<species, game>>
    BY <1>0, <1>3, <2>1, BitsStayBits DEF GCN!SetShininess
  <2> QED
    BY <1>0, <2>2, <2>3, <2>4, FormsStep DEF Fields
<1>4. ASSUME NEW p \in Draws, GCN!TakePersonality(p), UNCHANGED <<species, game>> PROVE Gen3Inv'
  <2>2. /\ Whole(Fields, native') /\ native'.pid = p /\ native'.second = GCN!SecondFrom(p)
        /\ \A f \in Fields \ {"pid", "second"} : native'[f] = native[f]
    BY <1>4 DEF GCN!TakePersonality, Gen3Inv, Whole, Fields
  <2>3. PICK form \in Forms : cache' = [cache EXCEPT !.form = form]
    BY <1>0, <1>4, SameBits, LettersAreLetters DEF GCN!TakePersonality, GCN!FormFrom, Forms
  <2>4. p \subseteq Bits /\ GCN!SecondFrom(p) \in BOOLEAN
    BY <1>0, Gen3Assumption DEF GCN!SecondFrom
  <2> QED
    BY <1>0, <1>4, <2>2, <2>3, <2>4, FormsStep DEF Fields
<1>5. ASSUME NEW ability \in GCN!Abilities, GCN!SetAbility(ability) PROVE Gen3Inv'
  <2>1. PICK p \in Draws : native' = [native EXCEPT !.pid = p, !.second = ability = 2]
    BY <1>5 DEF GCN!SetAbility
  <2>2. /\ Whole(Fields, native') /\ native'.pid = p /\ native'.second \in BOOLEAN
        /\ \A f \in Fields \ {"pid", "second"} : native'[f] = native[f]
    BY <2>1 DEF Gen3Inv, Whole, Fields
  <2>3. cache' = [cache EXCEPT !.form = cache.form] /\ UNCHANGED <<species, game>>
    BY <1>5 DEF GCN!SetAbility, Gen3Inv, Whole, CacheFields
  <2>4. p \subseteq Bits
    BY Gen3Assumption
  <2> QED
    BY <1>0, <2>2, <2>3, <2>4, FormsStep DEF Fields
<1> QED
  BY <1>1, <1>2, <1>3, <1>4, <1>5, GCNPlainStep DEF GCN!TraitsNext, GCN!SetPersonality, GCN!SetNature

LEMMA GCNGrowthStep ==
  ASSUME Gen3Inv, OnGCN, GCN!GrowthNext
  PROVE  Gen3Inv' /\ FormKept
<1>0. /\ Whole(Fields, native) /\ Whole(CacheFields, cache) /\ native.exp \in 0..ExpAt[100]
      /\ cache.IVs = native.iv /\ cache.EVs = native.ev
  BY DEF Gen3Inv, Good, GoodGrowth, Seen, SeenGrowth
<1>1. ASSUME NEW experience \in 0..ExpAt[100], UNCHANGED <<species, game>>,
             native' = GCN!ResetPartyData([native EXCEPT !.exp = experience]),
             cache' = GCN!ReadStats(native')
      PROVE  Gen3Inv' /\ FormKept
  <2>1. PICK old : old = [native EXCEPT !.exp = experience]
    OBVIOUS
  <2>2. /\ Whole(Fields, old) /\ old.exp = experience /\ old.iv = native.iv /\ old.ev = native.ev
        /\ \A f \in Fields \ {"exp", "iv", "ev"} : old[f] = native[f]
    BY <1>0, <2>1 DEF Whole, Fields
  <2>3. /\ Whole(CacheFields, cache') /\ cache'.stats = native'.stats
        /\ \A f \in CacheFields \ {"stats"} : cache'[f] = cache[f]
    BY <1>0, <1>1 DEF GCN!ReadStats, Whole, CacheFields
  <2>4. cache'.IVs = native.iv /\ cache'.EVs = native.ev
    BY <1>0, <2>3 DEF CacheFields
  <2>5. native' = GCN!ResetPartyData(old)
    BY <1>1, <2>1
  <2> QED
    BY <1>1, <2>2, <2>3, <2>4, <2>5, ComputedStep
<1>2. ASSUME NEW stat, NEW value, GCN!SetIV(stat, value) PROVE Gen3Inv' /\ FormKept
  <2>1. PICK old : old = [native EXCEPT !.iv[stat] = value]
    OBVIOUS
  <2>2. PICK iv : iv = [native.iv EXCEPT ![stat] = value]
    OBVIOUS
  <2>3. /\ Whole(Fields, old) /\ old.exp = native.exp /\ old.iv = iv /\ old.ev = native.ev
        /\ \A f \in Fields \ {"exp", "iv", "ev"} : old[f] = native[f]
    BY <1>0, <2>1, <2>2 DEF Whole, Fields
  <2>4. /\ Whole(CacheFields, cache') /\ cache'.stats = native'.stats /\ cache'.IVs = iv
        /\ \A f \in CacheFields \ {"stats", "IVs"} : cache'[f] = cache[f]
    BY <1>0, <1>2, <2>2 DEF GCN!SetIV, GCN!ReadStats, Whole, CacheFields
  <2>5. cache'.EVs = native.ev
    BY <1>0, <2>4 DEF CacheFields
  <2>6. native' = GCN!ResetPartyData(old) /\ UNCHANGED <<species, game>>
    BY <1>2, <2>1 DEF GCN!SetIV
  <2> QED
    BY <1>0, <2>3, <2>4, <2>5, <2>6, ComputedStep
<1>3. ASSUME NEW stat, NEW value, GCN!SetEV(stat, value) PROVE Gen3Inv' /\ FormKept
  <2>1. PICK old : old = [native EXCEPT !.ev[stat] = value]
    OBVIOUS
  <2>2. PICK ev : ev = [native.ev EXCEPT ![stat] = value]
    OBVIOUS
  <2>3. /\ Whole(Fields, old) /\ old.exp = native.exp /\ old.iv = native.iv /\ old.ev = ev
        /\ \A f \in Fields \ {"exp", "iv", "ev"} : old[f] = native[f]
    BY <1>0, <2>1, <2>2 DEF Whole, Fields
  <2>4. native' = GCN!ResetPartyData(old) /\ UNCHANGED <<species, game>>
    BY <1>3, <2>1 DEF GCN!SetEV
  <2>5. native'.ev = ev
    BY <1>0, <2>3, <2>4, GCNComputed DEF Fields, ComputedFields
  <2>6. /\ Whole(CacheFields, cache') /\ cache'.stats = native'.stats /\ cache'.EVs = ev
        /\ \A f \in CacheFields \ {"stats", "EVs"} : cache'[f] = cache[f]
    BY <1>0, <1>3, <2>2 DEF GCN!SetEV, GCN!ReadStats, Whole, CacheFields
  <2>7. cache'.IVs = native.iv
    BY <1>0, <2>6 DEF CacheFields
  <2> QED
    BY <1>0, <2>3, <2>4, <2>6, <2>7, ComputedStep
<1>4. ASSUME NEW experience \in Experiences, GCN!SetExperience(experience) PROVE Gen3Inv' /\ FormKept
  BY <1>1, <1>4, InputsAssumption DEF GCN!SetExperience
<1>5. ASSUME NEW level \in DOMAIN ExpAt, GCN!SetLevel(level) PROVE Gen3Inv' /\ FormKept
  <2>1. PICK experience \in 0..ExpAt[100] : experience = GCNExpAt[level] /\ level \in DOMAIN GCNExpAt
    BY ExpOfALevel
  <2>2. /\ Whole(Fields, native') /\ native'.level = level /\ native'.exp = experience
        /\ \A f \in Fields \ {"level", "exp"} : native'[f] = native[f]
    BY <1>0, <1>5, <2>1 DEF GCN!SetLevel, Whole, Fields
  <2>3. /\ Whole(CacheFields, cache') /\ cache'.stats = native'.stats
        /\ \A f \in CacheFields \ {"stats"} : cache'[f] = cache[f]
    BY <1>0, <1>5 DEF GCN!SetLevel, GCN!ReadStats, Whole, CacheFields
  <2>4. GoodGrowth(native') /\ SeenGrowth(native', cache')
    BY <1>0, <2>1, <2>2, <2>3 DEF Gen3Inv, Good, GoodGrowth, SeenGrowth, Fields, CacheFields
  <2>5. UNCHANGED <<species, game>>
    BY <1>5 DEF GCN!SetLevel
  <2> QED
    BY <2>2, <2>3, <2>4, <2>5, GrowthStep DEF GrowthFields
<1> QED
  BY <1>2, <1>3, <1>4, <1>5, GCNPlainStep DEF GCN!GrowthNext

LEMMA GCNOtherSteps ==
  ASSUME Gen3Inv, OnGCN, GCN!MovesNext \/ GCN!HonoursNext \/ GCN!HistoryNext
  PROVE  Gen3Inv' /\ FormKept
<1>1. CASE GCN!MovesNext
  BY <1>1, SetMoveStep, SetMovePPStep DEF GCN!MovesNext
<1>2. CASE GCN!HonoursNext
  BY <1>2, ContestStep, SpecialStep, MarkStep, GCNPlainStep DEF GCN!HonoursNext, GCN!ContestLevels
<1>3. CASE GCN!HistoryNext
  BY <1>3, GCNPlainStep, SameOperators DEF GCN!HistoryNext, GCN!Games, Games
<1> QED
  BY <1>1, <1>2, <1>3

-----------------------------------------------------------------------------
(* A constructor reads all of the structure. *)
LEMMA CacheIsWhole ==
  ASSUME NEW data, NEW form \in Forms, Good(data)
  PROVE  Whole(CacheFields, CacheOf(data, form)) /\ Seen(data, CacheOf(data, form))
<1>1. Whole(CacheFields, CacheOf(data, form))
  BY DEF Whole, CacheOf, CacheFields
<1>2. SeenGrowth(data, CacheOf(data, form)) /\ SeenHonours(data, CacheOf(data, form))
  BY DEF CacheOf, SeenGrowth, SeenHonours
<1>3. SeenMoves(data, CacheOf(data, form)) /\ CacheOf(data, form).form = form
  BY DEF CacheOf, SeenMoves
<1> QED
  BY <1>1, <1>2, <1>3 DEF Seen

LEMMA MadeStep ==
  ASSUME species' \in Kinds, game' \in Games, Whole(Fields, native'), Good(native'),
         NEW form \in Forms, cache' = CacheOf(native', form),
         species'.unown => native'.letter \in 0..27,
         game' \in GBAGames => ~native'.shadow
  PROVE  Gen3Inv'
<1>1. Whole(CacheFields, cache') /\ Seen(native', cache')
  BY CacheIsWhole
<1> QED
  BY <1>1 DEF Gen3Inv, OnGBA

(* That of the GBA rewrites the personality of an Unown and nothing else.  *)
LEMMA FromPartyReads ==
  ASSUME NEW data, Whole(Fields, data), Good(data), species \in Kinds, GBA!FromParty(data)
  PROVE  /\ Whole(Fields, native') /\ Good(native')
         /\ native'.pid = IF species.unown THEN WithLetter(data.pid, data.letter) ELSE data.pid
         /\ \A f \in Fields \ {"pid"} : native'[f] = data[f]
         /\ cache' = CacheOf(native', data.letter) /\ data.letter \in Forms
<1>1. PICK pid \in SUBSET Bits : pid = IF species.unown THEN WithLetter(data.pid, data.letter) ELSE data.pid
  BY BitsStayBits DEF Good, GoodTraits
<1>2. native' = [data EXCEPT !.pid = pid]
  <2>1. CASE species.unown
    BY <1>1, <2>1, SameBits DEF GBA!FromParty
  <2>2. CASE ~species.unown
    <3>1. native' = data /\ pid = data.pid
      BY <1>1, <2>2 DEF GBA!FromParty
    <3> QED
      BY <3>1 DEF Whole, Fields
  <2> QED
    BY <2>1, <2>2
<1>3. /\ Whole(Fields, native') /\ native'.pid = pid
      /\ \A f \in Fields \ {"pid"} : native'[f] = data[f]
  BY <1>2 DEF Whole, Fields
<1>4. Good(native')
  <2>1. GoodGrowth(native') /\ GoodMoves(native') /\ GoodHonours(native')
    BY <1>3 DEF Good, GoodGrowth, GoodMoves, GoodHonours, Fields
  <2>2. GoodTraits(native')
    BY <1>3 DEF Good, GoodTraits, Fields
  <2> QED
    BY <2>1, <2>2 DEF Good
<1>5. cache' = CacheOf(native', data.letter)
  BY SameOperators DEF GBA!FromParty
<1>6. data.letter \in Forms
  BY DEF Good, GoodTraits, Forms
<1> QED
  BY <1>1, <1>3, <1>4, <1>5, <1>6

(* What the conversions make of a good structure. *)
ConvertedFields == {"level", "stats", "levelMet", "item", "shadow", "origin"}

LEMMA ConvertedIsGood ==
  ASSUME NEW old, Good(old), NEW new, Whole(Fields, new),
         \A f \in Fields \ ConvertedFields : new[f] = old[f],
         new.level \in DOMAIN GCNExpAt, new.levelMet \in DOMAIN GCNExpAt,
         new.stats.iv = old.iv, new.stats.ev = old.ev,
         new.item \in Items \cup {NoItem}, new.shadow \in BOOLEAN, new.origin \in Games \cup {"GCN"}
  PROVE  Good(new)
<1>1. GoodTraits(new) /\ GoodGrowth(new)
  BY DEF Good, GoodTraits, GoodGrowth, Fields, ConvertedFields
<1>2. GoodMoves(new) /\ GoodHonours(new)
  BY DEF Good, GoodMoves, GoodHonours, Fields, ConvertedFields
<1> QED
  BY <1>1, <1>2 DEF Good

LEMMA ToGCNIsGood ==
  ASSUME NEW old, Whole(Fields, old), Good(old), NEW new, new = GBAToGCN(old)
  PROVE  /\ Whole(Fields, new) /\ Good(new)
         /\ \A f \in Fields \ ConvertedFields : new[f] = old[f]
<1>1. PICK level \in DOMAIN GCNExpAt : level = LevelFromGBA(old)
  BY LevelsAreLevels, LevelsAssumption DEF LevelFromGBA, Good, GoodGrowth
<1>2. PICK item \in Items \cup {NoItem} : item = IF old.item \in OnBothSides THEN old.item ELSE NoItem
  BY DEF Good, GoodTraits
<1>3. new = [old EXCEPT !.level = level, !.stats = StatsFrom(level, old.iv, old.ev), !.levelMet = level, !.item = item]
  BY <1>1, <1>2 DEF GBAToGCN
<1>4. /\ Whole(Fields, new) /\ new.level = level /\ new.levelMet = level /\ new.item = item
      /\ new.stats = StatsFrom(level, old.iv, old.ev)
      /\ \A f \in Fields \ {"level", "stats", "levelMet", "item"} : new[f] = old[f]
  BY <1>3 DEF Whole, Fields
<1>5. new.stats.iv = old.iv /\ new.stats.ev = old.ev
  BY <1>4 DEF StatsFrom
<1>6. new.shadow \in BOOLEAN /\ new.origin \in Games \cup {"GCN"}
  BY <1>4 DEF Good, GoodTraits, Fields
<1>7. \A f \in Fields \ ConvertedFields : new[f] = old[f]
  BY <1>4 DEF ConvertedFields
<1> QED
  BY <1>4, <1>5, <1>6, <1>7, ConvertedIsGood

(* The level met becomes the level, with another shadow or another origin. *)
LEMMA MetAnewIsGood ==
  ASSUME NEW old, Good(old), NEW new, Whole(Fields, new),
         new.levelMet = old.level, new.shadow \in BOOLEAN, new.origin \in Games \cup {"GCN"},
         \A f \in Fields \ {"levelMet", "shadow", "origin"} : new[f] = old[f]
  PROVE  Good(new) /\ \A f \in Fields \ ConvertedFields : new[f] = old[f]
<1>1. \A f \in Fields \ ConvertedFields : new[f] = old[f]
  BY DEF ConvertedFields
<1>2. /\ new.level \in DOMAIN GCNExpAt /\ new.stats.iv = old.iv /\ new.stats.ev = old.ev
      /\ old.level \in DOMAIN GCNExpAt /\ new.item \in Items \cup {NoItem}
  BY DEF Good, GoodGrowth, GoodTraits, Fields
<1> QED
  BY <1>1, <1>2, ConvertedIsGood

(* What a trade keeps of the structure. *)
TradeResult(target, letter) ==
  /\ Whole(Fields, native') /\ Good(native')
  /\ \A f \in Fields \ (ConvertedFields \cup {"pid"}) : native'[f] = native[f]
  /\ native'.pid = IF species.unown /\ target \in GBAGames THEN WithLetter(native.pid, native.letter) ELSE native.pid
  /\ letter \in Forms /\ cache' = CacheOf(native', letter)
  /\ species.unown => letter = IF target \in GBAGames THEN native.letter ELSE LetterOf(native'.pid)
  /\ target \in GBAGames => ~native'.shadow

LEMMA ToTheGBA ==
  ASSUME species \in Kinds, Whole(Fields, native), Good(native), NEW target \in GBAGames, NEW new,
         Whole(Fields, new), Good(new), ~new.shadow,
         \A f \in Fields \ ConvertedFields : new[f] = native[f],
         GBA!FromParty(new)
  PROVE  TradeResult(target, native.letter)
<1>1. /\ Whole(Fields, native') /\ Good(native')
      /\ native'.pid = IF species.unown THEN WithLetter(new.pid, new.letter) ELSE new.pid
      /\ \A f \in Fields \ {"pid"} : native'[f] = new[f]
      /\ cache' = CacheOf(native', new.letter) /\ new.letter \in Forms
  BY FromPartyReads
<1>2. new.pid = native.pid /\ new.letter = native.letter /\ native'.shadow = new.shadow
  BY <1>1 DEF Fields, ConvertedFields
<1>3. \A f \in Fields \ (ConvertedFields \cup {"pid"}) : native'[f] = native[f]
  BY <1>1
<1> QED
  BY <1>1, <1>2, <1>3 DEF TradeResult

LEMMA ToTheGCN ==
  ASSUME species \in Kinds, Whole(Fields, native), NEW target \in GCNGames, NEW new,
         Whole(Fields, new), Good(new),
         \A f \in Fields \ ConvertedFields : new[f] = native[f],
         GCN!FromNative(new)
  PROVE  \E letter : TradeResult(target, letter)
<1>1. PICK letter \in Forms : /\ cache' = CacheOf(new, letter) /\ native' = new
                              /\ species.unown => letter = LetterOf(new.pid)
  BY SameOperators, SameBits, LettersAreLetters DEF GCN!FromNative, Forms
<1>2. target \notin GBAGames
  BY Gen3Assumption
<1>3. native'.pid = native.pid
  BY <1>1 DEF Fields, ConvertedFields
<1> QED
  BY <1>1, <1>2, <1>3 DEF TradeResult

LEMMA ToGameResult ==
  ASSUME Gen3Inv, NEW target \in Games, ToGame(target)
  PROVE  /\ \E letter : TradeResult(target, letter)
         /\ game' = target /\ species' = species
<1>0. /\ Whole(Fields, native) /\ Good(native) /\ species \in Kinds /\ game \in Games
      /\ native.shadow \in BOOLEAN /\ native.origin \in Games \cup {"GCN"}
      /\ OnGBA => ~native.shadow
  BY DEF Gen3Inv, Good, GoodTraits
<1>1. CASE OnGBA /\ target \in GBAGames /\ FromGBAToGBA
  <2>1. PICK new : new = [native EXCEPT !.levelMet = native.level, !.origin = game]
    OBVIOUS
  <2>2. /\ Whole(Fields, new) /\ new.levelMet = native.level /\ new.shadow = native.shadow /\ new.origin = game
        /\ \A f \in Fields \ {"levelMet", "shadow", "origin"} : new[f] = native[f]
    BY <1>0, <2>1 DEF Whole, Fields
  <2>3. Good(new) /\ \A f \in Fields \ ConvertedFields : new[f] = native[f]
    BY <1>0, <2>2, MetAnewIsGood
  <2>4. GBA!FromParty(new)
    BY <1>1, <2>1 DEF FromGBAToGBA
  <2> QED
    BY <1>0, <1>1, <2>2, <2>3, <2>4, ToTheGBA DEF ToGame
<1>2. CASE OnGBA /\ target \in GCNGames /\ FromGBAToGCN
  <2>1. PICK new : new = GBAToGCN(native)
    OBVIOUS
  <2>2. Whole(Fields, new) /\ Good(new) /\ \A f \in Fields \ ConvertedFields : new[f] = native[f]
    BY <1>0, <2>1, ToGCNIsGood
  <2>3. GCN!FromNative(new)
    BY <1>2, <2>1 DEF FromGBAToGCN
  <2> QED
    BY <1>0, <1>2, <2>2, <2>3, ToTheGCN DEF ToGame
<1>3. CASE OnGCN /\ target \in GCNGames /\ FromGCNToGCN(target)
  <2>1. PICK shadow \in {native.shadow, IF target = game THEN native.shadow ELSE FALSE} :
           GCN!FromNative([native EXCEPT !.levelMet = native.level, !.shadow = shadow])
    BY <1>3 DEF FromGCNToGCN
  <2>2. PICK new : new = [native EXCEPT !.levelMet = native.level, !.shadow = shadow]
    OBVIOUS
  <2>3. /\ Whole(Fields, new) /\ new.levelMet = native.level /\ new.shadow = shadow /\ new.origin = native.origin
        /\ \A f \in Fields \ {"levelMet", "shadow", "origin"} : new[f] = native[f]
    BY <1>0, <2>2 DEF Whole, Fields
  <2>4. shadow \in BOOLEAN
    BY <1>0
  <2>5. Good(new) /\ \A f \in Fields \ ConvertedFields : new[f] = native[f]
    BY <1>0, <2>3, <2>4, MetAnewIsGood
  <2>6. GCN!FromNative(new)
    BY <2>1, <2>2
  <2> QED
    BY <1>0, <1>3, <2>3, <2>5, <2>6, ToTheGCN DEF ToGame
<1>4. CASE OnGCN /\ target \in GBAGames /\ FromGCNToGBA(target)
  <2>1. PICK new : new = GCNToGBA(native)
    OBVIOUS
  <2>2. /\ Whole(Fields, new) /\ new.levelMet = native.level /\ new.shadow = FALSE /\ new.origin = native.origin
        /\ \A f \in Fields \ {"levelMet", "shadow", "origin"} : new[f] = native[f]
    BY <1>0, <2>1 DEF GCNToGBA, Whole, Fields
  <2>3. Good(new) /\ \A f \in Fields \ ConvertedFields : new[f] = native[f]
    BY <1>0, <2>2, MetAnewIsGood
  <2>4. GBA!FromParty(new)
    BY <1>4, <2>1 DEF FromGCNToGBA
  <2> QED
    BY <1>0, <1>4, <2>2, <2>3, <2>4, ToTheGBA DEF ToGame
<1> QED
  BY <1>1, <1>2, <1>3, <1>4 DEF ToGame

LEMMA ToGameInv ==
  ASSUME Gen3Inv, NEW target \in Games, ToGame(target)
  PROVE  Gen3Inv'
<1>1. /\ \E letter : TradeResult(target, letter)
      /\ game' = target /\ species' = species
  BY ToGameResult
<1>2. PICK letter : TradeResult(target, letter)
  BY <1>1
<1>3. native'.letter = native.letter
  BY <1>2 DEF TradeResult, Fields, ConvertedFields
<1>4. /\ species' \in Kinds /\ game' \in Games /\ (species'.unown => native'.letter \in 0..27)
  BY <1>1, <1>3 DEF Gen3Inv
<1>5. /\ Whole(Fields, native') /\ Good(native') /\ letter \in Forms /\ cache' = CacheOf(native', letter)
      /\ game' \in GBAGames => ~native'.shadow
  BY <1>1, <1>2 DEF TradeResult
<1> QED
  BY <1>4, <1>5, MadeStep

(* Copies and reloads. *)
LEMMA ReloadResult ==
  ASSUME Gen3Inv, OnGBA, GBA!ReloadNext
  PROVE  /\ Gen3Inv'
         /\ native'.pid = IF species.unown THEN WithLetter(native.pid, native.letter) ELSE native.pid
         /\ cache'.form = native.letter /\ species' = species
<1>1. PICK new : /\ GBA!FromParty(new) /\ new \in {native, GBA!WithPartyData(native)} 
  BY DEF GBA!ReloadNext, GBA!Copy, GBA!FromPC
<1>2. Whole(Fields, native) /\ Good(native) /\ species \in Kinds /\ ~native.shadow /\ UNCHANGED <<species, game>>
  BY DEF Gen3Inv, GBA!ReloadNext, GBA!Copy, GBA!FromPC
<1>3. /\ Whole(Fields, new) /\ GoodGrowth(new) /\ \A f \in Fields \ ComputedFields : new[f] = native[f]
  <2>1. native.exp \in 0..ExpAt[100] /\ GoodGrowth(native)
    BY <1>2 DEF Good, GoodGrowth
  <2> QED
    BY <1>1, <1>2, <2>1, GBAComputed
<1>4. Good(new)
  BY <1>2, <1>3 DEF Good, GoodTraits, GoodMoves, GoodHonours, Fields, ComputedFields
<1>5. /\ Whole(Fields, native') /\ Good(native')
      /\ native'.pid = IF species.unown THEN WithLetter(new.pid, new.letter) ELSE new.pid
      /\ \A f \in Fields \ {"pid"} : native'[f] = new[f]
      /\ cache' = CacheOf(native', new.letter) /\ new.letter \in Forms
  BY <1>1, <1>2, <1>3, <1>4, FromPartyReads
<1>6. /\ new.pid = native.pid /\ new.letter = native.letter /\ native'.letter = native.letter
      /\ native'.shadow = native.shadow
  BY <1>3, <1>5 DEF Fields, ComputedFields
<1>7. Gen3Inv'
  <2>1. species' \in Kinds /\ game' \in Games /\ (species'.unown => native'.letter \in 0..27)
    BY <1>2, <1>6 DEF Gen3Inv
  <2>2. game' \in GBAGames => ~native'.shadow
    BY <1>2, <1>6
  <2> QED
    BY <1>5, <2>1, <2>2, MadeStep
<1> QED
  BY <1>2, <1>5, <1>6, <1>7 DEF CacheOf

LEMMA CopyResult ==
  ASSUME Gen3Inv, OnGCN, GCN!Copy
  PROVE  /\ Gen3Inv'
         /\ native' = native /\ species' = species
         /\ species.unown => cache'.form = LetterOf(native'.pid)
<1>1. PICK form \in Forms : /\ cache' = CacheOf(native, form) /\ native' = native /\ UNCHANGED <<species, game>>
                            /\ species.unown => form = LetterOf(native.pid)
  BY SameOperators, SameBits, LettersAreLetters DEF GCN!Copy, GCN!FromNative, Forms
<1>2. Gen3Inv'
  <2>1. /\ species' \in Kinds /\ game' \in Games /\ Whole(Fields, native') /\ Good(native')
        /\ cache' = CacheOf(native', form)
    BY <1>1 DEF Gen3Inv
  <2>2. (species'.unown => native'.letter \in 0..27) /\ (game' \in GBAGames => ~native'.shadow)
    BY <1>1 DEF Gen3Inv, OnGBA
  <2> QED
    BY <2>1, <2>2, MadeStep
<1> QED
  BY <1>1, <1>2 DEF CacheOf

LEMMA Gen3StepInv ==
  ASSUME Gen3Inv, [Gen3Next]_gen3Vars
  PROVE  Gen3Inv'
<1>1. CASE TradeNext
  BY <1>1, ToGameInv, ReloadResult, CopyResult DEF TradeNext
<1>2. CASE OnGBA /\ (GBA!TraitsNext \/ GBA!GrowthNext)
  BY <1>2, GBATraitsStep, GBAGrowthStep
<1>3. CASE OnGBA /\ (GBA!MovesNext \/ GBA!HonoursNext \/ GBA!HistoryNext)
  BY <1>3, GBAOtherSteps
<1>4. CASE OnGCN /\ (GCN!TraitsNext \/ GCN!GrowthNext)
  BY <1>4, GCNTraitsStep, GCNGrowthStep
<1>5. CASE OnGCN /\ (GCN!MovesNext \/ GCN!HonoursNext \/ GCN!HistoryNext)
  BY <1>5, GCNOtherSteps
<1>6. CASE UNCHANGED gen3Vars
  BY <1>6 DEF gen3Vars, Gen3Inv, OnGBA
<1> QED
  BY <1>1, <1>2, <1>3, <1>4, <1>5, <1>6
     DEF Gen3Next, TraitsNext, GrowthNext, MovesNext, HonoursNext, HistoryNext

-----------------------------------------------------------------------------
(* A new Pokemon. *)
LEMMA SameNew ==
  ASSUME NEW origin, NEW level, NEW p, NEW second, NEW letter, NEW iv, NEW experience, NEW moves
  PROVE  /\ GBA!NewNative(origin, level, p, second, letter, iv, experience, moves)
              = NewNative(origin, level, p, second, letter, iv, experience, moves)
         /\ GCN!NewNative(origin, level, p, second, letter, iv, experience, moves)
              = NewNative(origin, level, p, second, letter, iv, experience, moves)
BY SameOperators DEF NewNative, GBA!NewNative, GCN!NewNative, NoCondition, GBA!NoCondition, GCN!NoCondition

LEMMA NewIsGood ==
  ASSUME NEW origin \in Games \cup {"GCN"}, NEW level \in DOMAIN GCNExpAt, NEW p \in SUBSET Bits,
         NEW second \in BOOLEAN, NEW letter \in 0..27 \cup {NoForm}, NEW iv, NEW experience \in 0..ExpAt[100],
         NEW moves \in [Slots -> Moves]
  PROVE  LET new == NewNative(origin, level, p, second, letter, iv, experience, moves)
         IN  Whole(Fields, new) /\ Good(new)
<1>0. PICK new : new = NewNative(origin, level, p, second, letter, iv, experience, moves)
  OBVIOUS
<1>1. Whole(Fields, new)
  <2>1. PICK ot, evs, stats, pps, ups, contest, contestStats :
           new = [ pid |-> p, ot |-> ot, second |-> second, letter |-> letter, shadow |-> FALSE, exp |-> experience,
                   level |-> level, iv |-> iv, ev |-> evs, stats |-> stats, hp |-> "FULL", condition |-> NoCondition,
                   moves |-> moves, pps |-> pps, ups |-> ups, contest |-> contest, specials |-> {},
                   obedient |-> FALSE, markings |-> {}, contestStats |-> contestStats, item |-> NoItem,
                   origin |-> origin, levelMet |-> level, egg |-> FALSE ]
    BY <1>0 DEF NewNative
  <2> QED
    BY <2>1 DEF Whole, Fields
<1>2. (CHOOSE id \in TrainerIDs : TRUE) \in TrainerIDs
  BY InputsAssumption
<1>3. GoodTraits(new)
  BY <1>0, <1>2 DEF NewNative, GoodTraits
<1>4. GoodGrowth(new)
  BY <1>0 DEF NewNative, GoodGrowth, StatsFrom
<1>5. GoodMoves(new)
  <2>1. /\ new.moves = moves /\ new.pps = [i \in Slots |-> PPWith(moves[i], 0)] /\ new.ups = [i \in Slots |-> 0]
    BY <1>0 DEF NewNative
  <2>2. \A i \in Slots : moves[i] \in Moves \cup {NoMove} /\ PPWith(moves[i], 0) \in Nat
    BY PPIsANumber DEF NumPPUps
  <2> QED
    BY <2>1, <2>2 DEF GoodMoves, NumPPUps
<1>6. GoodHonours(new)
  BY <1>0 DEF NewNative, GoodHonours
<1> QED
  BY <1>0, <1>1, <1>3, <1>4, <1>5, <1>6 DEF Good

LEMMA GBAMakeInv ==
  ASSUME species \in Kinds, game \in Games, OnGBA, NEW p \in Draws, NEW level \in DOMAIN ExpAt,
         NEW moves \in [Slots -> Moves], NEW iv, NEW letter \in IF species.unown THEN Letters ELSE {NoForm},
         GBA!Make(level, p, iv, letter, moves)
  PROVE  Gen3Inv
<1>1. PICK pid \in SUBSET Bits : pid = IF species.unown THEN WithLetter(p, letter) ELSE p
  BY BitsStayBits, Gen3Assumption
<1>2. /\ letter \in 0..27 \cup {NoForm} /\ letter \in Forms /\ (species.unown => letter \in 0..27)
      /\ species.unown \in BOOLEAN
  BY InputsAssumption, KindsAssumption DEF Forms
<1>3. PICK second \in BOOLEAN : second = (GBA!Parity(p) = 1)
  OBVIOUS
<1>4. PICK experience \in 0..ExpAt[100] : experience = ExpAt[level] /\ level \in DOMAIN GCNExpAt
  BY ExpOfALevel
<1>5. /\ native = NewNative(game, level, pid, second, letter, iv, experience, moves)
      /\ cache = CacheOf(native, letter)
  BY <1>1, <1>3, <1>4, SameBits, SameNew, SameOperators DEF GBA!Make
<1>6. /\ Whole(Fields, native) /\ Good(native) /\ native.letter = letter /\ ~native.shadow
  <2>1. /\ game \in Games \cup {"GCN"} /\ letter \in 0..27 \cup {NoForm} /\ level \in DOMAIN GCNExpAt
        /\ pid \in SUBSET Bits /\ second \in BOOLEAN /\ experience \in 0..ExpAt[100]
    BY <1>1, <1>2, <1>3, <1>4
  <2>2. LET new == NewNative(game, level, pid, second, letter, iv, experience, moves)
        IN  Whole(Fields, new) /\ Good(new)
    BY <2>1, NewIsGood
  <2>3. native.letter = letter /\ ~native.shadow
    BY <1>5 DEF NewNative
  <2> QED
    BY <1>5, <2>2, <2>3
<1>7. Whole(CacheFields, cache) /\ Seen(native, cache)
  BY <1>2, <1>5, <1>6, CacheIsWhole
<1> QED
  BY <1>2, <1>6, <1>7 DEF Gen3Inv

LEMMA GCNMakeInv ==
  ASSUME species \in Kinds, game \in Games, OnGCN, NEW p \in Draws, NEW level \in DOMAIN ExpAt,
         NEW moves \in [Slots -> Moves], NEW iv, NEW form \in IF species.unown THEN Letters ELSE {NoForm, Shadow},
         GCN!Make(level, p, iv, form, moves)
  PROVE  Gen3Inv
<1>1. PICK pid \in SUBSET Bits : pid = IF species.unown THEN WithLetter(p, form) ELSE p
  BY BitsStayBits, Gen3Assumption
<1>2. PICK letter \in 0..27 \cup {NoForm} : letter = IF species.unown THEN 0 ELSE NoForm
  BY KindsAssumption
<1>3. PICK second \in BOOLEAN : second = GCN!SecondFrom(p)
  BY KindsAssumption DEF GCN!SecondFrom
<1>4. PICK experience \in 0..ExpAt[100] : experience = GCNExpAt[level] /\ level \in DOMAIN GCNExpAt
  BY ExpOfALevel
<1>5. PICK new : new = NewNative("GCN", level, pid, second, letter, iv, experience, moves)
  OBVIOUS
<1>6. native = GCN!ResetPartyData(new) /\ cache = CacheOf(native, form)
  BY <1>1, <1>2, <1>3, <1>4, <1>5, SameBits, SameNew, SameOperators DEF GCN!Make
<1>7. PICK origin \in Games \cup {"GCN"} : origin = "GCN"
  OBVIOUS
<1>8. Whole(Fields, new) /\ Good(new) /\ new.exp = experience /\ new.letter = letter
  <2>1. /\ origin \in Games \cup {"GCN"} /\ letter \in 0..27 \cup {NoForm} /\ level \in DOMAIN GCNExpAt
        /\ pid \in SUBSET Bits /\ second \in BOOLEAN /\ experience \in 0..ExpAt[100]
    BY <1>1, <1>2, <1>3, <1>4, <1>7
  <2>2. LET whole == NewNative(origin, level, pid, second, letter, iv, experience, moves)
        IN  Whole(Fields, whole) /\ Good(whole)
    BY <2>1, NewIsGood
  <2>3. new.exp = experience /\ new.letter = letter
    BY <1>5 DEF NewNative
  <2> QED
    BY <1>5, <1>7, <2>2, <2>3
<1>9. /\ Whole(Fields, native) /\ GoodGrowth(native)
      /\ \A f \in Fields \ ComputedFields : native[f] = new[f]
  BY <1>6, <1>8, GCNComputed
<1>10. Good(native) /\ native.letter = letter
  BY <1>8, <1>9 DEF Good, GoodTraits, GoodMoves, GoodHonours, Fields, ComputedFields
<1>11. form \in Forms
  BY InputsAssumption, KindsAssumption DEF Forms
<1>12. Whole(CacheFields, cache) /\ Seen(native, cache)
  BY <1>6, <1>10, <1>11, CacheIsWhole
<1>13. ~OnGBA
  BY Gen3Assumption DEF OnGBA, OnGCN
<1> QED
  BY <1>2, <1>9, <1>10, <1>12, <1>13 DEF Gen3Inv

LEMMA Gen3InitInv == Gen3Init => Gen3Inv
<1> SUFFICES ASSUME Gen3Init PROVE Gen3Inv
  OBVIOUS
<1>1. species \in Kinds /\ game \in Games
  BY DEF Gen3Init
<1>2. PICK p \in Draws, level \in DOMAIN ExpAt, moves \in [Slots -> Moves] : \E iv :
        \/ OnGBA /\ \E letter \in IF species.unown THEN Letters ELSE {NoForm} : GBA!Make(level, p, iv, letter, moves)
        \/ OnGCN /\ \E form \in IF species.unown THEN Letters ELSE {NoForm, Shadow} : GCN!Make(level, p, iv, form, moves)
  BY DEF Gen3Init
<1>3. PICK iv :
        \/ OnGBA /\ \E letter \in IF species.unown THEN Letters ELSE {NoForm} : GBA!Make(level, p, iv, letter, moves)
        \/ OnGCN /\ \E form \in IF species.unown THEN Letters ELSE {NoForm, Shadow} : GCN!Make(level, p, iv, form, moves)
  BY <1>2
<1> QED
  BY <1>1, <1>3, GBAMakeInv, GCNMakeInv

LEMMA Gen3InvHolds == Gen3Spec => []Gen3Inv
<1>1. Gen3Inv /\ [Gen3Next]_gen3Vars => Gen3Inv'
  BY Gen3StepInv
<1> QED
  BY <1>1, Gen3InitInv, PTL DEF Gen3Spec

(* The three structures of one creature agree after any calls and trades.  *)
THEOREM PokemonTheorem == Gen3Spec => []PokemonIsConsistent
BY Gen3InvHolds, Gen3InvIsEnough, PTL

(* to_game() keeps what makes the creature this one. *)
THEOREM Gen3TradeTheorem == Gen3Spec => TradeKeepsTraits
<1>1. Gen3Inv => \A target \in Games : ToGame(target) =>
        /\ IF species.unown /\ target \in GBAGames
           THEN native'.pid = WithLetter(native.pid, native.letter)
           ELSE native'.pid = native.pid /\ Shiny' = Shiny /\ Gender' = Gender
        /\ Ability' = Ability /\ native'.ot = native.ot
        /\ cache'.ribbons = cache.ribbons /\ cache'.markings = cache.markings
        /\ cache'.contestStats = cache.contestStats /\ cache'.moves = cache.moves
        /\ native'.condition = native.condition /\ native'.hp = native.hp
  <2> SUFFICES ASSUME Gen3Inv, NEW target \in Games, ToGame(target)
               PROVE  /\ IF species.unown /\ target \in GBAGames
                         THEN native'.pid = WithLetter(native.pid, native.letter)
                         ELSE native'.pid = native.pid /\ Shiny' = Shiny /\ Gender' = Gender
                      /\ Ability' = Ability /\ native'.ot = native.ot
                      /\ cache'.ribbons = cache.ribbons /\ cache'.markings = cache.markings
                      /\ cache'.contestStats = cache.contestStats /\ cache'.moves = cache.moves
                      /\ native'.condition = native.condition /\ native'.hp = native.hp
    OBVIOUS
  <2>1. PICK letter : TradeResult(target, letter)
    BY ToGameResult
  <2>2. species' = species
    BY ToGameResult
  <2>3. native'.pid = IF species.unown /\ target \in GBAGames THEN WithLetter(native.pid, native.letter) ELSE native.pid
    BY <2>1 DEF TradeResult
  <2>4. /\ native'.second = native.second /\ native'.ot = native.ot
        /\ native'.condition = native.condition /\ native'.hp = native.hp
        /\ native'.moves = native.moves /\ native'.pps = native.pps
        /\ native'.contest = native.contest /\ native'.specials = native.specials
        /\ native'.markings = native.markings /\ native'.contestStats = native.contestStats
    BY <2>1 DEF TradeResult, Fields, ConvertedFields
  <2>5. Seen(native, cache) /\ Seen(native', cache')
    BY ToGameInv DEF Gen3Inv
  <2>6. /\ cache'.ribbons = cache.ribbons /\ cache'.markings = cache.markings
        /\ cache'.contestStats = cache.contestStats
    BY <2>4, <2>5 DEF Seen, SeenHonours, RibbonsOf
  <2>7. cache'.moves = cache.moves
    BY <2>4, <2>5 DEF Seen, SeenMoves
  <2>8. Ability' = Ability
    BY <2>2, <2>4 DEF Ability
  <2>9. native'.pid = native.pid => Shiny' = Shiny /\ Gender' = Gender
    BY <2>2, <2>4 DEF Shiny, Gender
  <2> QED
    BY <2>3, <2>4, <2>6, <2>7, <2>8, <2>9
<1> QED
  BY <1>1, Gen3InvHolds, PTL DEF TradeKeepsTraits

-----------------------------------------------------------------------------
(* The personality bit by bit. *)
LEMMA SumOfBits ==
  ASSUME NEW n \in 0..255, NEW byte, \A k \in 0..7 : k \in byte <=> (n \div 2^k) % 2 = 1
  PROVE  NumberOf(byte) = n
<1>1. /\ Bit(byte, 0) = n % 2 /\ Bit(byte, 1) = (n \div 2) % 2
      /\ Bit(byte, 2) = (n \div 4) % 2 /\ Bit(byte, 3) = (n \div 8) % 2
      /\ Bit(byte, 4) = (n \div 16) % 2 /\ Bit(byte, 5) = (n \div 32) % 2
      /\ Bit(byte, 6) = (n \div 64) % 2 /\ Bit(byte, 7) = (n \div 128) % 2
  <2>1. /\ 0 \in byte <=> (n \div 2^0) % 2 = 1
        /\ 1 \in byte <=> (n \div 2^1) % 2 = 1
        /\ 2 \in byte <=> (n \div 2^2) % 2 = 1
        /\ 3 \in byte <=> (n \div 2^3) % 2 = 1
        /\ 4 \in byte <=> (n \div 2^4) % 2 = 1
        /\ 5 \in byte <=> (n \div 2^5) % 2 = 1
        /\ 6 \in byte <=> (n \div 2^6) % 2 = 1
        /\ 7 \in byte <=> (n \div 2^7) % 2 = 1
    OBVIOUS
  <2>2. 2^0 = 1 /\ 2^1 = 2 /\ 2^2 = 4 /\ 2^3 = 8 /\ 2^4 = 16 /\ 2^5 = 32 /\ 2^6 = 64 /\ 2^7 = 128
    OBVIOUS
  <2> QED
    BY <2>1, <2>2 DEF Bit
<1>2. n = 2 * (n \div 2) + (n % 2)
  OBVIOUS
<1>3. n \div 2 = 2 * (n \div 4) + ((n \div 2) % 2)
  OBVIOUS
<1>4. n \div 4 = 2 * (n \div 8) + ((n \div 4) % 2)
  OBVIOUS
<1>5. n \div 8 = 2 * (n \div 16) + ((n \div 8) % 2)
  OBVIOUS
<1>6. n \div 16 = 2 * (n \div 32) + ((n \div 16) % 2)
  OBVIOUS
<1>7. n \div 32 = 2 * (n \div 64) + ((n \div 32) % 2)
  OBVIOUS
<1>8. n \div 64 = 2 * (n \div 128) + ((n \div 64) % 2)
  OBVIOUS
<1>9. n \div 128 = 2 * (n \div 256) + ((n \div 128) % 2)
  OBVIOUS
<1>10. n \div 256 = 0
  OBVIOUS
<1> QED
  BY <1>1, <1>2, <1>3, <1>4, <1>5, <1>6, <1>7, <1>8, <1>9, <1>10 DEF NumberOf

LEMMA LetterBitsAre ==
  /\ LetterBits = {0, 1, 8, 9, 16, 17, 24, 25}
  /\ PlaceInLetter(0) = 0 /\ PlaceInLetter(1) = 1 /\ PlaceInLetter(8) = 2 /\ PlaceInLetter(9) = 3
  /\ PlaceInLetter(16) = 4 /\ PlaceInLetter(17) = 5 /\ PlaceInLetter(24) = 6 /\ PlaceInLetter(25) = 7
<1>1. ASSUME NEW i \in LetterBits PROVE i \in {0, 1, 8, 9, 16, 17, 24, 25}
  <2>1. PICK byte \in 0..3, bit \in 0..1 : i = 8 * byte + bit
    BY DEF LetterBits
  <2> QED
    BY <2>1
<1>2. ASSUME NEW i \in {0, 1, 8, 9, 16, 17, 24, 25} PROVE i \in LetterBits
  <2>1. i \in 0..31 /\ i = 8 * (i \div 8) + (i % 8) /\ i \div 8 \in 0..3 /\ i % 8 \in 0..1
    OBVIOUS
  <2> QED
    BY <2>1 DEF LetterBits
<1>3. LetterBits = {0, 1, 8, 9, 16, 17, 24, 25}
  BY <1>1, <1>2
<1> QED
  BY <1>3 DEF PlaceInLetter

(* The letter that was written is read. *)
LEMMA LetterIsRead ==
  ASSUME NEW p, NEW letter \in 0..27
  PROVE  LetterOf(WithLetter(p, letter)) = letter
<1> DEFINE places == {PlaceInLetter(i) : i \in WithLetter(p, letter) \cap LetterBits}
<1>1. \A i \in LetterBits : i \in WithLetter(p, letter) <=> (letter \div 2^PlaceInLetter(i)) % 2 = 1
  BY DEF WithLetter
<1>2. ASSUME NEW k \in 0..7 PROVE \E i \in LetterBits : PlaceInLetter(i) = k /\ \A j \in LetterBits : PlaceInLetter(j) = k => j = i
  BY LetterBitsAre
<1>3. \A k \in 0..7 : k \in places <=> (letter \div 2^k) % 2 = 1
  BY <1>1, <1>2
<1>4. NumberOf(places) = letter
  <2>1. letter \in 0..255
    OBVIOUS
  <2> HIDE DEF places
  <2> QED
    BY <1>3, <2>1, SumOfBits
<1> QED
  BY <1>4 DEF LetterOf

(* The last byte that was written is read, and the gender with it. *)
LEMMA ByteIsRead ==
  ASSUME NEW p, NEW n \in 0..255
  PROVE  NumberOf(LowByte(WithLowByte(p, n))) = n
<1>1. \A k \in 0..7 : k \in LowByte(WithLowByte(p, n)) <=> (n \div 2^k) % 2 = 1
  BY DEF LowByte, WithLowByte
<1> QED
  BY <1>1, SumOfBits

LEMMA GenderIsRead ==
  ASSUME NEW ratio, NEW p, NEW gender \in Genders, GenderAllowed(ratio, gender),
         NEW q \in WithGender(ratio, p, gender)
  PROVE  GenderOf(ratio, q) = gender
<1>1. FemaleBelow(ratio) \in 1..191
  BY DEF FemaleBelow
<1>2. CASE gender = "MALE"
  <2>1. q = WithLowByte(p, 255)
    BY <1>2 DEF WithGender
  <2>2. NumberOf(LowByte(q)) = 255
    BY <2>1, ByteIsRead
  <2> QED
    BY <1>1, <1>2, <2>2 DEF GenderOf, GenderAllowed
<1>3. CASE gender = "FEMALE"
  <2>1. PICK b \in RandomBytes : b < FemaleBelow(ratio) /\ q = WithLowByte(p, b)
    BY <1>3 DEF WithGender
  <2>2. NumberOf(LowByte(q)) = b
    BY <2>1, ByteIsRead, InputsAssumption
  <2> QED
    BY <1>1, <1>3, <2>1, <2>2 DEF GenderOf, GenderAllowed
<1> QED
  BY <1>2, <1>3 DEF Genders

(* What is toggled makes every column even. *)
LEMMA ShinyIsRead ==
  ASSUME NEW p, NEW id
  PROVE  ShinyWith(WithShininess(p, id, TRUE), id)
<1>1. PICK q : q = WithShininess(p, id, TRUE)
  OBVIOUS
<1>2. ASSUME NEW i \in 3..15 PROVE ~Odd(q, id, i)
  <2>1. i \in q <=> IF Odd(p, id, i) THEN i \notin p ELSE i \in p
    BY <1>1 DEF WithShininess, Toggle
  <2>2. i + 16 \notin 3..15
    OBVIOUS
  <2>3. i + 16 \in q <=> i + 16 \in p
    BY <1>1, <2>2 DEF WithShininess, Toggle
  <2> QED
    BY <2>1, <2>3 DEF Odd
<1> QED
  BY <1>1, <1>2 DEF ShinyWith

-----------------------------------------------------------------------------
(* The setters of both classes say the same of the personality. *)
LEMMA SameSetters ==
  /\ \A ratio, p, gender : /\ GBA!WithGender(ratio, p, gender) = WithGender(ratio, p, gender)
                           /\ GCN!WithGender(ratio, p, gender) = WithGender(ratio, p, gender)
  /\ \A p, id, value : /\ GBA!WithShininess(p, id, value) = WithShininess(p, id, value)
                       /\ GCN!WithShininess(p, id, value) = WithShininess(p, id, value)
  /\ \A ratio : GBA!FemaleBelow(ratio) = FemaleBelow(ratio) /\ GCN!FemaleBelow(ratio) = FemaleBelow(ratio)
  /\ GBA!Gender = Gender /\ GCN!Gender = Gender
  /\ GBA!Nature = Nature /\ GCN!Nature = Nature
  /\ GBA!Ability = Ability /\ GCN!Ability = Ability
<1>1. ASSUME NEW ratio PROVE GBA!FemaleBelow(ratio) = FemaleBelow(ratio) /\ GCN!FemaleBelow(ratio) = FemaleBelow(ratio)
  BY DEF FemaleBelow, GBA!FemaleBelow, GCN!FemaleBelow
<1>2. ASSUME NEW p, NEW byte
      PROVE  GBA!WithLowByte(p, byte) = WithLowByte(p, byte) /\ GCN!WithLowByte(p, byte) = WithLowByte(p, byte)
  BY DEF WithLowByte, GBA!WithLowByte, GCN!WithLowByte
<1>3. ASSUME NEW ratio, NEW p, NEW gender
      PROVE  /\ GBA!WithGender(ratio, p, gender) = WithGender(ratio, p, gender)
             /\ GCN!WithGender(ratio, p, gender) = WithGender(ratio, p, gender)
  BY <1>1, <1>2 DEF WithGender, GBA!WithGender, GCN!WithGender
<1>4. ASSUME NEW p, NEW id, NEW value
      PROVE  /\ GBA!WithShininess(p, id, value) = WithShininess(p, id, value)
             /\ GCN!WithShininess(p, id, value) = WithShininess(p, id, value)
  BY DEF WithShininess, GBA!WithShininess, GCN!WithShininess, Toggle, GBA!Toggle, GCN!Toggle,
         Odd, GBA!Odd, GCN!Odd
<1>5. GBA!Gender = Gender /\ GCN!Gender = Gender
  BY <1>1, SameBits DEF Gender, GBA!Gender, GCN!Gender, GenderOf, GBA!GenderOf, GCN!GenderOf
<1>6. GBA!Nature = Nature /\ GCN!Nature = Nature
  BY SameBits DEF Nature, GBA!Nature, GCN!Nature
<1>7. GBA!Ability = Ability /\ GCN!Ability = Ability
  BY DEF Ability, GBA!Ability, GCN!Ability
<1> QED
  BY <1>1, <1>3, <1>4, <1>5, <1>6, <1>7

LEMMA SameShine ==
  /\ \A p, id : (GBA!ShinyWith(p, id) <=> ShinyWith(p, id)) /\ (GCN!ShinyWith(p, id) <=> ShinyWith(p, id))
  /\ (GBA!Shiny <=> Shiny) /\ (GCN!Shiny <=> Shiny)
<1>1. ASSUME NEW p, NEW id
      PROVE  (GBA!ShinyWith(p, id) <=> ShinyWith(p, id)) /\ (GCN!ShinyWith(p, id) <=> ShinyWith(p, id))
  BY DEF ShinyWith, GBA!ShinyWith, GCN!ShinyWith, Odd, GBA!Odd, GCN!Odd
<1> QED
  BY <1>1 DEF Shiny, GBA!Shiny, GCN!Shiny

(* generate_personality() finds what it was asked for. *)
Drawn(p, ability, nature) ==
  /\ Parity(p) = ability - 1 /\ NatureOf(p) = nature
  /\ GenderOf(species.ratio, p) = Gender
  /\ ShinyWith(p, native.ot) <=> Shiny

LEMMA FitsMeans ==
  ASSUME NEW p, NEW ability, NEW nature,
         GBA!Fits(p, native.ot, GBA!Shiny, ability, GBA!Gender, nature)
           \/ GCN!Fits(p, native.ot, GCN!Shiny, ability, GCN!Gender, nature)
  PROVE  Drawn(p, ability, nature)
<1>1. Parity(p) = ability - 1 /\ NatureOf(p) = nature
  BY SameBits DEF GBA!Fits, GCN!Fits
<1>2. ShinyWith(p, native.ot) <=> Shiny
  <2>1. (GBA!ShinyWith(p, native.ot) = GBA!Shiny) \/ (GCN!ShinyWith(p, native.ot) = GCN!Shiny)
    BY Zenon DEF GBA!Fits, GCN!Fits
  <2>2. (GBA!ShinyWith(p, native.ot) <=> GBA!Shiny) \/ (GCN!ShinyWith(p, native.ot) <=> GCN!Shiny)
    BY <2>1, Zenon
  <2> QED
    BY <2>2, SameShine, Zenon
<1>3. /\ Gender = "MALE" => NumberOf(LowByte(p)) \in (FemaleBelow(species.ratio))..254
      /\ Gender = "FEMALE" => NumberOf(LowByte(p)) < FemaleBelow(species.ratio)
  BY SameBits, SameSetters DEF GBA!Fits, GCN!Fits
<1>4. FemaleBelow(species.ratio) \in Int /\ NumberOf(LowByte(p)) \in Int
  BY DEF FemaleBelow, NumberOf, Bit
<1>5. GenderOf(species.ratio, p) = Gender
  BY <1>3, <1>4 DEF Gender, GenderOf
<1> QED
  BY <1>1, <1>2, <1>5 DEF Drawn

(* What each setter does to the personality and what is read of it. *)
LEMMA NatureSetter ==
  ASSUME Gen3Inv, NEW nature, SetNature(nature)
  PROVE  /\ Drawn(native'.pid, Ability, nature) /\ native'.second = SecondFrom(native'.pid)
         /\ native'.ot = native.ot /\ species' = species
<1>1. PICK p : /\ native' = [native EXCEPT !.pid = p, !.second = SecondFrom(p)] /\ species' = species
               /\ \/ GBA!Fits(p, native.ot, GBA!Shiny, GBA!Ability, GBA!Gender, nature)
                  \/ GCN!Fits(p, native.ot, GCN!Shiny, GCN!Ability, GCN!Gender, nature)
  <2>1. \A p : (GBA!SecondFrom(p) = SecondFrom(p)) /\ (GCN!SecondFrom(p) = SecondFrom(p))
    BY SameBits DEF SecondFrom, GBA!SecondFrom, GCN!SecondFrom
  <2>2. CASE GBA!SetNature(nature)
    BY <2>1, <2>2 DEF GBA!SetNature, GBA!TakePersonality
  <2>3. CASE GCN!SetNature(nature)
    BY <2>1, <2>3 DEF GCN!SetNature, GCN!TakePersonality
  <2> QED
    BY <2>2, <2>3 DEF SetNature
<1>2. native'.pid = p /\ native'.second = SecondFrom(p) /\ native'.ot = native.ot
  BY <1>1 DEF Gen3Inv, Whole, Fields
<1>3. Drawn(p, Ability, nature)
  BY <1>1, FitsMeans, SameSetters
<1> QED
  BY <1>1, <1>2, <1>3

LEMMA AbilitySetter ==
  ASSUME Gen3Inv, NEW ability \in Abilities, SetAbility(ability)
  PROVE  /\ Drawn(native'.pid, ability, Nature) /\ native'.second = (ability = 2)
         /\ ability = 2 => species.two
         /\ native'.ot = native.ot /\ species' = species
<1>1. PICK p : /\ native' = [native EXCEPT !.pid = p, !.second = (ability = 2)] /\ species' = species
               /\ ability = 2 => species.two
               /\ \/ GBA!Fits(p, native.ot, GBA!Shiny, ability, GBA!Gender, GBA!Nature)
                  \/ GCN!Fits(p, native.ot, GCN!Shiny, ability, GCN!Gender, GCN!Nature)
  BY DEF SetAbility, GBA!SetAbility, GCN!SetAbility
<1>2. native'.pid = p /\ native'.second = (ability = 2) /\ native'.ot = native.ot
  BY <1>1 DEF Gen3Inv, Whole, Fields
<1>3. Drawn(p, ability, Nature)
  BY <1>1, FitsMeans, SameSetters
<1> QED
  BY <1>1, <1>2, <1>3

LEMMA GenderSetter ==
  ASSUME Gen3Inv, NEW gender, SetGender(gender)
  PROVE  /\ GenderAllowed(species.ratio, gender)
         /\ native'.pid \in WithGender(species.ratio, native.pid, gender)
         /\ native'.second = native.second /\ species' = species
<1>1. PICK p \in WithGender(species.ratio, native.pid, gender) :
         native' = [native EXCEPT !.pid = p] /\ species' = species
  BY SameSetters DEF SetGender, GBA!SetGender, GCN!SetGender
<1>2. native'.pid = p /\ native'.second = native.second
  BY <1>1 DEF Gen3Inv, Whole, Fields
<1>3. GenderAllowed(species.ratio, gender)
  BY DEF SetGender, GBA!SetGender, GCN!SetGender, GenderAllowed, GBA!GenderAllowed, GCN!GenderAllowed
<1> QED
  BY <1>1, <1>2, <1>3

LEMMA ShininessSetter ==
  ASSUME Gen3Inv, NEW value, SetShininess(value)
  PROVE  /\ native'.pid = WithShininess(native.pid, native.ot, value)
         /\ native'.ot = native.ot /\ species' = species
<1>1. PICK p : /\ p = WithShininess(native.pid, native.ot, value)
               /\ native' = [native EXCEPT !.pid = p] /\ species' = species
  BY SameSetters DEF SetShininess, GBA!SetShininess, GCN!SetShininess
<1>2. native'.pid = p /\ native'.ot = native.ot
  BY <1>1 DEF Gen3Inv, Whole, Fields
<1> QED
  BY <1>1, <1>2

LEMMA FormSetter ==
  ASSUME Gen3Inv, NEW form, SetForm(form), species.unown
  PROVE  form \in 0..27 => /\ native'.pid = WithLetter(native.pid, form)
                           /\ cache'.form = form /\ species' = species
<1>1. CASE GBA!SetForm(form)
  BY <1>1, SameBits DEF GBA!SetForm, Gen3Inv, Whole, Fields, CacheFields
<1>2. CASE GCN!SetForm(form)
  BY <1>2, SameBits DEF GCN!SetForm, Gen3Inv, Whole, Fields, CacheFields
<1> QED
  BY <1>1, <1>2 DEF SetForm

(* The nature is set, and the other things that are read of the            *)
(* personality are what they were.                                         *)
LEMMA NatureTheorem == Gen3Spec => NatureKeepsTheRest
<1>1. Gen3Inv => \A nature \in Natures : SetNature(nature) =>
        /\ Nature' = nature
        /\ Gender' = Gender /\ Shiny' = Shiny /\ Ability' = Ability
        /\ native'.second = SecondFrom(native'.pid)
  <2> SUFFICES ASSUME Gen3Inv, NEW nature \in Natures, SetNature(nature)
               PROVE  /\ Nature' = nature
                      /\ Gender' = Gender /\ Shiny' = Shiny /\ Ability' = Ability
                      /\ native'.second = SecondFrom(native'.pid)
    OBVIOUS
  <2>1. /\ Drawn(native'.pid, Ability, nature) /\ native'.second = SecondFrom(native'.pid)
        /\ native'.ot = native.ot /\ species' = species
    BY NatureSetter
  <2>2. Nature' = nature /\ Gender' = Gender
    BY <2>1 DEF Drawn, Nature, Gender
  <2>3. Shiny' = Shiny
    BY <2>1, Zenon DEF Drawn, Shiny, ShinyWith
  <2>4. Ability' = Ability
    <3>1. species.two \in BOOLEAN /\ native.second \in BOOLEAN /\ Parity(native'.pid) = Ability - 1
      BY <2>1, KindsAssumption DEF Drawn, Gen3Inv, Good, GoodTraits
    <3>2. CASE species.two /\ native.second
      <4>1. Ability = 2 /\ Parity(native'.pid) = 1
        BY <3>1, <3>2 DEF Ability
      <4>2. native'.second
        BY <2>1, <3>2, <4>1, Zenon DEF SecondFrom
      <4> QED
        BY <2>1, <3>2, <4>1, <4>2 DEF Ability
    <3>3. CASE ~(species.two /\ native.second)
      <4>1. Ability = 1 /\ Parity(native'.pid) # 1
        BY <3>1, <3>3 DEF Ability
      <4>2. ~native'.second
        BY <2>1, <4>1, Zenon DEF SecondFrom
      <4> QED
        BY <2>1, <4>1, <4>2 DEF Ability
    <3> QED
      BY <3>2, <3>3
  <2> QED
    BY <2>1, <2>2, <2>3, <2>4, Zenon
<1> QED
  BY <1>1, Gen3InvHolds, PTL DEF NatureKeepsTheRest

(* Ability, gender, shininess and letter are what was asked for. *)
LEMMA TraitsTheorem == Gen3Spec => TraitsAreSet
<1>1. Gen3Inv => \A ability \in Abilities : SetAbility(ability) =>
                   Ability' = ability /\ Nature' = Nature /\ Gender' = Gender /\ Shiny' = Shiny
  <2> SUFFICES ASSUME Gen3Inv, NEW ability \in Abilities, SetAbility(ability)
               PROVE  Ability' = ability /\ Nature' = Nature /\ Gender' = Gender /\ Shiny' = Shiny
    OBVIOUS
  <2>1. /\ Drawn(native'.pid, ability, Nature) /\ native'.second = (ability = 2)
        /\ ability = 2 => species.two
        /\ native'.ot = native.ot /\ species' = species
    BY AbilitySetter
  <2>2. Nature' = Nature /\ Gender' = Gender
    BY <2>1 DEF Drawn, Nature, Gender
  <2>3. Shiny' = Shiny
    BY <2>1, Zenon DEF Drawn, Shiny, ShinyWith
  <2>4. Ability' = ability
    <3>1. species.two \in BOOLEAN
      BY KindsAssumption DEF Gen3Inv
    <3>2. native'.second <=> ability = 2
      BY <2>1, Zenon
    <3> QED
      BY <2>1, <3>1, <3>2 DEF Abilities, Ability
  <2> QED
    BY <2>2, <2>3, <2>4, Zenon
<1>2. Gen3Inv => \A gender \in Genders : SetGender(gender) => Gender' = gender /\ Ability' = Ability
  <2> SUFFICES ASSUME Gen3Inv, NEW gender \in Genders, SetGender(gender)
               PROVE  Gender' = gender /\ Ability' = Ability
    OBVIOUS
  <2>1. /\ GenderAllowed(species.ratio, gender)
        /\ native'.pid \in WithGender(species.ratio, native.pid, gender)
        /\ native'.second = native.second /\ species' = species
    BY GenderSetter
  <2>2. Gender' = gender
    BY <2>1, GenderIsRead DEF Gender
  <2> QED
    BY <2>1, <2>2 DEF Ability
<1>3. Gen3Inv => (SetShininess(TRUE) => Shiny')
  BY ShininessSetter, ShinyIsRead DEF Shiny
<1>4. Gen3Inv => \A form \in Letters : SetForm(form) /\ species.unown => LetterOf(native'.pid) = form
  BY FormSetter, LetterIsRead, InputsAssumption
<1> QED
  BY <1>1, <1>2, <1>3, <1>4, Gen3InvHolds, PTL DEF TraitsAreSet

(* The form stays the letter of the personality, except where              *)
(* set_ability() draws a new one.                                          *)
LEMMA SetFormKeeps ==
  ASSUME Gen3Inv, NEW form,
         \/ OnGBA /\ form \in Letters /\ GBA!SetForm(form)
         \/ OnGCN /\ GCN!SetForm(form)
  PROVE  species' = species /\ (species.unown => cache'.form = LetterOf(native'.pid))
<1>1. species' = species /\ SetForm(form) /\ (species.unown => form \in 0..27)
  BY InputsAssumption DEF SetForm, GBA!SetForm, GCN!SetForm
<1>2. species.unown => native'.pid = WithLetter(native.pid, form) /\ cache'.form = form
  BY <1>1, FormSetter
<1> QED
  BY <1>1, <1>2, LetterIsRead

LEMMA DrawingKeeps ==
  ASSUME Gen3Inv, NEW p,
         \/ GBA!TakePersonality(p) /\ UNCHANGED <<species, game>>
         \/ GCN!TakePersonality(p) /\ UNCHANGED <<species, game>>
         \/ \E value : GBA!SetShininess(value) \/ GCN!SetShininess(value)
  PROVE  species' = species /\ (species.unown => cache'.form = LetterOf(native'.pid))
<1>1. PICK q : native'.pid = q /\ (cache' = GBA!FormFrom(q) \/ cache' = GCN!FormFrom(q))
  BY DEF GBA!TakePersonality, GCN!TakePersonality, GBA!SetShininess, GCN!SetShininess, Gen3Inv, Whole, Fields
<1>2. species' = species
  BY DEF GBA!SetShininess, GCN!SetShininess
<1>3. species.unown => cache'.form = LetterOf(q)
  BY <1>1, SameBits DEF GBA!FormFrom, GCN!FormFrom, Gen3Inv, Whole, CacheFields
<1> QED
  BY <1>1, <1>2, <1>3

LEMMA LetterStays ==
  ASSUME Gen3Inv, [Gen3Next]_gen3Vars, FormIsTheLetter
  PROVE  FormIsTheLetter' \/ \E ability \in Abilities : SetAbility(ability)
<1>0. /\ species \in Kinds /\ (species.unown => species.ratio = "none")
      /\ (species.unown => native.letter \in 0..27)
  BY KindsAssumption DEF Gen3Inv
<1>1. FormKept => FormIsTheLetter'
  BY DEF FormKept, FormIsTheLetter
<1>2. species' = species /\ (species.unown => cache'.form = LetterOf(native'.pid)) => FormIsTheLetter'
  BY DEF FormIsTheLetter
<1>3. ASSUME NEW gender, GBA!SetGender(gender) \/ GCN!SetGender(gender) PROVE FormIsTheLetter'
  <2>2. species' = species /\ ~species.unown
    BY <1>0, <1>3 DEF GBA!SetGender, GCN!SetGender, GBA!GenderAllowed, GCN!GenderAllowed
  <2> QED
    BY <1>2, <2>2
<1>4. CASE OnGBA /\ GBA!TraitsNext
  <2>1. ASSUME NEW letter \in Letters, GBA!SetForm(letter) PROVE FormIsTheLetter'
    BY <1>2, <1>4, <2>1, SetFormKeeps
  <2>2. ASSUME NEW value \in BOOLEAN, GBA!SetShininess(value) PROVE FormIsTheLetter'
    BY <1>2, <2>2, DrawingKeeps
  <2>3. ASSUME NEW p \in Draws, GBA!TakePersonality(p), UNCHANGED <<species, game>> PROVE FormIsTheLetter'
    BY <1>2, <2>3, DrawingKeeps
  <2>4. ASSUME NEW ability \in Abilities, GBA!SetAbility(ability) PROVE SetAbility(ability)
    BY <1>4, <2>4 DEF SetAbility
  <2>5. ASSUME NEW id \in TrainerIDs, GBA!SetTrainerID(id) PROVE FormIsTheLetter'
    BY <1>1, <1>4, <2>5, GBAPlainStep
  <2> QED
    BY <1>3, <1>4, <2>1, <2>2, <2>3, <2>4, <2>5
       DEF GBA!TraitsNext, GBA!SetPersonality, GBA!SetNature, GBA!Abilities, Abilities
<1>5. CASE OnGCN /\ GCN!TraitsNext
  <2>1. ASSUME NEW form, GCN!SetForm(form) PROVE FormIsTheLetter'
    BY <1>2, <1>5, <2>1, SetFormKeeps
  <2>2. ASSUME NEW value \in BOOLEAN, GCN!SetShininess(value) PROVE FormIsTheLetter'
    BY <1>2, <2>2, DrawingKeeps
  <2>3. ASSUME NEW p \in Draws, GCN!TakePersonality(p), UNCHANGED <<species, game>> PROVE FormIsTheLetter'
    BY <1>2, <2>3, DrawingKeeps
  <2>4. ASSUME NEW ability \in Abilities, GCN!SetAbility(ability) PROVE SetAbility(ability)
    BY <1>5, <2>4 DEF SetAbility
  <2>5. ASSUME NEW id \in TrainerIDs, GCN!SetTrainerID(id) PROVE FormIsTheLetter'
    BY <1>1, <1>5, <2>5, GCNPlainStep
  <2> QED
    BY <1>3, <1>5, <2>1, <2>2, <2>3, <2>4, <2>5
       DEF GCN!TraitsNext, GCN!SetPersonality, GCN!SetNature, GCN!Abilities, Abilities
<1>6. ASSUME NEW target \in Games, ToGame(target) PROVE FormIsTheLetter'
  <2>1. PICK letter : TradeResult(target, letter)
    BY <1>6, ToGameResult
  <2>2. cache'.form = letter
    BY <2>1 DEF TradeResult, CacheOf
  <2>3. CASE target \in GBAGames
    BY <1>0, <1>2, <1>6, <2>1, <2>2, <2>3, ToGameResult, LetterIsRead DEF TradeResult
  <2>4. CASE target \notin GBAGames
    BY <1>2, <1>6, <2>1, <2>2, <2>4, ToGameResult DEF TradeResult
  <2> QED
    BY <2>3, <2>4
<1>7. CASE TradeNext
  <2>1. CASE OnGBA /\ GBA!ReloadNext
    <3>1. /\ native'.pid = IF species.unown THEN WithLetter(native.pid, native.letter) ELSE native.pid
          /\ cache'.form = native.letter /\ species' = species
      BY <2>1, ReloadResult
    <3> QED
      BY <1>0, <1>2, <3>1, LetterIsRead
  <2>2. CASE OnGCN /\ GCN!Copy
    BY <1>2, <2>2, CopyResult
  <2> QED
    BY <1>6, <1>7, <2>1, <2>2 DEF TradeNext
<1>8. CASE GrowthNext \/ MovesNext \/ HonoursNext \/ HistoryNext
  BY <1>1, <1>8, GBAGrowthStep, GCNGrowthStep, GBAOtherSteps, GCNOtherSteps
     DEF GrowthNext, MovesNext, HonoursNext, HistoryNext
<1>9. CASE UNCHANGED gen3Vars
  BY <1>1, <1>9 DEF gen3Vars, FormKept
<1> QED
  BY <1>4, <1>5, <1>7, <1>8, <1>9 DEF Gen3Next, TraitsNext

LEMMA LetterTheorem == Gen3Spec => OnlyAbilityLosesTheLetter
<1>1. Gen3Inv /\ [Gen3Next]_gen3Vars =>
        (FormIsTheLetter => FormIsTheLetter' \/ \E ability \in Abilities : SetAbility(ability))
  BY LetterStays
<1> QED
  BY <1>1, Gen3InvHolds, PTL DEF Gen3Spec, OnlyAbilityLosesTheLetter

(* To give a ribbon of a contest on the GBA takes none away, and to take   *)
(* one away gives none.                                                    *)
LEMMA RibbonTheorem == Gen3Spec => RibbonsMoveOneWay
<1>1. Gen3Inv => \A c \in Contests, l \in ContestLevels :
        OnGBA => /\ GBA!SetContestRibbon(c, l, TRUE) => cache.ribbons \cup {<<c, l>>} \subseteq cache'.ribbons
                 /\ GBA!SetContestRibbon(c, l, FALSE) => cache'.ribbons \subseteq cache.ribbons \ {<<c, l>>}
  <2> SUFFICES ASSUME Gen3Inv, NEW c \in Contests, NEW l \in ContestLevels, OnGBA
               PROVE  /\ GBA!SetContestRibbon(c, l, TRUE) => cache.ribbons \cup {<<c, l>>} \subseteq cache'.ribbons
                      /\ GBA!SetContestRibbon(c, l, FALSE) => cache'.ribbons \subseteq cache.ribbons \ {<<c, l>>}
    OBVIOUS
  <2>1. /\ native.contest \in [Contests -> 0..4] /\ native.specials \subseteq Specials
        /\ cache.ribbons = RibbonsOf(native) /\ l \in 1..4 /\ <<c, l>> \in Contests \X ContestLevels
    BY DEF Gen3Inv, Good, GoodHonours, Seen, SeenHonours, ContestLevels
  <2>2. ASSUME NEW value \in BOOLEAN, GBA!SetContestRibbon(c, l, value)
        PROVE  /\ cache'.ribbons = RibbonsOf(native') /\ native'.specials = native.specials
               /\ native'.contest = [native.contest EXCEPT ![c] = GBA!ContestAfter(native.contest[c], l, value)]
    BY <2>2, SameOperators DEF GBA!SetContestRibbon, Gen3Inv, Whole, Fields, CacheFields
  <2>3. ASSUME GBA!SetContestRibbon(c, l, TRUE) PROVE cache.ribbons \cup {<<c, l>>} \subseteq cache'.ribbons
    <3>1. /\ cache'.ribbons = RibbonsOf(native') /\ native'.specials = native.specials
          /\ native'.contest = [native.contest EXCEPT ![c] = GBA!ContestAfter(native.contest[c], l, TRUE)]
      BY <2>2, <2>3
    <3>2. \A k \in Contests : native.contest[k] <= native'.contest[k]
      BY <2>1, <3>1 DEF GBA!ContestAfter, GBA!Larger
    <3>3. l <= native'.contest[c]
      BY <2>1, <3>1 DEF GBA!ContestAfter, GBA!Larger
    <3>4. native'.contest \in [Contests -> 0..4]
      <4>1. GBA!ContestAfter(native.contest[c], l, TRUE) \in 0..4
        <5>1. native.contest[c] \in 0..4 /\ l \in 1..4 /\ TRUE \in BOOLEAN
          BY <2>1
        <5> QED
          BY <5>1, AfterIsALevel
      <4> QED
        BY <2>1, <3>1, <4>1
    <3>5. ASSUME NEW r \in Contests \X ContestLevels, r[2] <= native.contest[r[1]] PROVE r[2] <= native'.contest[r[1]]
      BY <2>1, <3>2, <3>4, <3>5 DEF ContestLevels
    <3>6. <<c, l>> \in {r \in Contests \X ContestLevels : r[2] <= native'.contest[r[1]]}
      BY <2>1, <3>3
    <3>7. {r \in Contests \X ContestLevels : r[2] <= native.contest[r[1]]}
            \subseteq {r \in Contests \X ContestLevels : r[2] <= native'.contest[r[1]]}
      BY <3>5
    <3> QED
      BY <2>1, <3>1, <3>6, <3>7 DEF RibbonsOf
  <2>4. ASSUME GBA!SetContestRibbon(c, l, FALSE) PROVE cache'.ribbons \subseteq cache.ribbons \ {<<c, l>>}
    <3>1. /\ cache'.ribbons = RibbonsOf(native') /\ native'.specials = native.specials
          /\ native'.contest = [native.contest EXCEPT ![c] = GBA!ContestAfter(native.contest[c], l, FALSE)]
      BY <2>2, <2>4
    <3>2. \A k \in Contests : native'.contest[k] <= native.contest[k]
      BY <2>1, <3>1 DEF GBA!ContestAfter, GBA!Smaller
    <3>3. native'.contest[c] < l
      BY <2>1, <3>1 DEF GBA!ContestAfter, GBA!Smaller
    <3>4. native'.contest \in [Contests -> 0..4]
      <4>1. GBA!ContestAfter(native.contest[c], l, FALSE) \in 0..4
        <5>1. native.contest[c] \in 0..4 /\ l \in 1..4 /\ FALSE \in BOOLEAN
          BY <2>1
        <5> QED
          BY <5>1, AfterIsALevel
      <4> QED
        BY <2>1, <3>1, <4>1
    <3>5. ASSUME NEW r \in Contests \X ContestLevels, r[2] <= native'.contest[r[1]] PROVE r[2] <= native.contest[r[1]]
      BY <2>1, <3>2, <3>4, <3>5 DEF ContestLevels
    <3>6. <<c, l>> \notin RibbonsOf(native')
      <4>1. <<c, l>> \notin {r \in Contests \X ContestLevels : r[2] <= native'.contest[r[1]]}
        BY <2>1, <3>3, <3>4
      <4>2. <<c, l>> \notin native'.specials
        BY <2>1, <3>1, KindsAssumption
      <4> QED
        BY <4>1, <4>2 DEF RibbonsOf
    <3> QED
      BY <2>1, <3>1, <3>5, <3>6 DEF RibbonsOf
  <2> QED
    BY <2>3, <2>4
<1> QED
  BY <1>1, Gen3InvHolds, PTL DEF RibbonsMoveOneWay

(* A setter sets what it is named after and leaves alone what shares its   *)
(* bits.                                                                   *)
THEOREM SettersTheorem == Gen3Spec => SettersKeepTheRest
BY NatureTheorem, TraitsTheorem, LetterTheorem, RibbonTheorem, PTL DEF SettersKeepTheRest
=============================================================================
