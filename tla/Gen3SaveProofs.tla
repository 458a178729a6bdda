--------------------------- MODULE Gen3SaveProofs ---------------------------
(***************************************************************************)
(* The parties and the boxes of a save of Generation III, for any sizes:   *)
(* a party has no gaps whatever is set, saved and loaded, and a box knows  *)
(* how many Pokemon its callers see.  The invariant has to speak of the    *)
(* files too, because any of them can be loaded: a Game Boy Advance party  *)
(* is as long as its count says, a GameCube one as long as it is full, and *)
(* both are without gaps when they are loaded.                             *)
(***************************************************************************)
EXTENDS Gen3Save, FiniteSetTheorems, TLAPS

ImageShape(image) ==
  image = [ pokemon |-> image.pokemon, count |-> image.count, names |-> image.names,
            wallpapers |-> image.wallpapers, seenA |-> image.seenA, seenB |-> image.seenB,
            seenC |-> image.seenC, owned |-> image.owned ]

NoGaps(party, n) == \A i \in Place(Party) : i < n <=> ~Empty(party[i])

(* What the constructors make of an image is a party without gaps. *)
LoadsWell(image) ==
  /\ ImageShape(image)
  /\ image.pokemon \in Contents(Mons)
  /\ LoadedCount(image) \in 0..PartySize
  /\ NoGaps(LoadedParty(image), LoadedCount(image))

HeldOK ==
  /\ held = [at |-> held.at, mon |-> held.mon]
  /\ held.mon \in Mons
  /\ \/ held.at = Nowhere
     \/ \E where \in List : \E index \in Place(where) : held.at = At(where, index)

(* The native structures lag behind the objects, but never in the species. *)
SameSpecies ==
  \A where \in List : \A i \in Place(where) : natives[where][i].species = lists[where][i].species

Saves == {files[file] : file \in Files} \ {NoFile}

IInv ==
  /\ lists \in Contents(Mons) /\ natives \in Contents(Mons)
  /\ count \in 0..PartySize
  /\ HeldOK
  /\ ImageShape(buffer)
  /\ PartyIsContiguous
  /\ SameSpecies
  /\ files = [file \in Files |-> files[file]]
  /\ \A image \in Saves : LoadsWell(image)

-----------------------------------------------------------------------------
LEMMA NoMonIsEmpty == NoMon \in Mons /\ Empty(NoMon)
BY MonsAssumption DEF NoMon, Mons, Empty

LEMMA PartyIsAList == Party \in List /\ Place(Party) = 0..PartySize-1
BY DEF Party, List, Place

LEMMA ContentsHave ==
  ASSUME NEW c \in Contents(Mons), NEW where \in List, NEW i \in Place(where)
  PROVE  c[where] \in [Place(where) -> Mons] /\ c[where][i] \in Mons
BY DEF Contents

LEMMA ContentsMade ==
  ASSUME NEW c, DOMAIN c = List, c = [w \in List |-> c[w]],
         \A where \in List : c[where] \in [Place(where) -> Mons]
  PROVE  c \in Contents(Mons)
<1>1. \A where \in List : c[where] \in UNION {[Place(w) -> Mons] : w \in List}
  OBVIOUS
<1>2. c \in [List -> UNION {[Place(w) -> Mons] : w \in List}]
  BY <1>1
<1> QED BY <1>2 DEF Contents

(* One Pokemon is put into a place. *)
PutIn(c, where, index, mon) == [c EXCEPT ![where][index] = mon]

LEMMA ContentsPut ==
  ASSUME NEW c \in Contents(Mons), NEW where \in List, NEW index \in Place(where), NEW mon \in Mons
  PROVE  /\ PutIn(c, where, index, mon) \in Contents(Mons)
         /\ \A w \in List : \A i \in Place(w) :
              PutIn(c, where, index, mon)[w][i] = IF w = where /\ i = index THEN mon ELSE c[w][i]
<1> DEFINE d == PutIn(c, where, index, mon)
<1>1. c \in [List -> UNION {[Place(w) -> Mons] : w \in List}]
  BY DEF Contents
<1>2. c[where] \in [Place(where) -> Mons]
  BY ContentsHave
<1>3. d = [w \in List |-> IF w = where THEN [c[where] EXCEPT ![index] = mon] ELSE c[w]]
  BY <1>1 DEF PutIn
<1> HIDE DEF d
<1>4. [c[where] EXCEPT ![index] = mon] \in [Place(where) -> Mons]
  BY <1>2
<1>5. \A w \in List : d[w] \in [Place(w) -> Mons]
  BY <1>3, <1>4, ContentsHave DEF Contents
<1>6. d \in Contents(Mons)
  BY <1>3, <1>5, ContentsMade
<1>7. ASSUME NEW w \in List, NEW i \in Place(w)
      PROVE  d[w][i] = IF w = where /\ i = index THEN mon ELSE c[w][i]
  BY <1>2, <1>3
<1> QED BY <1>6, <1>7 DEF d

(* A party without gaps has as many Pokemon as it has places before its end. *)
LEMMA NumFilledIsLength ==
  ASSUME NEW party \in [Place(Party) -> Mons], NEW n \in 0..PartySize, NoGaps(party, n)
  PROVE  NumFilled(party) = n
<1>1. {i \in DOMAIN party : ~Empty(party[i])} = 0..n-1
  <2>1. \A i : i \in 0..n-1 => i \in Place(Party)
    BY SizesAssumption, PartyIsAList
  <2>2. DOMAIN party = Place(Party)
    OBVIOUS
  <2>3. \A i \in Place(Party) : i \in 0..n-1 <=> i < n
    BY SizesAssumption, PartyIsAList
  <2> QED BY <2>1, <2>2, <2>3 DEF NoGaps
<1>2. Cardinality(0..n-1) = n
  BY FS_Interval, SizesAssumption
<1> QED BY <1>1, <1>2 DEF NumFilled

LEMMA LoadedListsOK ==
  ASSUME NEW image, LoadsWell(image)
  PROVE  /\ LoadedLists(image) \in Contents(Mons)
         /\ NoGaps(LoadedLists(image)[Party], LoadedCount(image))
<1>1. LoadedParty(image) \in [Place(Party) -> Mons]
  BY NoMonIsEmpty, PartyIsAList, ContentsHave DEF LoadsWell, LoadedParty
<1>2. image.pokemon \in [List -> UNION {[Place(w) -> Mons] : w \in List}]
  BY DEF LoadsWell, Contents
<1>3. LoadedLists(image) = [w \in List |-> IF w = Party THEN LoadedParty(image) ELSE image.pokemon[w]]
  BY <1>2, PartyIsAList DEF LoadedLists
<1>4. \A w \in List : LoadedLists(image)[w] \in [Place(w) -> Mons]
  BY <1>1, <1>3, ContentsHave DEF LoadsWell, Contents
<1>5. LoadedLists(image) \in Contents(Mons)
  BY <1>3, <1>4, ContentsMade
<1>6. LoadedLists(image)[Party] = LoadedParty(image)
  BY <1>3, PartyIsAList
<1> QED BY <1>5, <1>6 DEF LoadsWell

(* What save_as() collects can be loaded again. *)
LEMMA CollectedLoadsWell ==
  ASSUME IInv
  PROVE  LoadsWell(Collected)
<1>1. /\ ImageShape(Collected)
      /\ Collected.pokemon = lists
      /\ Collected.count = count
  BY DEF IInv, ImageShape, Collected, WithPokedex
<1>2. lists[Party] \in [Place(Party) -> Mons] /\ NoGaps(lists[Party], count) /\ count \in 0..PartySize
  BY PartyIsAList, ContentsHave DEF IInv, NoGaps, PartyIsContiguous, Contents
<1>3. LoadedCount(Collected) = count
  BY <1>1, <1>2, NumFilledIsLength DEF LoadedCount
<1>4. NoGaps(LoadedParty(Collected), count)
  BY <1>1, <1>2, NoMonIsEmpty, PartyIsAList, SizesAssumption DEF LoadedParty, NoGaps
<1>5. lists \in Contents(Mons)
  BY DEF IInv
<1> HIDE DEF Collected
<1> QED BY <1>1, <1>2, <1>3, <1>4, <1>5 DEF LoadsWell

-----------------------------------------------------------------------------
LEMMA GamesSaveLoadsWell ==
  ASSUME NEW image \in SavedByGame
  PROVE  LoadsWell(image)
<1>1. /\ ImageShape(image)
      /\ image.pokemon \in Contents(GameMade \cup {NoMon})
      /\ image.count \in 0..PartySize
  BY DEF SavedByGame, ImageShape
<1>2. image.pokemon \in Contents(Mons)
  <2>1. GameMade \cup {NoMon} \subseteq Mons
    BY MonsAssumption, NoMonIsEmpty
  <2>2. \A where \in List : image.pokemon[where] \in [Place(where) -> Mons]
    BY <1>1, <2>1 DEF Contents
  <2>3. image.pokemon = [w \in List |-> image.pokemon[w]] /\ DOMAIN image.pokemon = List
    BY <1>1 DEF Contents
  <2> QED BY <2>2, <2>3, ContentsMade
<1>3. image.pokemon[Party] \in [Place(Party) -> Mons]
  BY <1>2, PartyIsAList DEF Contents
<1>4. PICK k \in image.count..PartySize :
        /\ NoGaps(image.pokemon[Party], k)
        /\ ~HasPokedex => k = image.count
  BY DEF SavedByGame, NoGaps
<1>5. CASE HasPokedex
  <2>1. LoadedCount(image) = image.count
    BY <1>5 DEF LoadedCount
  <2>2. NoGaps(LoadedParty(image), image.count)
    BY <1>1, <1>4, <1>5, NoMonIsEmpty, PartyIsAList, SizesAssumption DEF LoadedParty, NoGaps
  <2> QED BY <1>1, <1>2, <2>1, <2>2 DEF LoadsWell
<1>6. CASE ~HasPokedex
  <2>1. LoadedCount(image) = image.count
    BY <1>1, <1>3, <1>4, <1>6, NumFilledIsLength DEF LoadedCount
  <2>2. NoGaps(LoadedParty(image), image.count)
    BY <1>1, <1>4, <1>6, PartyIsAList DEF LoadedParty, NoGaps
  <2> QED BY <1>1, <1>2, <2>1, <2>2 DEF LoadsWell
<1> QED BY <1>5, <1>6

LEMMA InitIInv == Init => IInv
<1> SUFFICES ASSUME Init PROVE IInv
  OBVIOUS
<1>1. LoadsWell(buffer)
  BY GamesSaveLoadsWell DEF Init
<1>2. lists = LoadedLists(buffer) /\ natives = lists /\ count = LoadedCount(buffer)
  BY DEF Init
<1>3. lists \in Contents(Mons) /\ natives \in Contents(Mons) /\ PartyIsContiguous
  BY <1>1, <1>2, LoadedListsOK DEF NoGaps, PartyIsContiguous
<1>4. count \in 0..PartySize /\ ImageShape(buffer)
  BY <1>1, <1>2 DEF LoadsWell
<1>5. HeldOK
  BY NoMonIsEmpty DEF Init, HeldOK
<1>6. SameSpecies
  BY <1>2 DEF SameSpecies
<1>7. /\ files = [file \in Files |-> files[file]]
      /\ \A image \in Saves : LoadsWell(image)
  <2>1. files = [f \in Files |-> IF f = FirstFile THEN buffer ELSE NoFile]
    BY DEF Init
  <2>2. Saves \subseteq {buffer}
    BY <2>1 DEF Saves
  <2> QED BY <1>1, <2>1, <2>2
<1> QED BY <1>3, <1>4, <1>5, <1>6, <1>7 DEF IInv

-----------------------------------------------------------------------------
(* The game of a save stays, so an image that loads well goes on doing so. *)
LEMMA GameStays ==
  ASSUME UNCHANGED game, NEW image, LoadsWell(image)
  PROVE  LoadsWell(image)'
BY DEF LoadsWell, LoadedCount, LoadedParty, HasPokedex, ImageShape, NoGaps

LEMMA FilesStay ==
  ASSUME IInv, UNCHANGED <<game, files>>
  PROVE  (/\ files = [file \in Files |-> files[file]]
          /\ \A image \in Saves : LoadsWell(image))'
<1>1. Saves' = Saves
  BY DEF Saves
<1>2. \A image \in Saves' : LoadsWell(image)'
  BY <1>1, GameStays DEF IInv
<1>3. files' = [file \in Files |-> files'[file]]
  BY DEF IInv
<1> QED BY <1>2, <1>3

(* A file that was written, or damaged. *)
LEMMA FilesWritten ==
  ASSUME IInv, UNCHANGED game, NEW written \in Files, NEW left,
         left \in Saves \cup {NoFile} \/ LoadsWell(left),
         files' = [files EXCEPT ![written] = left]
  PROVE  (/\ files = [file \in Files |-> files[file]]
          /\ \A image \in Saves : LoadsWell(image))'
<1>1. files = [file \in Files |-> files[file]]
  BY DEF IInv
<1>2. files' = [file \in Files |-> IF file = written THEN left ELSE files[file]]
  BY <1>1
<1>3. \A image \in Saves' : image # NoFile /\ (image \in Saves \/ image = left)
  BY <1>2 DEF Saves
<1>4. \A image \in Saves' : LoadsWell(image)
  BY <1>3 DEF IInv
<1>5. \A image \in Saves' : LoadsWell(image)'
  BY <1>4, GameStays
<1> QED BY <1>2, <1>5

LEMMA HeldIsAMon ==
  ASSUME IInv
  PROVE  Held \in Mons
BY ContentsHave DEF IInv, HeldOK, Held, Nowhere, At

-----------------------------------------------------------------------------
(* What every action leaves alone but save_as() and from_file(). *)
LEMMA FilesAndBufferStay ==
  ASSUME IInv, UNCHANGED <<game, files, buffer>>
  PROVE  (/\ ImageShape(buffer)
          /\ files = [file \in Files |-> files[file]]
          /\ \A image \in Saves : LoadsWell(image))'
<1>1. ImageShape(buffer)'
  BY DEF IInv, ImageShape
<1> QED BY <1>1, FilesStay

LEMMA ListsStay ==
  ASSUME IInv, UNCHANGED <<lists, count>>
  PROVE  lists' \in Contents(Mons) /\ count' \in 0..PartySize /\ PartyIsContiguous'
BY DEF IInv, PartyIsContiguous

LEMMA HoldInductive ==
  ASSUME IInv, NEW where \in List, NEW index \in Place(where), Hold(where, index)
  PROVE  IInv'
<1>1. HeldOK'
  BY NoMonIsEmpty DEF Hold, HeldOK
<1>2. UNCHANGED <<game, lists, natives, count, files, buffer>>
  BY DEF Hold, Call
<1>3. natives' \in Contents(Mons) /\ SameSpecies'
  BY <1>2 DEF IInv, SameSpecies
<1> QED BY <1>1, <1>2, <1>3, ListsStay, FilesAndBufferStay DEF IInv

LEMMA ChangeHeldInductive ==
  ASSUME IInv, NEW mark \in Marks, ChangeHeld(mark)
  PROVE  IInv'
<1>1. UNCHANGED <<game, natives, count, files, buffer>>
  BY DEF ChangeHeld, Call
<1>2. CASE held.at.in
  <2>0. PICK where \in List : \E index \in Place(where) : held.at = At(where, index)
    BY <1>2 DEF IInv, HeldOK, Nowhere
  <2>1. PICK index \in Place(where) : held.at = At(where, index)
    BY <2>0
  <2>2. held.at.where = where /\ held.at.index = index
    BY <2>1 DEF At
  <2> DEFINE old == lists[where][index]
             new == [species |-> old.species, egg |-> old.egg, mark |-> mark]
  <2>3. old \in Mons /\ new \in Mons /\ new.species = old.species
    BY ContentsHave DEF IInv, Mons
  <2>4. [old EXCEPT !.mark = mark] = new
    BY <2>3 DEF Mons
  <2>5. lists' = PutIn(lists, where, index, new)
    <3>1. lists' = [lists EXCEPT ![where][index].mark = mark]
      BY <1>2, <2>2 DEF ChangeHeld
    <3> QED BY <2>4, <3>1 DEF PutIn
  <2> HIDE DEF new
  <2>6. /\ lists' \in Contents(Mons)
        /\ \A w \in List : \A i \in Place(w) :
             lists'[w][i] = IF w = where /\ i = index THEN new ELSE lists[w][i]
    BY <2>3, <2>5, ContentsPut DEF IInv
  <2>7. \A w \in List : \A i \in Place(w) : lists'[w][i].species = lists[w][i].species
    BY <2>3, <2>6
  <2>8. PartyIsContiguous' /\ SameSpecies'
    BY <1>1, <2>7, PartyIsAList DEF IInv, PartyIsContiguous, SameSpecies, Empty
  <2>9. HeldOK'
    BY <1>2 DEF ChangeHeld, IInv, HeldOK
  <2> QED BY <1>1, <2>6, <2>8, <2>9, FilesAndBufferStay DEF IInv
<1>3. CASE ~held.at.in
  <2>1. UNCHANGED lists /\ held' = [held EXCEPT !.mon.mark = mark]
    BY <1>3 DEF ChangeHeld
  <2> DEFINE new == [species |-> held.mon.species, egg |-> held.mon.egg, mark |-> mark]
  <2>2. held.mon \in Mons /\ held = [at |-> held.at, mon |-> held.mon]
    BY DEF IInv, HeldOK
  <2>3. new \in Mons /\ [held.mon EXCEPT !.mark = mark] = new
    BY <2>2 DEF Mons
  <2>4. held' = [at |-> held.at, mon |-> new]
    BY <2>1, <2>2, <2>3
  <2>5. HeldOK'
    BY <2>3, <2>4 DEF IInv, HeldOK
  <2>6. natives' \in Contents(Mons) /\ SameSpecies'
    BY <1>1, <2>1 DEF IInv, SameSpecies
  <2> QED BY <1>1, <2>1, <2>5, <2>6, ListsStay, FilesAndBufferStay DEF IInv
<1> QED BY <1>2, <1>3

LEMMA SetPokemonInductive ==
  ASSUME IInv, NEW where \in List, NEW index, NEW mon, SetPokemon(where, index, mon)
  PROVE  IInv'
<1>1. mon \in Mons /\ index \in Place(where) /\ Fits(where, index, mon)
  BY HeldIsAMon, MonsAssumption DEF SetPokemon, Fits
<1>2. UNCHANGED <<game, files, buffer>>
  BY DEF SetPokemon, Call
<1>0. /\ lists' = PutIn(lists, where, index, mon)
      /\ natives' = PutIn(natives, where, index, mon)
  BY DEF SetPokemon, Put, PutIn
<1>3. /\ lists' \in Contents(Mons)
      /\ \A w \in List : \A i \in Place(w) :
           lists'[w][i] = IF w = where /\ i = index THEN mon ELSE lists[w][i]
  BY <1>0, <1>1, ContentsPut DEF IInv
<1>4. /\ natives' \in Contents(Mons)
      /\ \A w \in List : \A i \in Place(w) :
           natives'[w][i] = IF w = where /\ i = index THEN mon ELSE natives[w][i]
  BY <1>0, <1>1, ContentsPut DEF IInv
<1>5. SameSpecies'
  BY <1>3, <1>4 DEF SameSpecies, IInv
<1>6. count' \in 0..PartySize /\ PartyIsContiguous'
  <2>1. count \in 0..PartySize /\ PartySize \in Nat /\ Place(Party) = 0..PartySize-1
    BY SizesAssumption, PartyIsAList DEF IInv
  <2>2. \A i \in Place(Party) : i < count <=> ~Empty(lists[Party][i])
    BY DEF IInv, PartyIsContiguous
  <2>3. count' = CountAfter(where, index, mon)
    BY DEF SetPokemon
  <2>4. CASE where # Party
    <3>1. count' = count
      BY <2>3, <2>4 DEF CountAfter
    <3>2. \A i \in Place(Party) : lists'[Party][i] = lists[Party][i]
      BY <1>3, <2>4, PartyIsAList
    <3> QED BY <2>1, <2>2, <3>1, <3>2 DEF PartyIsContiguous
  <2>5. CASE where = Party
    <3>1. \A i \in Place(Party) : lists'[Party][i] = IF i = index THEN mon ELSE lists[Party][i]
      BY <1>3, <2>5, PartyIsAList
    <3>2. index \in 0..PartySize-1 /\ index <= count /\ ~(index < count - 1 /\ Empty(mon))
      BY <1>1, <2>1, <2>5 DEF Fits
    <3>3. count' = IF index = count /\ ~Empty(mon) THEN count + 1
                   ELSE IF index = count - 1 /\ Empty(mon) THEN count - 1 ELSE count
      BY <2>3, <2>5 DEF CountAfter
    <3>4. count' \in 0..PartySize
      BY <2>1, <3>2, <3>3
    <3>5. \A i \in 0..PartySize-1 : i < count' <=> ~Empty(lists'[Party][i])
      BY <2>1, <2>2, <3>1, <3>2, <3>3
    <3> QED BY <2>1, <3>4, <3>5 DEF PartyIsContiguous
  <2> QED BY <2>4, <2>5
<1>7. HeldOK'
  <2>1. held' = Replaced(where, index)
    BY DEF SetPokemon
  <2>2. HeldOK
    BY DEF IInv
  <2> QED BY <2>1, <2>2, HeldIsAMon DEF Replaced, HeldOK
<1> QED BY <1>2, <1>3, <1>4, <1>5, <1>6, <1>7, FilesAndBufferStay DEF IInv

LEMMA BoxSettersInductive ==
  ASSUME IInv,
         \/ \E box \in Box, name \in Names : SetBoxName(box, name)
         \/ \E box \in Box : \E wallpaper \in Wallpapers : SetWallpaper(box, wallpaper)
  PROVE  IInv'
<1>1. UNCHANGED <<game, lists, natives, count, held, files, buffer>>
  BY DEF SetBoxName, SetWallpaper, Call
<1>2. natives' \in Contents(Mons) /\ SameSpecies' /\ HeldOK'
  BY <1>1 DEF IInv, SameSpecies, HeldOK
<1> QED BY <1>1, <1>2, ListsStay, FilesAndBufferStay DEF IInv

(* Whatever becomes of the file, the buffer holds what was collected. *)
LEMMA SavesInductive ==
  ASSUME IInv, NEW file \in Files, SaveAs(file) \/ SaveFails(file)
  PROVE  IInv'
<1>1. LoadsWell(Collected)
  BY CollectedLoadsWell
<1>2. /\ UNCHANGED <<game, lists, count, held>>
      /\ natives' = lists
      /\ buffer' = Collected
  BY DEF SaveAs, SaveFails, Collect, Call
<1>3. PICK left : /\ left \in Saves \cup {NoFile} \/ LoadsWell(left)
                  /\ files' = [files EXCEPT ![file] = left]
  <2>1. CASE SaveAs(file)
    BY <1>1, <2>1 DEF SaveAs
  <2>2. CASE SaveFails(file)
    BY <2>2 DEF SaveFails, Saves
  <2> QED BY <2>1, <2>2
<1>4. ImageShape(buffer)'
  <2>1. ImageShape(Collected)
    BY <1>1 DEF LoadsWell
  <2>2. ImageShape(buffer')
    BY <1>2, <2>1
  <2> QED BY <2>2 DEF ImageShape
<1>5. natives' \in Contents(Mons) /\ SameSpecies' /\ HeldOK'
  BY <1>2 DEF IInv, SameSpecies, HeldOK
<1> QED BY <1>2, <1>3, <1>4, <1>5, ListsStay, FilesWritten DEF IInv

LEMMA FromFileInductive ==
  ASSUME IInv, NEW file \in Files, FromFile(file)
  PROVE  IInv'
<1> DEFINE image == files[file]
<1>1. LoadsWell(image)
  BY DEF FromFile, IInv, Saves
<1>2. /\ UNCHANGED <<game, files>>
      /\ lists' = LoadedLists(image) /\ natives' = LoadedLists(image)
      /\ count' = LoadedCount(image)
      /\ buffer' = image
      /\ held' = [at |-> Nowhere, mon |-> Held]
  BY DEF FromFile, Load, Call
<1> HIDE DEF image
<1>3. lists' \in Contents(Mons) /\ natives' \in Contents(Mons) /\ PartyIsContiguous' /\ SameSpecies'
  BY <1>1, <1>2, LoadedListsOK DEF NoGaps, PartyIsContiguous, SameSpecies
<1>4. count' \in 0..PartySize
  BY <1>1, <1>2 DEF LoadsWell
<1>5. ImageShape(buffer)'
  BY <1>1, <1>2 DEF LoadsWell, ImageShape
<1>6. HeldOK'
  BY <1>2, HeldIsAMon DEF HeldOK
<1> QED BY <1>2, <1>3, <1>4, <1>5, <1>6, FilesStay DEF IInv

LEMMA NextIInv == IInv /\ [Next]_vars => IInv'
<1> SUFFICES ASSUME IInv, [Next]_vars PROVE IInv'
  OBVIOUS
<1>1. CASE \E where \in List : \E index \in Place(where) : Hold(where, index)
  BY <1>1, HoldInductive
<1>2. CASE \E mark \in Marks : ChangeHeld(mark)
  BY <1>2, ChangeHeldInductive
<1>3. CASE \E where \in List, index \in 0..PartySize+BoxSize, mon \in Offered \cup {Held} :
             SetPokemon(where, index, mon)
  BY <1>3, SetPokemonInductive
<1>4. CASE \/ \E box \in Box, name \in Names : SetBoxName(box, name)
           \/ \E box \in Box : \E wallpaper \in Wallpapers : SetWallpaper(box, wallpaper)
  BY <1>4, BoxSettersInductive
<1>5. CASE \E file \in Files : SaveAs(file) \/ SaveFails(file)
  BY <1>5, SavesInductive
<1>6. CASE \E file \in Files : FromFile(file)
  BY <1>6, FromFileInductive
<1>7. CASE UNCHANGED vars
  <2>1. UNCHANGED <<game, lists, natives, count, held, files, buffer>>
    BY <1>7 DEF vars
  <2>2. natives' \in Contents(Mons) /\ SameSpecies' /\ HeldOK'
    BY <2>1 DEF IInv, SameSpecies, HeldOK
  <2> QED BY <2>1, <2>2, ListsStay, FilesAndBufferStay DEF IInv
<1> QED BY <1>1, <1>2, <1>3, <1>4, <1>5, <1>6, <1>7 DEF Next

(* Whatever is set, taken, saved, not saved and loaded, a party has no     *)
(* gaps.                                                                   *)
LEMMA PartyLemma == Spec => []PartyIsContiguous
<1>1. IInv => PartyIsContiguous
  BY DEF IInv
<1> QED BY <1>1, InitIInv, NextIInv, PTL DEF Spec

(* A box counts the Pokemon that callers see in it.                        *)
LEMMA BoxLemma == Spec => []BoxCountIsExact
<1>1. IInv => BoxCountIsExact
  <2> SUFFICES ASSUME IInv, NEW box \in Box PROVE NumFilled(natives[box]) = NumFilled(lists[box])
    BY DEF BoxCountIsExact
  <2>1. box \in List
    BY DEF List
  <2>2. natives[box] \in [Place(box) -> Mons] /\ lists[box] \in [Place(box) -> Mons]
    BY <2>1 DEF IInv, Contents
  <2>3. \A i \in Place(box) : Empty(natives[box][i]) <=> Empty(lists[box][i])
    BY <2>1 DEF IInv, SameSpecies, Empty
  <2>4. {i \in DOMAIN natives[box] : ~Empty(natives[box][i])}
          = {i \in DOMAIN lists[box] : ~Empty(lists[box][i])}
    BY <2>2, <2>3
  <2> QED BY <2>4 DEF NumFilled
<1> QED BY <1>1, InitIInv, NextIInv, PTL DEF Spec

(* What a party and a box say about how many Pokemon they hold is true.    *)
THEOREM CountsTheorem == Spec => []CountsAreExact
BY PartyLemma, BoxLemma, PTL DEF CountsAreExact

(* A Pokemon in a caller's variable is changed by its own setters only,    *)
(* whatever happens to the list, or the save, that it came from.           *)
THEOREM VariablesTheorem == Spec => VariablesKeepTheirPokemon
<1> DEFINE Own == \/ \E mark \in Marks : ChangeHeld(mark)
                  \/ \E where \in List : \E index \in Place(where) : Hold(where, index)
<1>1. IInv /\ [Next]_vars => [Own \/ Held' = Held]_vars
  <2> SUFFICES ASSUME IInv, Next, ~Own PROVE Held' = Held
    OBVIOUS
  <2>1. CASE \E where \in List, index \in 0..PartySize+BoxSize, mon \in Offered \cup {Held} :
               SetPokemon(where, index, mon)
    <3>1. PICK where \in List, index \in 0..PartySize+BoxSize, mon \in Offered \cup {Held} :
            SetPokemon(where, index, mon)
      BY <2>1
    <3>2. held' = Replaced(where, index) /\ lists' = PutIn(lists, where, index, mon)
      BY <3>1 DEF SetPokemon, Put, PutIn
    <3>3. CASE held.at = At(where, index)
      BY <3>2, <3>3 DEF Replaced, Nowhere, Held
    <3>4. CASE held.at # At(where, index)
      <4>1. held' = held
        BY <3>2, <3>4 DEF Replaced
      <4>2. CASE held.at.in
        <5>0. PICK w \in List : \E i \in Place(w) : held.at = At(w, i)
          BY <4>2 DEF IInv, HeldOK, Nowhere
        <5>1. PICK i \in Place(w) : held.at = At(w, i)
          BY <5>0
        <5>2. held.at.where = w /\ held.at.index = i /\ ~(w = where /\ i = index)
          <6>1. w = where /\ i = index => At(w, i) = At(where, index)
            OBVIOUS
          <6>2. At(w, i).where = w /\ At(w, i).index = i
            BY DEF At
          <6> QED BY <3>4, <5>1, <6>1, <6>2
        <5>3. index \in Place(where) /\ mon \in Mons
          BY <3>1, HeldIsAMon, MonsAssumption DEF SetPokemon, Fits
        <5>4. PutIn(lists, where, index, mon)[w][i] =
                IF w = where /\ i = index THEN mon ELSE lists[w][i]
          <6>1. lists \in Contents(Mons)
            BY DEF IInv
          <6> QED BY <5>3, <6>1, ContentsPut
        <5>5. lists'[w][i] = lists[w][i]
          BY <3>2, <5>2, <5>4
        <5> QED BY <4>1, <4>2, <5>2, <5>5 DEF Held
      <4>3. CASE ~held.at.in
        BY <4>1, <4>3 DEF Held
      <4> QED BY <4>2, <4>3
    <3> QED BY <3>3, <3>4
  <2>2. CASE \E file \in Files : FromFile(file)
    <3>1. held' = [at |-> Nowhere, mon |-> Held]
      BY <2>2 DEF FromFile
    <3> QED BY <3>1 DEF Held, Nowhere
  <2>3. CASE \/ \E box \in Box, name \in Names : SetBoxName(box, name)
             \/ \E box \in Box : \E wallpaper \in Wallpapers : SetWallpaper(box, wallpaper)
             \/ \E file \in Files : SaveAs(file) \/ SaveFails(file)
    <3>1. UNCHANGED <<lists, held>>
      BY <2>3 DEF SetBoxName, SetWallpaper, SaveAs, SaveFails, Collect
    <3> QED BY <3>1 DEF Held
  <2> QED BY <2>1, <2>2, <2>3 DEF Next
<1> QED BY <1>1, InitIInv, NextIInv, PTL DEF Spec, VariablesKeepTheirPokemon

-----------------------------------------------------------------------------
(* The Pokedex of the objects and of the files.                            *)
Known(mon, species) == ~Empty(mon) /\ ~mon.egg => mon.species \in species
InPokedex(pokemon, species) == \A where \in List : \A i \in Place(where) : Known(pokemon[where][i], species)

BoxesType == [Box -> [name : Names, wallpaper : Wallpapers]]

ImageRight(image) ==
  /\ image \in Images
  /\ LoadedBoxes(image) \in BoxesType
  /\ HasPokedex =>
       /\ InPokedex(LoadedLists(image), image.owned \cap image.seenA)
       /\ image.seenB = image.seenA
       /\ image.seenC \subseteq image.seenA

PInv ==
  /\ IInv
  /\ game \in Games
  /\ boxes \in BoxesType
  /\ seen \subseteq Species /\ caught \subseteq Species
  /\ buffer \in Images
  /\ filepath \in Files
  /\ calls \in 0..MaxCalls
  /\ HasPokedex => InPokedex(lists, caught \cap seen) /\ buffer.seenC \subseteq seen
  /\ \A image \in Saves : ImageRight(image)

LEMMA RegisteredMeans ==
  ASSUME NEW pokemon, NEW species
  PROVE  InPokedex(pokemon, species) <=> Registered(MonsOf(pokemon)) \subseteq species
<1>1. ASSUME InPokedex(pokemon, species) PROVE Registered(MonsOf(pokemon)) \subseteq species
  BY <1>1 DEF InPokedex, Known, Registered, MonsOf
<1>2. ASSUME Registered(MonsOf(pokemon)) \subseteq species, NEW where \in List, NEW i \in Place(where)
      PROVE  Known(pokemon[where][i], species)
  <2>1. pokemon[where][i] \in MonsOf(pokemon)
    BY DEF MonsOf
  <2> QED
    BY <1>2, <2>1 DEF Known, Registered
<1> QED
  BY <1>1, <1>2 DEF InPokedex

(* Every number that a save can have means a wallpaper, and a wallpaper    *)
(* has a number that means it.                                             *)
LEMMA WallpaperLemma ==
  ASSUME game \in Games
  PROVE  /\ \A number \in WallpaperNumbers : game # "GCN" => WallpaperOf(number) \in Wallpapers
         /\ WallpaperOf(0) \in Wallpapers
         /\ \A wallpaper \in Wallpapers :
              NumberOf(wallpaper) \in WallpaperNumbers /\ WallpaperOf(NumberOf(wallpaper)) = wallpaper
BY FilesAssumption DEF WallpaperOf, NumberOf, Wallpapers, WallpaperNumbers, GamesOwn

(* What save_as() collects is a save, shows the boxes as they are, and has *)
(* a Pokemon or an empty place where the objects have one.                 *)
LEMMA CollectedIs ==
  ASSUME buffer \in Images
  PROVE  Collected =
    [ pokemon |-> lists, count |-> count, names |-> [box \in Box |-> boxes[box].name],
      wallpapers |-> [box \in Box |-> NumberOf(boxes[box].wallpaper)],
      seenA |-> IF HasPokedex THEN seen ELSE buffer.seenA,
      seenB |-> IF HasPokedex THEN seen ELSE buffer.seenB,
      seenC |-> buffer.seenC,
      owned |-> IF HasPokedex THEN caught ELSE buffer.owned ]
BY DEF Images, Collected, WithPokedex

LEMMA CollectedBoxes ==
  ASSUME PInv
  PROVE  LoadedBoxes(Collected) = boxes
<1>1. \A box \in Box : boxes[box] \in [name : Names, wallpaper : Wallpapers]
  BY DEF PInv, BoxesType
<1>2. /\ Collected.names = [box \in Box |-> boxes[box].name]
      /\ Collected.wallpapers = [box \in Box |-> NumberOf(boxes[box].wallpaper)]
  BY CollectedIs DEF PInv
<1> HIDE DEF Collected
<1>3. ASSUME NEW box \in Box
      PROVE  [name |-> Collected.names[box], wallpaper |-> WallpaperOf(Collected.wallpapers[box])] = boxes[box]
  <2>1. boxes[box] = [name |-> boxes[box].name, wallpaper |-> boxes[box].wallpaper]
        /\ boxes[box].wallpaper \in Wallpapers
    BY <1>1
  <2>2. WallpaperOf(NumberOf(boxes[box].wallpaper)) = boxes[box].wallpaper
    BY <2>1, WallpaperLemma DEF PInv
  <2> QED
    BY <1>2, <2>1, <2>2
<1>4. boxes = [box \in Box |-> boxes[box]]
  BY DEF PInv, BoxesType
<1> QED
  BY <1>3, <1>4 DEF LoadedBoxes

LEMMA CollectedLists ==
  ASSUME PInv
  PROVE  \A where \in List : \A i \in Place(where) :
           LoadedLists(Collected)[where][i] =
             IF HasPokedex /\ where = Party /\ i >= count THEN NoMon ELSE lists[where][i]
<1>1. Collected.pokemon = lists /\ Collected.count = count
  BY CollectedIs DEF PInv
<1>2. lists \in [List -> UNION {[Place(w) -> Mons] : w \in List}]
  BY DEF PInv, IInv, Contents
<1>3. LoadedLists(Collected) = [w \in List |-> IF w = Party THEN LoadedParty(Collected) ELSE lists[w]]
  BY <1>1, <1>2, PartyIsAList DEF LoadedLists
<1>4. \A i \in Place(Party) :
        LoadedParty(Collected)[i] = IF HasPokedex /\ i >= count THEN NoMon ELSE lists[Party][i]
  BY <1>1 DEF LoadedParty
<1> HIDE DEF Collected
<1> QED
  BY <1>3, <1>4

LEMMA CollectedRight ==
  ASSUME PInv
  PROVE  ImageRight(Collected)
<1>0. buffer \in Images /\ lists \in Contents(Mons) /\ count \in 0..PartySize
      /\ seen \subseteq Species /\ caught \subseteq Species
  BY DEF PInv, IInv
<1>1. \A box \in Box : boxes[box].name \in Names /\ NumberOf(boxes[box].wallpaper) \in WallpaperNumbers
  BY WallpaperLemma DEF PInv, BoxesType
<1>2. Collected \in Images
  <2>1. [box \in Box |-> boxes[box].name] \in [Box -> Names]
    BY <1>1
  <2>2. [box \in Box |-> NumberOf(boxes[box].wallpaper)] \in [Box -> WallpaperNumbers]
    BY <1>1
  <2>3. buffer.seenA \subseteq Species /\ buffer.seenB \subseteq Species /\ buffer.seenC \subseteq Species
        /\ buffer.owned \subseteq Species
    BY <1>0 DEF Images
  <2> QED
    BY <1>0, <2>1, <2>2, <2>3, CollectedIs DEF Images
<1>3. LoadedBoxes(Collected) \in BoxesType
  BY CollectedBoxes DEF PInv
<1>4. ASSUME HasPokedex
      PROVE  /\ InPokedex(LoadedLists(Collected), Collected.owned \cap Collected.seenA)
             /\ Collected.seenB = Collected.seenA
             /\ Collected.seenC \subseteq Collected.seenA
  <2>1. Collected.owned = caught /\ Collected.seenA = seen /\ Collected.seenB = seen
        /\ Collected.seenC = buffer.seenC
    BY <1>0, <1>4, CollectedIs
  <2> HIDE DEF Collected
  <2>2. InPokedex(LoadedLists(Collected), caught \cap seen)
    BY <1>4, CollectedLists, NoMonIsEmpty DEF PInv, InPokedex, Known
  <2> QED
    BY <1>4, <2>1, <2>2 DEF PInv
<1> HIDE DEF Collected
<1> QED
  BY <1>2, <1>3, <1>4 DEF ImageRight

(* What the game wrote.                                                    *)
LEMMA GamesSaveRight ==
  ASSUME game \in Games, NEW image \in SavedByGame
  PROVE  ImageRight(image)
<1>0. LoadsWell(image)
  BY GamesSaveLoadsWell
<1>1. /\ ImageShape(image)
      /\ image.pokemon \in Contents(Mons) /\ image.count \in 0..PartySize
      /\ image.names = [box \in Box |-> CHOOSE name \in Names : TRUE]
      /\ image.wallpapers \in [Box -> IF HasPokedex THEN {12, 16} ELSE {0}]
      /\ image.seenA \subseteq Species /\ image.seenB \subseteq Species
      /\ image.seenC \subseteq Species /\ image.owned \subseteq Species
  BY <1>0 DEF SavedByGame, ImageShape, LoadsWell
<1>2. (CHOOSE name \in Names : TRUE) \in Names
  BY FilesAssumption
<1>3. \A box \in Box : image.names[box] \in Names
  BY <1>1, <1>2
<1>4. image.names \in [Box -> Names] /\ image.wallpapers \in [Box -> WallpaperNumbers]
  BY <1>1, <1>3 DEF WallpaperNumbers
<1>5. image \in Images
  BY <1>1, <1>4 DEF ImageShape, Images
<1>6. \A box \in Box : WallpaperOf(image.wallpapers[box]) \in Wallpapers
  BY <1>1, <1>4, WallpaperLemma DEF HasPokedex
<1>7. LoadedBoxes(image) \in BoxesType
  BY <1>3, <1>6 DEF LoadedBoxes, BoxesType
<1>8. ASSUME HasPokedex
      PROVE  /\ InPokedex(LoadedLists(image), image.owned \cap image.seenA)
             /\ image.seenB = image.seenA /\ image.seenC \subseteq image.seenA
  <2>1. image.owned = Registered(MonsOf(LoadedLists(image)))
        /\ image.seenA = image.owned /\ image.seenB = image.owned /\ image.seenC = image.owned
    BY <1>8 DEF SavedByGame
  <2> QED
    BY <2>1, RegisteredMeans
<1> QED
  BY <1>5, <1>7, <1>8 DEF ImageRight

LEMMA InitPInv == Init => PInv
<1> SUFFICES ASSUME Init PROVE PInv
  OBVIOUS
<1>1. /\ game \in Games /\ buffer \in SavedByGame /\ lists = LoadedLists(buffer)
      /\ boxes = LoadedBoxes(buffer) /\ seen = buffer.seenA /\ caught = buffer.owned
      /\ filepath = FirstFile /\ calls = 0
      /\ files = [f \in Files |-> IF f = FirstFile THEN buffer ELSE NoFile]
  BY DEF Init
<1>2. ImageRight(buffer) /\ IInv
  BY <1>1, GamesSaveRight, InitIInv
<1>3. /\ buffer \in Images /\ seen \subseteq Species /\ caught \subseteq Species /\ boxes \in BoxesType
      /\ HasPokedex => InPokedex(lists, caught \cap seen) /\ buffer.seenC \subseteq seen
  BY <1>1, <1>2 DEF ImageRight, Images
<1>4. \A image \in Saves : ImageRight(image)
  BY <1>1, <1>2 DEF Saves
<1> QED
  BY <1>1, <1>2, <1>3, <1>4, FilesAssumption DEF PInv

LEMMA RightStays ==
  ASSUME UNCHANGED game, NEW image, ImageRight(image)
  PROVE  ImageRight(image)'
BY DEF ImageRight, HasPokedex, InPokedex, Known, Empty, LoadedLists, LoadedParty, LoadedBoxes,
       WallpaperOf, GamesOwn, BoxesType, Wallpapers

(* A call that leaves the boxes, the Pokedex, the buffer and the files.    *)
LEMMA OwnListsOnly ==
  ASSUME PInv, IInv', UNCHANGED <<game, boxes, seen, caught, buffer, files, filepath>>,
         calls' \in 0..MaxCalls,
         HasPokedex => InPokedex(lists', caught \cap seen)
  PROVE  PInv'
<1>1. Saves' = Saves
  BY DEF Saves
<1>2. \A image \in Saves' : ImageRight(image)'
  BY <1>1, RightStays DEF PInv
<1>3. boxes' \in BoxesType'
  BY DEF PInv, BoxesType, Wallpapers, GamesOwn
<1>4. (HasPokedex => InPokedex(lists, caught \cap seen) /\ buffer.seenC \subseteq seen)'
  BY DEF PInv, HasPokedex, InPokedex, Known, Empty
<1> QED
  BY <1>2, <1>3, <1>4 DEF PInv

LEMMA CallsCounted ==
  ASSUME PInv, Call
  PROVE  calls' \in 0..MaxCalls /\ game' = game
BY FilesAssumption DEF PInv, Call

(* A file that is written, and the files that are then there.              *)
LEMMA SavesAfter ==
  ASSUME IInv, NEW written \in Files, NEW left, files' = [files EXCEPT ![written] = left]
  PROVE  \A image \in Saves' : image \in Saves \/ image = left
<1>1. files = [file \in Files |-> files[file]]
  BY DEF IInv
<1>2. files' = [file \in Files |-> IF file = written THEN left ELSE files[file]]
  BY <1>1
<1> QED
  BY <1>2 DEF Saves

LEMMA ChangeHeldRight ==
  ASSUME PInv, IInv', NEW mark \in Marks, ChangeHeld(mark)
  PROVE  PInv'
<1>1. /\ UNCHANGED <<game, boxes, seen, caught, buffer, files, filepath>>
      /\ calls' \in 0..MaxCalls
  BY CallsCounted DEF ChangeHeld
<1>2. CASE held.at.in
  <2>0. PICK where \in List : \E index \in Place(where) : held.at = At(where, index)
    BY <1>2 DEF PInv, IInv, HeldOK, Nowhere
  <2>1. PICK index \in Place(where) : held.at = At(where, index)
    BY <2>0
  <2>2. held.at.where = where /\ held.at.index = index
    BY <2>1 DEF At
  <2> DEFINE old == lists[where][index]
             new == [species |-> old.species, egg |-> old.egg, mark |-> mark]
  <2>3. old \in Mons /\ new \in Mons /\ new.species = old.species /\ new.egg = old.egg
    BY ContentsHave DEF PInv, IInv, Mons
  <2>4. [old EXCEPT !.mark = mark] = new
    BY <2>3 DEF Mons
  <2>5. lists' = PutIn(lists, where, index, new)
    <3>1. lists' = [lists EXCEPT ![where][index].mark = mark]
      BY <1>2, <2>2 DEF ChangeHeld
    <3> QED BY <2>4, <3>1 DEF PutIn
  <2> HIDE DEF new
  <2>6. \A w \in List : \A i \in Place(w) :
          lists'[w][i] = IF w = where /\ i = index THEN new ELSE lists[w][i]
    BY <2>3, <2>5, ContentsPut DEF PInv, IInv
  <2>7. \A w \in List : \A i \in Place(w) :
          lists'[w][i].species = lists[w][i].species /\ lists'[w][i].egg = lists[w][i].egg
    BY <2>3, <2>6
  <2>8. HasPokedex => InPokedex(lists', caught \cap seen)
    BY <2>7 DEF PInv, InPokedex, Known, Empty
  <2> QED
    BY <1>1, <2>8, OwnListsOnly
<1>3. CASE ~held.at.in
  <2>1. lists' = lists
    BY <1>3 DEF ChangeHeld
  <2> QED
    BY <1>1, <2>1, OwnListsOnly DEF PInv
<1> QED
  BY <1>2, <1>3

LEMMA SetPokemonRight ==
  ASSUME PInv, IInv', NEW where \in List, NEW index, NEW mon, SetPokemon(where, index, mon)
  PROVE  PInv'
<1>1. /\ UNCHANGED <<game, boxes, buffer, files, filepath>>
      /\ calls' \in 0..MaxCalls
  BY CallsCounted DEF SetPokemon
<1>2. mon \in Mons /\ index \in Place(where)
  BY HeldIsAMon, MonsAssumption DEF SetPokemon, Fits, PInv
<1>3. \A w \in List : \A i \in Place(w) :
        lists'[w][i] = IF w = where /\ i = index THEN mon ELSE lists[w][i]
  <2>1. lists' = PutIn(lists, where, index, mon)
    BY DEF SetPokemon, Put, PutIn
  <2> QED BY <1>2, <2>1, ContentsPut DEF PInv, IInv
<1>4. /\ seen' = IF HasPokedex THEN seen \cup Registered({mon}) ELSE seen
      /\ caught' = IF HasPokedex THEN caught \cup Registered({mon}) ELSE caught
  BY DEF SetPokemon, Register
<1>5. Known(mon, Registered({mon})) /\ Registered({mon}) \subseteq Species
  BY <1>2 DEF Known, Registered, Mons, Empty
<1>6. seen' \subseteq Species /\ caught' \subseteq Species /\ seen \subseteq seen' /\ caught \subseteq caught'
  BY <1>4, <1>5 DEF PInv
<1>7. ASSUME HasPokedex PROVE InPokedex(lists', caught' \cap seen') /\ buffer'.seenC \subseteq seen'
  <2>1. \A w \in List : \A i \in Place(w) : Known(lists[w][i], caught' \cap seen')
    BY <1>6, <1>7 DEF PInv, InPokedex, Known
  <2>2. Known(mon, caught' \cap seen')
    BY <1>4, <1>5, <1>7 DEF Known
  <2> QED
    BY <1>1, <1>3, <1>6, <1>7, <2>1, <2>2 DEF InPokedex, PInv
<1>8. (HasPokedex => InPokedex(lists, caught \cap seen) /\ buffer.seenC \subseteq seen)'
  BY <1>1, <1>7 DEF HasPokedex, InPokedex, Known, Empty
<1>9. Saves' = Saves
  BY <1>1 DEF Saves
<1>10. \A image \in Saves' : ImageRight(image)'
  BY <1>1, <1>9, RightStays DEF PInv
<1>11. boxes' \in BoxesType'
  BY <1>1 DEF PInv, BoxesType, Wallpapers, GamesOwn
<1> QED
  BY <1>1, <1>6, <1>8, <1>10, <1>11 DEF PInv

LEMMA BoxSettersRight ==
  ASSUME PInv, IInv',
         \/ \E box \in Box, name \in Names : SetBoxName(box, name)
         \/ \E box \in Box : \E wallpaper \in Wallpapers : SetWallpaper(box, wallpaper)
  PROVE  PInv'
<1>1. /\ UNCHANGED <<game, lists, seen, caught, buffer, files, filepath>>
      /\ calls' \in 0..MaxCalls
  BY CallsCounted DEF SetBoxName, SetWallpaper
<1>2. boxes' \in BoxesType
  BY DEF PInv, BoxesType, SetBoxName, SetWallpaper
<1>3. boxes' \in BoxesType'
  BY <1>1, <1>2 DEF BoxesType, Wallpapers, GamesOwn
<1>4. Saves' = Saves
  BY <1>1 DEF Saves
<1>5. \A image \in Saves' : ImageRight(image)'
  BY <1>1, <1>4, RightStays DEF PInv
<1>6. (HasPokedex => InPokedex(lists, caught \cap seen) /\ buffer.seenC \subseteq seen)'
  BY <1>1 DEF PInv, HasPokedex, InPokedex, Known, Empty
<1> QED
  BY <1>1, <1>3, <1>5, <1>6 DEF PInv

LEMMA SavesRight ==
  ASSUME PInv, IInv', NEW file \in Files, SaveAs(file) \/ SaveFails(file)
  PROVE  PInv'
<1>1. ImageRight(Collected)
  BY CollectedRight
<1>2. /\ UNCHANGED <<game, lists, boxes, seen, caught>>
      /\ buffer' = Collected /\ calls' \in 0..MaxCalls
      /\ filepath' \in Files
  BY CallsCounted DEF SaveAs, SaveFails, Collect, PInv
<1>3. PICK left : /\ left \in Saves \cup {NoFile, Collected}
                  /\ files' = [files EXCEPT ![file] = left]
  <2>1. CASE SaveAs(file)
    BY <2>1 DEF SaveAs
  <2>2. CASE SaveFails(file)
    BY <2>2 DEF SaveFails, Saves
  <2> QED BY <2>1, <2>2
<1>4. \A image \in Saves' : image \in Saves \cup {Collected}
  <2>1. \A image \in Saves' : image \in Saves \/ image = left
    BY <1>3, SavesAfter DEF PInv
  <2>2. NoFile \notin Saves'
    BY DEF Saves
  <2> QED BY <1>3, <2>1, <2>2
<1>5. \A image \in Saves' : ImageRight(image)
  BY <1>1, <1>4 DEF PInv
<1>6. \A image \in Saves' : ImageRight(image)'
  BY <1>2, <1>5, RightStays
<1>7. boxes' \in BoxesType'
  BY <1>2 DEF PInv, BoxesType, Wallpapers, GamesOwn
<1>8. Collected \in Images /\ Collected.seenC = buffer.seenC
  BY <1>1, CollectedIs DEF ImageRight, PInv
<1> HIDE DEF Collected
<1>9. (HasPokedex => InPokedex(lists, caught \cap seen) /\ buffer.seenC \subseteq seen)'
  BY <1>2, <1>8 DEF PInv, HasPokedex, InPokedex, Known, Empty
<1> QED
  BY <1>2, <1>6, <1>7, <1>8, <1>9 DEF PInv

LEMMA FromFileRight ==
  ASSUME PInv, IInv', NEW file \in Files, FromFile(file)
  PROVE  PInv'
<1> DEFINE image == files[file]
<1>1. ImageRight(image)
  BY DEF FromFile, PInv, Saves
<1>2. /\ UNCHANGED <<game, files>> /\ calls' \in 0..MaxCalls /\ filepath' = file
      /\ lists' = LoadedLists(image) /\ boxes' = LoadedBoxes(image)
      /\ seen' = image.seenA /\ caught' = image.owned /\ buffer' = image
  BY CallsCounted DEF FromFile, Load
<1> HIDE DEF image
<1>3. Saves' = Saves
  BY <1>2 DEF Saves
<1>4. \A img \in Saves' : ImageRight(img)'
  BY <1>2, <1>3, RightStays DEF PInv
<1>5. boxes' \in BoxesType'
  BY <1>1, <1>2 DEF ImageRight, BoxesType, Wallpapers, GamesOwn
<1>6. buffer' \in Images /\ seen' \subseteq Species /\ caught' \subseteq Species
  BY <1>1, <1>2 DEF ImageRight, Images
<1>7. HasPokedex => InPokedex(lists', caught' \cap seen') /\ buffer'.seenC \subseteq seen'
  BY <1>1, <1>2 DEF ImageRight
<1>8. (HasPokedex => InPokedex(lists, caught \cap seen) /\ buffer.seenC \subseteq seen)'
  BY <1>2, <1>7 DEF HasPokedex, InPokedex, Known, Empty
<1> QED
  BY <1>2, <1>4, <1>5, <1>6, <1>8 DEF PInv

LEMMA NextPInv == PInv /\ [Next]_vars => PInv'
<1> SUFFICES ASSUME PInv, [Next]_vars PROVE PInv'
  OBVIOUS
<1>0. IInv'
  BY NextIInv DEF PInv
<1>1. CASE \E where \in List : \E index \in Place(where) : Hold(where, index)
  BY <1>0, <1>1, CallsCounted, OwnListsOnly DEF Hold, PInv
<1>2. CASE \E mark \in Marks : ChangeHeld(mark)
  BY <1>0, <1>2, ChangeHeldRight
<1>3. CASE \E where \in List, index \in 0..PartySize+BoxSize, mon \in Offered \cup {Held} :
             SetPokemon(where, index, mon)
  BY <1>0, <1>3, SetPokemonRight
<1>4. CASE \/ \E box \in Box, name \in Names : SetBoxName(box, name)
           \/ \E box \in Box : \E wallpaper \in Wallpapers : SetWallpaper(box, wallpaper)
  BY <1>0, <1>4, BoxSettersRight
<1>5. CASE \E file \in Files : SaveAs(file) \/ SaveFails(file)
  BY <1>0, <1>5, SavesRight
<1>6. CASE \E file \in Files : FromFile(file)
  BY <1>0, <1>6, FromFileRight
<1>7. CASE UNCHANGED vars
  BY <1>0, <1>7, OwnListsOnly DEF vars, PInv
<1> QED BY <1>1, <1>2, <1>3, <1>4, <1>5, <1>6, <1>7 DEF Next

(* Every Pokemon of the party and of the boxes, but eggs, is in the        *)
(* Pokedex of every file that a Game Boy Advance game reads, its copies    *)
(* agree, and the rest of the state has its type.                          *)
THEOREM RegisteredTheorem == Spec => []SavedPokemonAreRegistered
<1>1. PInv => SavedPokemonAreRegistered
  <2> SUFFICES ASSUME PInv PROVE SavedPokemonAreRegistered
    OBVIOUS
  <2>1. \A file \in Files : files[file] # NoFile => ImageRight(files[file])
    BY DEF PInv, Saves
  <2>2. TypeOK
    BY <2>1, HeldIsAMon DEF TypeOK, PInv, IInv, ImageRight, BoxesType
  <2>3. ASSUME HasPokedex, NEW file \in Files, files[file] # NoFile
        PROVE  /\ Registered(MonsOf(LoadedLists(files[file]))) \subseteq files[file].owned \cap files[file].seenA
               /\ files[file].seenB = files[file].seenA
               /\ files[file].seenC \subseteq files[file].seenA
    BY <2>1, <2>3, RegisteredMeans DEF ImageRight
  <2> QED
    BY <2>2, <2>3 DEF SavedPokemonAreRegistered
<1> QED BY <1>1, InitPInv, NextPInv, PTL DEF Spec

-----------------------------------------------------------------------------
(* A party of the Game Boy Advance comes back with a new, empty Pokemon in *)
(* every place behind its count.  Callers who empty a place with a Pokemon *)
(* of no species that is otherwise their own would miss it.                *)
Alike(mon) == Empty(mon) => mon = NoMon
AllAlike(pokemon) == \A where \in List : \A i \in Place(where) : Alike(pokemon[where][i])

EmptiesAreAlike == \A mon \in Offered : Alike(mon)

(* The disks of the GameCube do not fail: write_file() would not notice.   *)
FailuresAreNoticed == "GCN" \notin FailingDisks

AInv ==
  /\ PInv
  /\ AllAlike(lists)
  /\ Alike(held.mon)
  /\ \A image \in Saves : AllAlike(LoadedLists(image))
  /\ ~HasPokedex => seen = buffer.seenA /\ caught = buffer.owned
  /\ made = [file \in Files |-> made[file]]
  /\ FilesHoldWhatWasShown

LEMMA HeldIsAlike ==
  ASSUME AInv
  PROVE  Alike(Held)
BY DEF AInv, PInv, IInv, HeldOK, Held, AllAlike, Nowhere, At

(* Whoever loads what save_as() collects sees what the objects show.       *)
LEMMA CollectedShows ==
  ASSUME AInv
  PROVE  ShownBy(Collected) = Shown
<1>1. LoadedBoxes(Collected) = boxes
  BY CollectedBoxes DEF AInv
<1>2. Collected.seenA = seen /\ Collected.owned = caught
  BY CollectedIs DEF AInv, PInv
<1>3. LoadedCount(Collected) = count
  <2>1. Collected.pokemon = lists /\ Collected.count = count
    BY CollectedIs DEF AInv, PInv
  <2>2. lists[Party] \in [Place(Party) -> Mons] /\ NoGaps(lists[Party], count) /\ count \in 0..PartySize
    BY PartyIsAList, ContentsHave DEF AInv, PInv, IInv, NoGaps, PartyIsContiguous, Contents
  <2> HIDE DEF Collected
  <2> QED
    BY <2>1, <2>2, NumFilledIsLength DEF LoadedCount
<1>4. LoadedLists(Collected) = lists
  <2>1. LoadedLists(Collected) \in Contents(Mons) /\ lists \in Contents(Mons)
    BY CollectedLoadsWell, LoadedListsOK DEF AInv, PInv, IInv
  <2> DEFINE loaded == LoadedLists(Collected)
  <2>2. \A where \in List : \A i \in Place(where) :
          loaded[where][i] = IF HasPokedex /\ where = Party /\ i >= count THEN NoMon ELSE lists[where][i]
    BY CollectedLists DEF AInv
  <2> HIDE DEF loaded
  <2>3. ASSUME NEW i \in Place(Party), i >= count PROVE lists[Party][i] = NoMon
    <3>1. Empty(lists[Party][i])
      BY <2>3, SizesAssumption, PartyIsAList DEF AInv, PInv, IInv, PartyIsContiguous
    <3> QED
      BY <3>1, PartyIsAList DEF AInv, AllAlike, Alike
  <2>4. \A where \in List : \A i \in Place(where) : loaded[where][i] = lists[where][i]
    BY <2>2, <2>3
  <2>5. \A where \in List : loaded[where] = lists[where]
    BY <2>1, <2>4 DEF Contents, loaded
  <2>6. loaded = lists
    BY <2>1, <2>5 DEF Contents, loaded
  <2> QED
    BY <2>6 DEF loaded
<1> HIDE DEF Collected
<1> QED
  BY <1>1, <1>2, <1>3, <1>4 DEF ShownBy, Shown

LEMMA CollectedAlike ==
  ASSUME AInv
  PROVE  AllAlike(LoadedLists(Collected))
BY CollectedLists DEF AInv, AllAlike, Alike

LEMMA InitAInv == Init => AInv
<1> SUFFICES ASSUME Init PROVE AInv
  OBVIOUS
<1>1. /\ buffer \in SavedByGame /\ lists = LoadedLists(buffer) /\ count = LoadedCount(buffer)
      /\ boxes = LoadedBoxes(buffer) /\ seen = buffer.seenA /\ caught = buffer.owned
      /\ held = [at |-> Nowhere, mon |-> NoMon]
      /\ files = [f \in Files |-> IF f = FirstFile THEN buffer ELSE NoFile]
      /\ made = [f \in Files |-> IF f = FirstFile THEN Shown ELSE NoFile]
  BY DEF Init
<1>2. PInv
  BY InitPInv
<1>3. \A where \in List : \A i \in Place(where) : Alike(buffer.pokemon[where][i])
  <2>1. buffer.pokemon \in Contents(GameMade \cup {NoMon})
    BY <1>1 DEF SavedByGame
  <2>2. \A mon \in GameMade \cup {NoMon} : Alike(mon)
    BY MonsAssumption DEF Alike
  <2> QED
    BY <2>1, <2>2 DEF Contents
<1>4. AllAlike(LoadedLists(buffer))
  <2>1. buffer.pokemon \in [List -> UNION {[Place(w) -> Mons] : w \in List}]
    BY <1>2 DEF PInv, Images, Contents
  <2>2. LoadedLists(buffer) = [w \in List |-> IF w = Party THEN LoadedParty(buffer) ELSE buffer.pokemon[w]]
    BY <2>1, PartyIsAList DEF LoadedLists
  <2>3. \A i \in Place(Party) : LoadedParty(buffer)[i] \in {NoMon, buffer.pokemon[Party][i]}
    BY DEF LoadedParty
  <2>4. ASSUME NEW where \in List, NEW i \in Place(where) PROVE Alike(LoadedLists(buffer)[where][i])
    <3>1. CASE where = Party
      <4>1. LoadedLists(buffer)[where][i] \in {NoMon, buffer.pokemon[where][i]}
        BY <2>2, <2>3, <2>4, <3>1, PartyIsAList
      <4> QED
        BY <1>3, <2>4, <4>1 DEF Alike
    <3>2. CASE where # Party
      BY <1>3, <2>2, <2>4, <3>2
    <3> QED
      BY <3>1, <3>2
  <2> QED
    BY <2>4 DEF AllAlike
<1>5. \A image \in Saves : AllAlike(LoadedLists(image))
  BY <1>1, <1>4 DEF Saves
<1>6. FilesHoldWhatWasShown
  <2>1. ShownBy(buffer) = Shown
    BY <1>1 DEF ShownBy, Shown
  <2>2. buffer # NoFile
    BY <1>2, NoFileAssumption DEF PInv
  <2> QED
    BY <1>1, <2>1, <2>2 DEF FilesHoldWhatWasShown
<1>7. made = [file \in Files |-> made[file]]
  BY <1>1
<1>8. Alike(held.mon)
  BY <1>1 DEF Alike
<1> QED
  BY <1>1, <1>2, <1>4, <1>5, <1>6, <1>7, <1>8 DEF AInv

-----------------------------------------------------------------------------
LEMMA ShownStays ==
  ASSUME UNCHANGED game, NEW image
  PROVE  /\ ShownBy(image)' = ShownBy(image)
         /\ LoadedLists(image)' = LoadedLists(image)
         /\ HasPokedex' = HasPokedex
BY DEF ShownBy, HasPokedex, LoadedLists, LoadedParty, LoadedCount, LoadedBoxes, WallpaperOf, GamesOwn

LEMMA FilesKeepShowing ==
  ASSUME AInv, UNCHANGED <<game, files, made>>
  PROVE  /\ FilesHoldWhatWasShown'
         /\ (\A image \in Saves : AllAlike(LoadedLists(image)))'
         /\ made' = [file \in Files |-> made'[file]]
<1>1. FilesHoldWhatWasShown'
  BY ShownStays DEF AInv, FilesHoldWhatWasShown
<1>2. Saves' = Saves
  BY DEF Saves
<1>3. \A image \in Saves : AllAlike(LoadedLists(image))
  BY DEF AInv
<1>4. \A image \in Saves' : AllAlike(LoadedLists(image)')
  BY <1>2, <1>3, ShownStays
<1>5. \A image \in Saves' : AllAlike(LoadedLists(image))'
  BY <1>4 DEF AllAlike, Alike, Empty
<1> QED
  BY <1>1, <1>5 DEF AInv

(* A call that leaves the Pokedex, the buffer and the files.               *)
LEMMA OwnPlacesOnly ==
  ASSUME AInv, PInv', UNCHANGED <<game, files, made, buffer>>,
         ~HasPokedex => UNCHANGED <<seen, caught>>,
         AllAlike(lists'), Alike(held'.mon)
  PROVE  AInv'
<1>1. AllAlike(lists)' /\ Alike(held.mon)'
  BY DEF AllAlike, Alike, Empty
<1>2. (~HasPokedex => seen = buffer.seenA /\ caught = buffer.owned)'
  BY DEF AInv, HasPokedex
<1> QED
  BY <1>1, <1>2, FilesKeepShowing DEF AInv

LEMMA ChangeHeldShows ==
  ASSUME AInv, PInv', NEW mark \in Marks, ChangeHeld(mark)
  PROVE  AInv'
<1>1. UNCHANGED <<game, seen, caught, buffer, files, made>> /\ ~Empty(Held)
  BY DEF ChangeHeld, Call
<1>2. CASE held.at.in
  <2>0. PICK where \in List : \E index \in Place(where) : held.at = At(where, index)
    BY <1>2 DEF AInv, PInv, IInv, HeldOK, Nowhere
  <2>1. PICK index \in Place(where) : held.at = At(where, index)
    BY <2>0
  <2>2. held.at.where = where /\ held.at.index = index
    BY <2>1 DEF At
  <2> DEFINE old == lists[where][index]
             new == [species |-> old.species, egg |-> old.egg, mark |-> mark]
  <2>3. old \in Mons /\ new \in Mons /\ ~Empty(new)
    BY <1>1, <1>2, <2>2, ContentsHave DEF AInv, PInv, IInv, Mons, Empty, Held
  <2>4. [old EXCEPT !.mark = mark] = new
    BY <2>3 DEF Mons
  <2>5. lists' = PutIn(lists, where, index, new)
    <3>1. lists' = [lists EXCEPT ![where][index].mark = mark]
      BY <1>2, <2>2 DEF ChangeHeld
    <3> QED BY <2>4, <3>1 DEF PutIn
  <2> HIDE DEF new
  <2>6. \A w \in List : \A i \in Place(w) :
          lists'[w][i] = IF w = where /\ i = index THEN new ELSE lists[w][i]
    BY <2>3, <2>5, ContentsPut DEF AInv, PInv, IInv
  <2>7. AllAlike(lists') /\ held' = held
    BY <1>2, <2>3, <2>6 DEF AInv, AllAlike, Alike, ChangeHeld
  <2> QED
    BY <1>1, <2>7, OwnPlacesOnly DEF AInv
<1>3. CASE ~held.at.in
  <2>1. lists' = lists /\ held' = [held EXCEPT !.mon.mark = mark] /\ Held = held.mon
    BY <1>3 DEF ChangeHeld, Held
  <2>2. held.mon \in Mons /\ held = [at |-> held.at, mon |-> held.mon]
    BY DEF AInv, PInv, IInv, HeldOK
  <2>3. held'.mon.species = held.mon.species
    BY <2>1, <2>2 DEF Mons
  <2>4. Alike(held'.mon)
    BY <1>1, <2>1, <2>3 DEF Alike, Empty
  <2> QED
    BY <1>1, <2>1, <2>4, OwnPlacesOnly DEF AInv
<1> QED
  BY <1>2, <1>3

LEMMA SetPokemonShows ==
  ASSUME EmptiesAreAlike, AInv, PInv', NEW where \in List, NEW index, NEW mon, SetPokemon(where, index, mon)
  PROVE  AInv'
<1>1. /\ UNCHANGED <<game, buffer, files, made>>
      /\ ~HasPokedex => UNCHANGED <<seen, caught>>
  BY DEF SetPokemon, Register, Call
<1>2. mon \in Mons /\ index \in Place(where) /\ Alike(mon)
  BY HeldIsAMon, HeldIsAlike, MonsAssumption DEF SetPokemon, Fits, AInv, PInv, EmptiesAreAlike
<1>3. \A w \in List : \A i \in Place(w) :
        lists'[w][i] = IF w = where /\ i = index THEN mon ELSE lists[w][i]
  <2>1. lists' = PutIn(lists, where, index, mon)
    BY DEF SetPokemon, Put, PutIn
  <2> QED BY <1>2, <2>1, ContentsPut DEF AInv, PInv, IInv
<1>4. AllAlike(lists')
  BY <1>2, <1>3 DEF AInv, AllAlike
<1>5. Alike(held'.mon)
  <2>1. held' = Replaced(where, index)
    BY DEF SetPokemon
  <2> QED
    BY <2>1, HeldIsAlike DEF Replaced, AInv
<1> QED
  BY <1>1, <1>4, <1>5, OwnPlacesOnly

LEMMA SavesShow ==
  ASSUME FailuresAreNoticed, AInv, PInv', NEW file \in Files, SaveAs(file) \/ SaveFails(file)
  PROVE  AInv'
<1>1. /\ UNCHANGED <<game, lists, boxes, seen, caught, held>> /\ buffer' = Collected
  BY DEF SaveAs, SaveFails, Collect, Call
<1>2. ShownBy(Collected) = Shown /\ AllAlike(LoadedLists(Collected)) /\ Collected # NoFile
  BY CollectedShows, CollectedAlike, CollectedRight, NoFileAssumption DEF AInv, ImageRight
<1>3. Collected.seenA = seen /\ Collected.owned = caught
  BY CollectedIs DEF AInv, PInv
<1>4. files = [f \in Files |-> files[f]] /\ made = [f \in Files |-> made[f]] /\ FilesHoldWhatWasShown
  BY DEF AInv, PInv, IInv
<1>5. PICK left, shown : /\ files' = [files EXCEPT ![file] = left]
                         /\ made' = [made EXCEPT ![file] = shown]
                         /\ \/ left = Collected /\ shown = Shown
                            \/ left = files[file] /\ shown = made[file]
                            \/ shown = NoFile /\ left = NoFile
  <2>1. CASE SaveAs(file)
    BY <2>1 DEF SaveAs
  <2>2. CASE SaveFails(file)
    <3>1. game # "GCN"
      BY <2>2 DEF SaveFails, FailuresAreNoticed
    <3>2. PICK left \in {files[file], NoFile} :
            /\ files' = [files EXCEPT ![file] = left]
            /\ made' = IF left = NoFile THEN [made EXCEPT ![file] = NoFile] ELSE made
      BY <2>2, <3>1 DEF SaveFails
    <3>3. made = [made EXCEPT ![file] = made[file]]
      BY <1>4
    <3> QED
      BY <3>2, <3>3
  <2> QED BY <2>1, <2>2
<1> HIDE DEF Collected
<1>6. /\ files' = [f \in Files |-> IF f = file THEN left ELSE files[f]]
      /\ made' = [f \in Files |-> IF f = file THEN shown ELSE made[f]]
  BY <1>4, <1>5
<1>7. \A f \in Files :
        made'[f] # NoFile => files'[f] # NoFile /\ ShownBy(files'[f]) = made'[f]
  BY <1>2, <1>4, <1>5, <1>6 DEF FilesHoldWhatWasShown
<1>8. FilesHoldWhatWasShown'
  BY <1>1, <1>7, ShownStays DEF FilesHoldWhatWasShown
<1>9. \A image \in Saves' : AllAlike(LoadedLists(image))
  <2>1. \A image \in Saves' : image \in Saves \/ image = Collected
    BY <1>5, <1>6 DEF Saves
  <2> QED
    BY <1>2, <2>1 DEF AInv
<1>10. \A image \in Saves' : AllAlike(LoadedLists(image)')
  BY <1>1, <1>9, ShownStays
<1>11. (\A image \in Saves : AllAlike(LoadedLists(image)))'
  BY <1>10 DEF AllAlike, Alike, Empty
<1>12. AllAlike(lists)' /\ Alike(held.mon)'
  BY <1>1 DEF AInv, AllAlike, Alike, Empty
<1>13. (~HasPokedex => seen = buffer.seenA /\ caught = buffer.owned)'
  BY <1>1, <1>3
<1>14. made' = [f \in Files |-> made'[f]]
  BY <1>6
<1> QED
  BY <1>8, <1>11, <1>12, <1>13, <1>14 DEF AInv

LEMMA FromFileShows ==
  ASSUME AInv, PInv', NEW file \in Files, FromFile(file)
  PROVE  AInv'
<1> DEFINE image == files[file]
<1>1. AllAlike(LoadedLists(image))
  BY DEF FromFile, AInv, Saves
<1>2. /\ UNCHANGED <<game, files, made>> /\ lists' = LoadedLists(image)
      /\ seen' = image.seenA /\ caught' = image.owned /\ buffer' = image
      /\ held' = [at |-> Nowhere, mon |-> Held]
  BY DEF FromFile, Load, Call
<1> HIDE DEF image
<1>3. AllAlike(lists)' /\ Alike(held.mon)'
  BY <1>1, <1>2, HeldIsAlike DEF AllAlike, Alike, Empty
<1>4. (~HasPokedex => seen = buffer.seenA /\ caught = buffer.owned)'
  BY <1>2
<1> QED
  BY <1>2, <1>3, <1>4, FilesKeepShowing DEF AInv

LEMMA NextAInv == EmptiesAreAlike /\ FailuresAreNoticed /\ AInv /\ [Next]_vars => AInv'
<1> SUFFICES ASSUME EmptiesAreAlike, FailuresAreNoticed, AInv, [Next]_vars PROVE AInv'
  OBVIOUS
<1>0. PInv'
  BY NextPInv DEF AInv
<1>1. CASE \E where \in List : \E index \in Place(where) : Hold(where, index)
  <2>1. /\ UNCHANGED <<game, lists, seen, caught, buffer, files, made>> /\ held'.mon = NoMon
    BY <1>1 DEF Hold, Call
  <2>2. AllAlike(lists') /\ Alike(held'.mon)
    BY <2>1 DEF AInv, Alike
  <2> QED
    BY <1>0, <2>1, <2>2, OwnPlacesOnly
<1>2. CASE \E mark \in Marks : ChangeHeld(mark)
  BY <1>0, <1>2, ChangeHeldShows
<1>3. CASE \E where \in List, index \in 0..PartySize+BoxSize, mon \in Offered \cup {Held} :
             SetPokemon(where, index, mon)
  BY <1>0, <1>3, SetPokemonShows
<1>4. CASE \/ \E box \in Box, name \in Names : SetBoxName(box, name)
           \/ \E box \in Box : \E wallpaper \in Wallpapers : SetWallpaper(box, wallpaper)
  <2>1. UNCHANGED <<game, lists, seen, caught, held, buffer, files, made>>
    BY <1>4 DEF SetBoxName, SetWallpaper, Call
  <2> QED
    BY <1>0, <2>1, OwnPlacesOnly DEF AInv
<1>5. CASE \E file \in Files : SaveAs(file) \/ SaveFails(file)
  BY <1>0, <1>5, SavesShow
<1>6. CASE \E file \in Files : FromFile(file)
  BY <1>0, <1>6, FromFileShows
<1>7. CASE UNCHANGED vars
  <2>1. UNCHANGED <<game, lists, seen, caught, held, buffer, files, made>>
    BY <1>7 DEF vars
  <2> QED
    BY <1>0, <2>1, OwnPlacesOnly DEF AInv
<1> QED BY <1>1, <1>2, <1>3, <1>4, <1>5, <1>6, <1>7 DEF Next

(* A save_as() that returned has written what the objects showed, for      *)
(* callers who empty a place with the Pokemon that a new place has, and    *)
(* unless a GameCube's disk fails.                                         *)
THEOREM FilesTheorem ==
  ASSUME EmptiesAreAlike, FailuresAreNoticed
  PROVE  Spec => []FilesHoldWhatWasShown
<1>1. Init => AInv
  BY InitAInv
<1>2. AInv /\ [Next]_vars => AInv'
  BY NextAInv
<1>3. AInv => FilesHoldWhatWasShown
  BY DEF AInv
<1> QED BY <1>1, <1>2, <1>3, PTL DEF Spec
=============================================================================
