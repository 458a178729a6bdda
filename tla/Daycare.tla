------------------------------ MODULE Daycare -------------------------------
(***************************************************************************)
(* The Pokemon that a trainer left at the daycare: one in Generation I and *)
(* on the GameCube, two and an egg in Generation II.                       *)
(*                                                                         *)
(* A native daycare lies in a save.  An object over it is made from what   *)
(* the native has, and the Pokemon it hands out are copies: what a caller  *)
(* changes of them is theirs, except for the names, which on the Game Boys *)
(* lie beside the structure and are written whenever the native is asked   *)
(* for.  Whether a place is in use the native says in a mark, since the    *)
(* games leave the data of a Pokemon that was taken home.                  *)
(***************************************************************************)
CONSTANTS
  Offered,      \* Pokemon that callers and games store
  LevelsGiven, NamesGiven,  \* what callers give to Pokemon that were handed out
  SpeciesName   \* the name of a Pokemon that has no nickname

Places == [gen1 |-> {"levelup"}, gen2 |-> {"man", "lady", "egg"}, gcn |-> {"levelup"}]
None == [species |-> "none", level |-> 0]
NoName == ""

(* Those who store a Pokemon store one that has a name.                    *)
ASSUME OfferedAssumption ==
  \A given \in Offered :
    /\ given = [data |-> given.data, name |-> given.name, egg |-> given.egg]
    /\ given.data = [species |-> given.data.species, level |-> given.data.level]
    /\ given.data.species # "none" /\ given.name # NoName

VARIABLES
  kind,    \* class of the object
  marks,   \* the places that the native's marks say are in use
  native,  \* for each place, the Pokemon's structure and what is beside it
  shown    \* _breeding_pokemon and _egg
daycareVars == <<kind, marks, native, shown>>

-----------------------------------------------------------------------------
(* A new object over a structure is called after its species and is no     *)
(* egg, except on the GameCube, where the structure has both.              *)
Import(place, p) ==
  [ data |-> place.data,
    name |-> IF place.name = NoName THEN SpeciesName ELSE place.name,
    egg |-> p = "egg" \/ (kind = "gcn" /\ place.egg) ]

(* The constructors, over native memory.  On the Game Boys a place that is *)
(* not marked is wiped first; those of the GameCube have no marks.         *)
Open(places, marked) ==
  /\ marks' = marked
  /\ native' = [p \in DOMAIN places |->
                  IF p \in marked \/ kind = "gcn" THEN places[p]
                  ELSE [data |-> None, name |-> NoName, egg |-> FALSE]]
  /\ shown' = [p \in DOMAIN places |-> Import(native'[p], p)]
  /\ UNCHANGED kind

DaycareInit ==
  /\ kind \in DOMAIN Places
  /\ marks = {}
  /\ native = [p \in Places[kind] |-> [data |-> None, name |-> NoName, egg |-> FALSE]]
  /\ shown = [p \in Places[kind] |-> Import(native[p], p)]

(* Faulty variant of MarksFor: no class sets a mark. *)
MarksForNone(objects) == marks

(* Generation I marks its place when a Pokemon is in it; the marks of      *)
(* Generation II are left to the games.                                    *)
MarksFor(objects) ==
  IF kind = "gen1" THEN {p \in DOMAIN objects : objects[p].data.species # "none"} ELSE marks

(* _to_native_levelup() and, for the egg, _to_native_breeding(). *)
Exported(places, objects, ps) ==
  [p \in DOMAIN places |->
     IF p \in ps /\ kind # "gcn" THEN [places[p] EXCEPT !.name = objects[p].name] ELSE places[p]]

(* set_levelup_pokemon(), which is set_breeding_pokemon() in Generation    *)
(* II: the structure is copied, an object made over the copy, and the      *)
(* names of all places but the egg's are exported.  A Pokemon of another   *)
(* game is converted before; one that cannot be is refused.                *)
NotEmpty(name) == IF name = NoName THEN "None" ELSE name

SetPokemon(p, given) ==
  /\ p \in Places[kind] \ {"egg"}
  /\ LET object == [data |-> given.data, name |-> NotEmpty(given.name), egg |-> kind = "gcn" /\ given.egg]
         copied == IF kind = "gcn" THEN given ELSE [native[p] EXCEPT !.data = given.data]
     IN /\ shown' = [shown EXCEPT ![p] = object]
        /\ native' = Exported([native EXCEPT ![p] = copied], shown', DOMAIN native \ {"egg"})
  /\ marks' = MarksFor(shown')
  /\ UNCHANGED kind

GetNative ==
  /\ native' = Exported(native, shown, DOMAIN native)
  /\ marks' = MarksFor(shown)
  /\ UNCHANGED <<kind, shown>>

(* Setters of Pokemon that were handed out.                                *)
Rename(p, name) ==
  /\ shown' = [shown EXCEPT ![p].name = name]
  /\ UNCHANGED <<kind, marks, native>>

SetLevel(p, level) ==
  /\ shown[p].data # None
  /\ shown' = [shown EXCEPT ![p].data.level = level]
  /\ UNCHANGED <<kind, marks, native>>

(* The save is written, and read again at once or after the game stored a  *)
(* Pokemon or gave one back.                                               *)
Reopen == Open(native, marks)

GameStores(p, given) == Open([native EXCEPT ![p] = given], marks \cup {p})

GameGivesBack(p) == kind # "gcn" /\ Open(native, marks \ {p})

DaycareNext ==
  \/ \E p \in DOMAIN native :
       \/ \E given \in Offered : SetPokemon(p, given) \/ GameStores(p, given)
       \/ \E name \in NamesGiven : Rename(p, name)
       \/ \E level \in LevelsGiven : SetLevel(p, level)
       \/ GameGivesBack(p)
  \/ GetNative
  \/ Reopen

DaycareSpec == DaycareInit /\ [][DaycareNext]_daycareVars

-----------------------------------------------------------------------------
(* What is shown in a place is what the native has there: only the level,  *)
(* and the names until the next export, may be newer.                      *)
ShowsTheNative == \A p \in DOMAIN native : shown[p].data.species = native[p].data.species

(* daycare_gen1impl.cpp:181: in Generation I the mark tells whether a      *)
(* Pokemon is there, so that the next object does not wipe one.            *)
Gen1MarkTells == kind = "gen1" => marks = {p \in DOMAIN native : native[p].data # None}

(* A Pokemon that is stored is shown with its name, the others stay as     *)
(* they were, and none but the stored one's structure changes.             *)
StoringIsExact ==
  \A p \in DOMAIN native, given \in Offered : SetPokemon(p, given) =>
    /\ shown'[p].data = given.data /\ shown'[p].name = given.name
    /\ \A q \in DOMAIN native \ {p} : shown'[q] = shown[q] /\ native'[q].data = native[q].data

(* A save that is read again has every Pokemon of the GameCube and those   *)
(* that are marked, in Generation I all and in Generation II those that a  *)
(* game put there; each at the level at which it was stored, with the name *)
(* that was exported last.                                                 *)
ReopeningKeeps ==
  Reopen => \A p \in DOMAIN native :
    IF kind = "gcn" \/ p \in marks
    THEN shown'[p].data = native[p].data /\ native[p].name \in {NoName, shown'[p].name}
    ELSE shown'[p].data = None

StoredPokemonAreKept ==
  [][ShowsTheNative' /\ Gen1MarkTells' /\ StoringIsExact /\ ReopeningKeeps]_daycareVars
=============================================================================
