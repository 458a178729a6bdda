---------------------------- MODULE PokemonList ----------------------------
(***************************************************************************)
(* A party, or a PC box, of Generations I and II                           *)
(* (lib/pokemon_party_gbimpl.ipp, lib/pokemon_box_gbimpl.ipp) in a save,   *)
(* with the Pokedex that it keeps informed.                                *)
(*                                                                         *)
(* The list holds objects, which callers get hold of and change; each      *)
(* object has its own copy of the Pokemon's data.  The native list is what *)
(* a save is written from: the data, and beside it the number of Pokemon,  *)
(* their names, and once more their species - in Generation II with a      *)
(* special value in place of an egg's species, which is the only mark of   *)
(* an egg.  The native list lags behind the objects until get_native().    *)
(*                                                                         *)
(* The Pokedex is used through the two setters that change it, under its   *)
(* own mutex; module PokedexRegister says what they do.                    *)
(***************************************************************************)
EXTENDS Integers, Sequences

CONSTANTS
  NumSpecies,    \* the species are 1..NumSpecies
  Names,         \* the nicknames
  DefaultName,   \* the one a Pokemon is made with
  Capacity,      \* 6, or 20 or 30
  HasEggs,       \* Generation II?
  RepairsCount,  \* is it a box, or a party?
  Threads,       \* who shares the list
  Offered,       \* bound: the Pokemon that callers hand in
  Meddling       \* do callers clear Pokedex entries, or make eggs hatch?

NoSpecies == 0
Species == 1..NumSpecies
EggId == NumSpecies + 1
NoName == "empty"

Creatures == [species : Species \cup {NoSpecies}, egg : BOOLEAN, name : Names]
Position == 0..Capacity-1

ASSUME PokemonListAssumption ==
  /\ NumSpecies \in Nat
  /\ DefaultName \in Names /\ NoName \notin Names
  /\ Capacity \in Nat \ {0}
  /\ HasEggs \in BOOLEAN /\ RepairsCount \in BOOLEAN /\ Meddling \in BOOLEAN
  /\ Offered \subseteq {p \in Creatures : p.egg => HasEggs}

VARIABLES
  pokemonList,  \* _pokemon_list
  native,       \* _pksav_party, _pksav_box
  seen, caught, \* the save's Pokedex
  call          \* a set_pokemon that waits for the mutex, or Idle

vars == <<pokemonList, native, seen, caught, call>>

(* Nobody asks the Pokedex anything here. *)
Register == INSTANCE PokedexRegister WITH
  NumPokemon <- NumSpecies, answer <- [kind |-> "none"]

Idle == [op |-> "idle"]
Smaller(a, b) == IF a < b THEN a ELSE b
Empty(creature) == creature.species = NoSpecies

-----------------------------------------------------------------------------
(* The native list that holds these objects.  An egg is listed as one.     *)
(* Names behind the last Pokemon are not copied.                           *)
ListedAs(creature) == IF creature.egg THEN EggId ELSE creature.species

Natives(list, count) ==
  [ entries |-> [i \in Position |-> list[i].species],
    species |-> [i \in Position |-> ListedAs(list[i])],
    names |-> [i \in Position |-> IF i < count THEN list[i].name ELSE NoName],
    count |-> count ]

(* _from_native(), first part.  A box may hold fewer Pokemon than its      *)
(* count says; whatever lies behind the original count is wiped.           *)
CountRepaired(n) ==
  IF RepairsCount /\ n.count > 0 /\ n.entries[n.count-1] = NoSpecies
    THEN CHOOSE i \in Position :
           n.entries[i] = NoSpecies /\ \A j \in 0..i-1 : n.entries[j] # NoSpecies
    ELSE n.count

Wiped(n) ==
  LET Behind(i) == i >= n.count /\ n.entries[i] # NoSpecies
  IN  [ entries |-> [i \in Position |-> IF Behind(i) THEN NoSpecies ELSE n.entries[i]],
        species |-> [i \in Position |-> IF Behind(i) THEN NoSpecies ELSE n.species[i]],
        names |-> [i \in Position |-> IF Behind(i) THEN NoName ELSE n.names[i]],
        count |-> CountRepaired(n) ]

\* Faulty variant of Objects: nobody tells the objects that they are eggs.
ObjectsHatched(n) ==
  [i \in Position |->
    [ species |-> n.entries[i],
      egg |-> FALSE,
      name |-> IF n.names[i] = NoName THEN DefaultName ELSE n.names[i] ]]

(* _from_native(), second part: the objects are made from the native list, *)
(* and where that has no name they keep the one they were made with.       *)
Objects(n) ==
  [i \in Position |->
    [ species |-> n.entries[i],
      egg |-> HasEggs /\ n.species[i] = EggId,
      name |-> IF n.names[i] = NoName THEN DefaultName ELSE n.names[i] ]]

(* A list in a save: its Pokemon stand at its beginning.  A party knows    *)
(* how many they are, the count of a box "may not be reliable"; and there  *)
(* may be remains of others behind them.                                   *)
SavedLists ==
  { n \in [ entries : [Position -> Species \cup {NoSpecies}],
            species : [Position -> Species \cup {NoSpecies, EggId}],
            names : [Position -> Names \cup {NoName}],
            count : 0..Capacity ] :
      /\ \E k \in 0..Capacity :
           /\ \A i \in Position : n.entries[i] # NoSpecies <=> i < k
           /\ RepairsCount \/ n.count <= k
      /\ \A i \in Position :
           /\ n.species[i] = n.entries[i] \/ (HasEggs /\ n.entries[i] # NoSpecies /\ n.species[i] = EggId)
           /\ n.names[i] = NoName <=> n.entries[i] = NoSpecies }

(* The Pokemon of a save are in its Pokedex, unless they are eggs. *)
Init ==
  /\ \E n \in SavedLists : native = Wiped(n)
  /\ pokemonList = Objects(native)
  /\ caught = {pokemonList[i].species : i \in {j \in Position : ~Empty(pokemonList[j]) /\ ~pokemonList[j].egg}}
  /\ seen = caught
  /\ call = [t \in Threads |-> Idle]

-----------------------------------------------------------------------------
\* Faulty variant of BeginSetPokemon: an empty Pokemon may go anywhere.
BeginSetPokemonAnywhere(t, index, creature) ==
  /\ call[t] = Idle
  /\ index <= Smaller(Capacity - 1, native.count)
  /\ call' = [call EXCEPT ![t] = [op |-> "set", index |-> index, pokemon |-> creature,
                                  numPokemon |-> native.count]]
  /\ UNCHANGED <<pokemonList, native, seen, caught>>

(* set_pokemon() reads the number of Pokemon, checks the index against it, *)
(* and waits for the mutex.                                                *)
BeginSetPokemon(t, index, creature) ==
  /\ call[t] = Idle
  /\ index <= Smaller(Capacity - 1, native.count)
  /\ ~(index < native.count - 1 /\ Empty(creature))
  /\ call' = [call EXCEPT ![t] = [op |-> "set", index |-> index, pokemon |-> creature,
                                  numPokemon |-> native.count]]
  /\ UNCHANGED <<pokemonList, native, seen, caught>>

(* A Pokemon of a game that it cannot be converted from is refused. *)
RefusePokemon(t) ==
  /\ call[t] # Idle
  /\ call' = [call EXCEPT ![t] = Idle]
  /\ UNCHANGED <<pokemonList, native, seen, caught>>

\* Faulty variant of CountAfter: the last Pokemon can leave without notice.
CountAfterJoining(c) ==
  IF c.index = c.numPokemon /\ ~Empty(c.pokemon) THEN native.count + 1 ELSE native.count

CountAfter(c) ==
  IF c.index = c.numPokemon /\ ~Empty(c.pokemon) THEN native.count + 1
  ELSE IF c.index = c.numPokemon - 1 /\ Empty(c.pokemon) THEN native.count - 1
  ELSE native.count

\* Faulty variant of RegisterPokemon: the second setter is forgotten.
RegisterAsSeen(creature) ==
  IF Empty(creature) \/ creature.egg
    THEN UNCHANGED <<seen, caught>>
    ELSE Register!See(creature.species)

(* set_has_seen(species, true), then set_has_caught(species, true). *)
RegisterPokemon(creature) ==
  IF Empty(creature) \/ creature.egg
    THEN UNCHANGED <<seen, caught>>
    ELSE Register!Catch(creature.species)

(* The data is copied to the native list, and a new object is made from    *)
(* it, which gets the name.  Whether the Pokemon is an egg is written to   *)
(* the native list, but the new object is not told.                        *)
SetPokemon(t) ==
  /\ call[t] # Idle
  /\ LET c == call[t]
     IN  /\ pokemonList' = [pokemonList EXCEPT ![c.index] = [c.pokemon EXCEPT !.egg = FALSE]]
         /\ native' = [native EXCEPT !.entries[c.index] = c.pokemon.species,
                                     !.species[c.index] = ListedAs(c.pokemon),
                                     !.names[c.index] = c.pokemon.name,
                                     !.count = CountAfter(c)]
         /\ RegisterPokemon(c.pokemon)
  /\ call' = [call EXCEPT ![t] = Idle]

(* Calls on an object of the list that get_pokemon() handed out. *)
SetNickname(index, name) ==
  /\ pokemonList' = [pokemonList EXCEPT ![index].name = name]
  /\ UNCHANGED <<native, seen, caught, call>>

SetIsEgg(index, egg) ==
  /\ HasEggs /\ Meddling
  /\ pokemonList' = [pokemonList EXCEPT ![index].egg = egg]
  /\ UNCHANGED <<native, seen, caught, call>>

(* set_has_seen(species, false) *)
ClearPokedex(species) ==
  /\ Meddling
  /\ Register!Unsee(species)
  /\ UNCHANGED <<pokemonList, native, call>>

(* get_native(), which save_as() calls *)
GetNative ==
  /\ native' = Natives(pokemonList, native.count)
  /\ UNCHANGED <<pokemonList, seen, caught, call>>

(* The save is written and loaded again: new objects, new callers. *)
SaveAndReload ==
  /\ \A t \in Threads : call[t] = Idle
  /\ native' = Wiped(Natives(pokemonList, native.count))
  /\ pokemonList' = Objects(native')
  /\ UNCHANGED <<seen, caught, call>>

Next ==
  \/ \E t \in Threads, index \in Position, creature \in Offered : BeginSetPokemon(t, index, creature)
  \/ \E t \in Threads : RefusePokemon(t) \/ SetPokemon(t)
  \/ \E index \in Position, name \in Names : SetNickname(index, name)
  \/ \E index \in Position, egg \in BOOLEAN : SetIsEgg(index, egg)
  \/ \E species \in Species : ClearPokedex(species)
  \/ GetNative \/ SaveAndReload

Spec == Init /\ [][Next]_vars

-----------------------------------------------------------------------------
TypeOK ==
  /\ pokemonList \in [Position -> Creatures]
  /\ native \in [ entries : [Position -> Species \cup {NoSpecies}],
                  species : [Position -> Species \cup {NoSpecies, EggId}],
                  names : [Position -> Names \cup {NoName}],
                  count : 0..Capacity ]
  /\ seen \in SUBSET Species /\ caught \in SUBSET Species
  /\ call \in [Threads -> {Idle} \cup [op : {"set"}, index : Position, pokemon : Offered,
                                        numPokemon : 0..Capacity]]

(* "Parties store Pokemon contiguously" (pokemon_party_gbimpl.ipp:79): the *)
(* slots before the count hold Pokemon and those behind it do not, in the  *)
(* list and in the save.                                                   *)
Contiguous ==
  \A i \in Position :
    /\ i < native.count <=> ~Empty(pokemonList[i])
    /\ native.entries[i] = pokemonList[i].species

(* A save that is written and loaded shows the same Pokemon under the same *)
(* names, and the same eggs.                                               *)
Shown == [i \in 1..native.count |-> pokemonList[i-1]]
ReloadKeepsPokemon == [][SaveAndReload => Shown' = Shown]_vars

(* The Pokemon of the list that the Pokedex does not know as caught. *)
Unregistered ==
  {species \in Species \ caught :
    \E i \in Position : pokemonList[i].species = species /\ ~pokemonList[i].egg}

(* "Any Pokemon in the party and PC must be in the Pokedex"                *)
(* (testing/unit-tests/cpp/cpp_game_save_test.cpp:400, :423): a Pokemon    *)
(* that is not an egg is registered.  The code does not keep this: an egg  *)
(* that is put into a list hatches there unnoticed, so no run claims it... *)
AllRegistered == Unregistered = {}

(* ...unless somebody cleared its entry, or it was an egg when it came.    *)
OnlyEggsEscapeThePokedex ==
  [][Unregistered' \subseteq
       Unregistered \cup (caught \ caught')
         \cup {pokemonList[i].species : i \in {j \in Position : pokemonList[j].egg}}
         \cup {call[t].pokemon.species : t \in {u \in Threads : call[u] # Idle /\ call[u].pokemon.egg}}]_vars

(* The list is a sequence that only changes at its end or in one place. *)
Sequence == INSTANCE PokemonSequence WITH
  team <- Shown, Creatures <- {creature \in Creatures : ~Empty(creature)}
ImplementsSequence == Sequence!Spec
=============================================================================
