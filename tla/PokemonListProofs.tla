------------------------- MODULE PokemonListProofs -------------------------
(***************************************************************************)
(* Theorems about parties and boxes of any capacity, with any number of    *)
(* species and names, that one caller at a time works on.                  *)
(***************************************************************************)
EXTENDS PokemonList, SequenceTheorems, TLAPS

NativeLists == [ entries : [Position -> Species \cup {NoSpecies}],
                 species : [Position -> Species \cup {NoSpecies, EggId}],
                 names : [Position -> Names \cup {NoName}],
                 count : 0..Capacity ]

(* The entries before the count, and no others, are Pokemon. *)
Filled(n) == \A i \in Position : i < n.count <=> n.entries[i] # NoSpecies

(* Loading a saved list wipes the remains and repairs the count.  This is  *)
(* the one place where the repaired count must be the right one.           *)
LEMMA WipedIsFilled ==
  ASSUME NEW n \in SavedLists
  PROVE  Wiped(n) \in NativeLists /\ Filled(Wiped(n))
<1> USE PokemonListAssumption DEF NoSpecies, Position
<1>1. n \in NativeLists
  BY DEF SavedLists, NativeLists
<1>2. PICK k \in 0..Capacity :
        /\ \A i \in Position : n.entries[i] # NoSpecies <=> i < k
        /\ RepairsCount \/ n.count <= k
  BY DEF SavedLists
<1>3. CountRepaired(n) = Smaller(n.count, k)
  <2>1. CASE n.count <= k
    <3>1. ~(RepairsCount /\ n.count > 0 /\ n.entries[n.count-1] = NoSpecies)
      BY <1>1, <1>2, <2>1 DEF NativeLists
    <3>2. QED
      BY <1>1, <2>1, <3>1 DEF CountRepaired, Smaller, NativeLists
  <2>2. CASE n.count > k
    <3>1. RepairsCount /\ n.count > 0 /\ n.entries[n.count-1] = NoSpecies
      BY <1>1, <1>2, <2>2 DEF NativeLists
    <3>2. k \in Position /\ n.entries[k] = NoSpecies /\ \A j \in 0..k-1 : n.entries[j] # NoSpecies
      BY <1>1, <1>2, <2>2 DEF NativeLists
    <3>3. \A i \in Position :
            n.entries[i] = NoSpecies /\ (\A j \in 0..i-1 : n.entries[j] # NoSpecies) => i = k
      BY <1>2, <3>2
    <3>4. (CHOOSE i \in Position :
             n.entries[i] = NoSpecies /\ \A j \in 0..i-1 : n.entries[j] # NoSpecies) = k
      BY <3>2, <3>3, Zenon
    <3>5. CountRepaired(n) = k
      BY <3>1, <3>4 DEF CountRepaired
    <3>6. QED
      BY <1>1, <2>2, <3>5 DEF Smaller, NativeLists
  <2>3. QED
    BY <1>1, <2>1, <2>2 DEF NativeLists
<1>4. Smaller(n.count, k) \in 0..Capacity
  BY <1>1 DEF Smaller, NativeLists
<1>5. Wiped(n) \in NativeLists
  BY <1>1, <1>3, <1>4 DEF Wiped, NativeLists
<1>6. Filled(Wiped(n))
  <2> SUFFICES ASSUME NEW i \in Position
               PROVE  i < Smaller(n.count, k) <=> Wiped(n).entries[i] # NoSpecies
    BY <1>3 DEF Filled, Wiped
  <2>1. Wiped(n).entries[i] =
          IF i >= n.count /\ n.entries[i] # NoSpecies THEN NoSpecies ELSE n.entries[i]
    BY DEF Wiped
  <2>2. QED
    BY <1>1, <1>2, <2>1 DEF Smaller, NativeLists
<1>7. QED
  BY <1>5, <1>6

(* The objects made from a native list have its species. *)
LEMMA ObjectsType ==
  ASSUME NEW n \in NativeLists
  PROVE  /\ Objects(n) \in [Position -> Creatures]
         /\ \A i \in Position : Objects(n)[i].species = n.entries[i]
BY PokemonListAssumption DEF Objects, NativeLists, Creatures

(* _to_native() writes a native list of the right shape. *)
LEMMA NativesType ==
  ASSUME NEW list \in [Position -> Creatures], NEW count \in 0..Capacity
  PROVE  /\ Natives(list, count) \in NativeLists
         /\ Natives(list, count).count = count
         /\ \A i \in Position : Natives(list, count).entries[i] = list[i].species
<1>1. \A i \in Position :
        /\ list[i].species \in Species \cup {NoSpecies}
        /\ ListedAs(list[i]) \in Species \cup {NoSpecies, EggId}
        /\ (IF i < count THEN list[i].name ELSE NoName) \in Names \cup {NoName}
  BY DEF Creatures, ListedAs
<1>2. QED
  BY <1>1 DEF Natives, NativeLists

(* A native list without remains stays as it is when it is loaded. *)
LEMMA WipedKeepsFilled ==
  ASSUME NEW n \in NativeLists, Filled(n)
  PROVE  Wiped(n) = n
<1> USE PokemonListAssumption DEF NoSpecies, Position
<1>1. CountRepaired(n) = n.count
  <2>1. ~(n.count > 0 /\ n.entries[n.count-1] = NoSpecies)
    BY DEF Filled, NativeLists
  <2>2. QED
    BY <2>1 DEF CountRepaired
<1>2. \A i \in Position : ~(i >= n.count /\ n.entries[i] # NoSpecies)
  BY DEF Filled, NativeLists
<1>3. Wiped(n) = [ entries |-> [i \in Position |-> n.entries[i]],
                   species |-> [i \in Position |-> n.species[i]],
                   names |-> [i \in Position |-> n.names[i]],
                   count |-> n.count ]
  BY <1>1, <1>2 DEF Wiped
<1>4. QED
  BY <1>3 DEF NativeLists

-----------------------------------------------------------------------------
(* What is inductive when one caller at a time works on the list: it is    *)
(* contiguous, and what set_pokemon() has read before it got the mutex is  *)
(* still so.  With two callers that part fails.  Only Generation II has    *)
(* eggs, which a reload could not restore elsewhere.                       *)
SoleCaller == \A t, u \in Threads : t = u

PendingCallIsCurrent ==
  \A t \in Threads : call[t] # Idle =>
    /\ call[t].numPokemon = native.count
    /\ call[t].index <= native.count
    /\ ~(call[t].index < native.count - 1 /\ Empty(call[t].pokemon))

EggsAreGen2 == \A i \in Position : pokemonList[i].egg => HasEggs

IInv == TypeOK /\ Contiguous /\ PendingCallIsCurrent /\ EggsAreGen2

LEMMA InitInvariant == Init => IInv
<1> SUFFICES ASSUME Init PROVE IInv
  OBVIOUS
<1>1. native \in NativeLists /\ Filled(native)
  BY WipedIsFilled DEF Init
<1>2. pokemonList \in [Position -> Creatures] /\ \A i \in Position : pokemonList[i].species = native.entries[i]
  BY <1>1, ObjectsType DEF Init
<1>3. \A i \in Position : ~Empty(pokemonList[i]) => pokemonList[i].species \in Species
  BY <1>2 DEF Empty, Creatures
<1>4. caught \in SUBSET Species /\ seen \in SUBSET Species
  BY <1>3 DEF Init
<1>5. call \in [Threads -> {Idle}]
  BY DEF Init
<1>6. TypeOK
  BY <1>1, <1>2, <1>4, <1>5 DEF TypeOK, NativeLists
<1>7. Contiguous
  BY <1>1, <1>2 DEF Contiguous, Filled, Empty
<1>8. PendingCallIsCurrent
  BY <1>5 DEF PendingCallIsCurrent
<1>9. EggsAreGen2
  BY DEF Init, Objects, EggsAreGen2
<1>10. QED
  BY <1>6, <1>7, <1>8, <1>9 DEF IInv

(* set_pokemon() keeps the list contiguous because its reading of the      *)
(* count is current: it replaces, appends, or takes the last one away.     *)
LEMMA SetPokemonKeepsContiguous ==
  ASSUME IInv, SoleCaller, NEW t \in Threads, SetPokemon(t)
  PROVE  IInv'
<1> USE PokemonListAssumption
<1> DEFINE c == call[t]
<1>1. c \in [op : {"set"}, index : Position, pokemon : Offered, numPokemon : 0..Capacity]
  BY DEF IInv, TypeOK, SetPokemon
<1>2. c.pokemon \in Creatures /\ c.pokemon.species \in Species \cup {NoSpecies}
      /\ [c.pokemon EXCEPT !.egg = FALSE] \in Creatures
      /\ [c.pokemon EXCEPT !.egg = FALSE].species = c.pokemon.species
      /\ ListedAs(c.pokemon) \in Species \cup {NoSpecies, EggId}
      /\ c.pokemon.name \in Names
  BY <1>1 DEF Creatures, ListedAs
<1>3. /\ c.numPokemon = native.count
      /\ c.index <= native.count
      /\ ~(c.index < native.count - 1 /\ Empty(c.pokemon))
  BY DEF IInv, PendingCallIsCurrent, SetPokemon
<1>4. native \in NativeLists
  BY DEF IInv, TypeOK, NativeLists
<1>5. CountAfter(c) \in 0..Capacity
  BY <1>1, <1>3, <1>4 DEF CountAfter, NativeLists, Position
<1>6. /\ native' \in NativeLists
      /\ native'.count = CountAfter(c)
      /\ native'.entries = [native.entries EXCEPT ![c.index] = c.pokemon.species]
  BY <1>1, <1>2, <1>4, <1>5 DEF SetPokemon, NativeLists
<1>7. /\ pokemonList' \in [Position -> Creatures]
      /\ \A i \in Position : pokemonList'[i].species =
           IF i = c.index THEN c.pokemon.species ELSE pokemonList[i].species
  BY <1>1, <1>2 DEF SetPokemon, IInv, TypeOK
<1>8. seen' \in SUBSET Species /\ caught' \in SUBSET Species
  BY <1>2 DEF SetPokemon, RegisterPokemon, Register!Catch, Empty, IInv, TypeOK
<1>9. call' \in [Threads -> {Idle}]
  BY DEF SetPokemon, SoleCaller, IInv, TypeOK
<1>10. TypeOK'
  BY <1>6, <1>7, <1>8, <1>9 DEF TypeOK, NativeLists
<1>11. Contiguous'
  <2> SUFFICES ASSUME NEW i \in Position
               PROVE  /\ i < CountAfter(c) <=> pokemonList'[i].species # NoSpecies
                      /\ native'.entries[i] = pokemonList'[i].species
    BY <1>6 DEF Contiguous, Empty
  <2>1. /\ i < native.count <=> pokemonList[i].species # NoSpecies
        /\ native.entries[i] = pokemonList[i].species
    BY DEF IInv, Contiguous, Empty
  <2>2. native'.entries[i] = pokemonList'[i].species
    BY <1>1, <1>4, <1>6, <1>7, <2>1 DEF NativeLists
  <2>3. CASE i = c.index
    BY <1>1, <1>3, <1>4, <1>7, <2>2, <2>3 DEF CountAfter, Empty, NativeLists, Position
  <2>4. CASE i # c.index
    BY <1>1, <1>3, <1>4, <1>7, <2>1, <2>2, <2>4 DEF CountAfter, Empty, NativeLists, Position
  <2>5. QED
    BY <2>3, <2>4
<1>12. PendingCallIsCurrent'
  BY <1>9 DEF PendingCallIsCurrent
<1>13. EggsAreGen2'
  BY <1>1 DEF SetPokemon, IInv, TypeOK, EggsAreGen2
<1>14. QED
  BY <1>10, <1>11, <1>12, <1>13 DEF IInv

(* Saving and loading changes nothing that the invariant speaks of: the    *)
(* list has no remains, so nothing is wiped and no count is repaired.      *)
LEMMA ReloadedNatives ==
  ASSUME IInv
  PROVE  LET n == Natives(pokemonList, native.count)
         IN  Wiped(n) = n /\ n \in NativeLists /\ Filled(n) /\ n.count = native.count
<1> DEFINE n == Natives(pokemonList, native.count)
<1>1. native.count \in 0..Capacity /\ pokemonList \in [Position -> Creatures]
  BY DEF IInv, TypeOK
<1>2. /\ n \in NativeLists
      /\ n.count = native.count
      /\ \A i \in Position : n.entries[i] = pokemonList[i].species
  BY <1>1, NativesType
<1>3. Filled(n)
  BY <1>2 DEF IInv, Contiguous, Filled, Empty
<1>4. QED
  BY <1>2, <1>3, WipedKeepsFilled

LEMMA StepInvariant ==
  ASSUME SoleCaller, IInv, [Next]_vars
  PROVE  IInv'
<1> USE PokemonListAssumption
<1>1. ASSUME NEW t \in Threads, NEW index \in Position, NEW creature \in Offered,
             BeginSetPokemon(t, index, creature)
      PROVE  IInv'
  <2>1. native.count \in 0..Capacity
    BY DEF IInv, TypeOK
  <2>2. index <= native.count
    BY <1>1, <2>1 DEF BeginSetPokemon, Smaller, Position
  <2>3. call' = [u \in Threads |-> [op |-> "set", index |-> index, pokemon |-> creature,
                                    numPokemon |-> native.count]]
    BY <1>1, SoleCaller DEF BeginSetPokemon, SoleCaller, IInv, TypeOK
  <2>4. TypeOK'
    BY <1>1, <2>1, <2>3 DEF BeginSetPokemon, IInv, TypeOK
  <2>5. Contiguous'
    BY <1>1 DEF BeginSetPokemon, IInv, Contiguous
  <2>6. PendingCallIsCurrent'
    BY <1>1, <2>2, <2>3 DEF BeginSetPokemon, PendingCallIsCurrent
  <2>7. EggsAreGen2'
    BY <1>1 DEF BeginSetPokemon, IInv, EggsAreGen2
  <2>8. QED
    BY <2>4, <2>5, <2>6, <2>7 DEF IInv
<1>2. ASSUME NEW t \in Threads, RefusePokemon(t)
      PROVE  IInv'
  <2>1. TypeOK' /\ Contiguous' /\ EggsAreGen2'
    BY <1>2 DEF RefusePokemon, IInv, TypeOK, Contiguous, EggsAreGen2
  <2>2. PendingCallIsCurrent'
    BY <1>2 DEF RefusePokemon, IInv, TypeOK, PendingCallIsCurrent
  <2>3. QED
    BY <2>1, <2>2 DEF IInv
<1>3. ASSUME NEW t \in Threads, SetPokemon(t)
      PROVE  IInv'
  BY <1>3, SetPokemonKeepsContiguous
<1>4. ASSUME pokemonList' \in [Position -> Creatures],
             \A i \in Position : pokemonList'[i].species = pokemonList[i].species,
             EggsAreGen2',
             UNCHANGED <<native, seen, caught, call>>
      PROVE  IInv'
  BY <1>4 DEF IInv, TypeOK, Contiguous, PendingCallIsCurrent, Empty
<1>5. ASSUME NEW index \in Position, NEW name \in Names, SetNickname(index, name)
      PROVE  IInv'
  <2>1. [pokemonList[index] EXCEPT !.name = name] \in Creatures
    BY DEF IInv, TypeOK, Creatures
  <2>2. QED
    BY <1>4, <1>5, <2>1 DEF SetNickname, IInv, TypeOK, EggsAreGen2
<1>6. ASSUME NEW index \in Position, NEW egg \in BOOLEAN, SetIsEgg(index, egg)
      PROVE  IInv'
  <2>1. [pokemonList[index] EXCEPT !.egg = egg] \in Creatures
    BY DEF IInv, TypeOK, Creatures
  <2>2. QED
    BY <1>4, <1>6, <2>1 DEF SetIsEgg, IInv, TypeOK, EggsAreGen2
<1>7. ASSUME NEW species \in Species, ClearPokedex(species)
      PROVE  IInv'
  <2>1. seen' \in SUBSET Species /\ caught' \in SUBSET Species
    BY <1>7 DEF ClearPokedex, Register!Unsee, IInv, TypeOK
  <2>2. QED
    BY <1>7, <2>1 DEF ClearPokedex, IInv, TypeOK, Contiguous, PendingCallIsCurrent, EggsAreGen2
<1>8. ASSUME native' \in NativeLists, native'.count = native.count,
             \A i \in Position : native'.entries[i] = pokemonList'[i].species,
             Filled(native'),
             pokemonList' \in [Position -> Creatures],
             EggsAreGen2',
             UNCHANGED <<seen, caught, call>>
      PROVE  IInv'
  <2>1. TypeOK'
    BY <1>8 DEF IInv, TypeOK, NativeLists
  <2>2. Contiguous'
    BY <1>8 DEF Contiguous, Filled, Empty
  <2>3. PendingCallIsCurrent'
    BY <1>8 DEF IInv, PendingCallIsCurrent
  <2>4. QED
    BY <1>8, <2>1, <2>2, <2>3 DEF IInv
<1>9. CASE GetNative
  <2>1. /\ native' \in NativeLists /\ native'.count = native.count
        /\ \A i \in Position : native'.entries[i] = pokemonList[i].species
    BY <1>9, NativesType DEF GetNative, IInv, TypeOK
  <2>2. Filled(native')
    BY <1>9, ReloadedNatives DEF GetNative
  <2>3. QED
    BY <1>8, <1>9, <2>1, <2>2 DEF GetNative, IInv, TypeOK, EggsAreGen2
<1>10. CASE SaveAndReload
  <2>1. native' \in NativeLists /\ Filled(native') /\ native'.count = native.count
    BY <1>10, ReloadedNatives DEF SaveAndReload
  <2>2. /\ pokemonList' \in [Position -> Creatures]
        /\ \A i \in Position : native'.entries[i] = pokemonList'[i].species
    BY <1>10, <2>1, ObjectsType DEF SaveAndReload
  <2>3. EggsAreGen2'
    BY <1>10 DEF SaveAndReload, Objects, EggsAreGen2
  <2>4. QED
    BY <1>8, <1>10, <2>1, <2>2, <2>3 DEF SaveAndReload
<1>11. CASE UNCHANGED vars
  BY <1>11 DEF vars, IInv, TypeOK, Contiguous, PendingCallIsCurrent, EggsAreGen2
<1>12. QED
  BY <1>1, <1>2, <1>3, <1>5, <1>6, <1>7, <1>9, <1>10, <1>11 DEF Next

(* A party or box that one caller at a time works on is contiguous: its    *)
(* Pokemon, and the entries of its native list, are those before the count *)
(* ("Parties store Pokemon contiguously").                                 *)
THEOREM ListIsContiguous == SoleCaller => (Spec => []Contiguous)
<1>1. ASSUME SoleCaller PROVE IInv /\ [Next]_vars => IInv'
  BY <1>1, StepInvariant
<1>2. IInv => Contiguous
  BY DEF IInv
<1>3. SUFFICES ASSUME SoleCaller PROVE Spec => []Contiguous
  OBVIOUS
<1>4. QED
  BY <1>1, <1>2, <1>3, InitInvariant, PTL DEF Spec

(* Its state keeps its types; in particular the count, one byte in the     *)
(* native list, never leaves 0..Capacity.                                  *)
THEOREM ListTypeCorrect == SoleCaller => (Spec => []TypeOK)
<1>1. ASSUME SoleCaller PROVE IInv /\ [Next]_vars => IInv'
  BY <1>1, StepInvariant
<1>2. IInv => TypeOK
  BY DEF IInv
<1>3. SUFFICES ASSUME SoleCaller PROVE Spec => []TypeOK
  OBVIOUS
<1>4. QED
  BY <1>1, <1>2, <1>3, InitInvariant, PTL DEF Spec
(* Loading undoes saving, for every list. *)
LEMMA ReloadShows ==
  ASSUME IInv, SaveAndReload
  PROVE  Shown' = Shown
<1> USE PokemonListAssumption
<1>1. native' = Natives(pokemonList, native.count) /\ native'.count = native.count
  BY ReloadedNatives DEF SaveAndReload
<1>2. ASSUME NEW i \in Position, i < native.count
      PROVE  pokemonList'[i] = pokemonList[i]
  <2>1. pokemonList[i] \in Creatures /\ pokemonList[i].species # EggId
    BY DEF IInv, TypeOK, Creatures, Species, EggId, NoSpecies
  <2>2. /\ native'.entries[i] = pokemonList[i].species
        /\ native'.species[i] = ListedAs(pokemonList[i])
        /\ native'.names[i] = pokemonList[i].name
    BY <1>1, <1>2 DEF Natives
  <2>3. pokemonList'[i] = [species |-> pokemonList[i].species,
                           egg |-> HasEggs /\ ListedAs(pokemonList[i]) = EggId,
                           name |-> pokemonList[i].name]
    BY <2>1, <2>2 DEF SaveAndReload, Objects, Creatures
  <2>4. (HasEggs /\ ListedAs(pokemonList[i]) = EggId) = pokemonList[i].egg
    BY <2>1 DEF IInv, EggsAreGen2, ListedAs, Creatures
  <2>5. QED
    BY <2>1, <2>3, <2>4 DEF Creatures
<1>3. \A j \in 1..native.count : j - 1 \in Position /\ j - 1 < native.count
  BY DEF IInv, TypeOK, Position
<1>4. QED
  BY <1>1, <1>2, <1>3 DEF Shown

(* A save that is written and loaded again shows the same Pokemon, names   *)
(* and eggs: _from_native() undoes _to_native() for every list.            *)
THEOREM ReloadRestoresList == SoleCaller => (Spec => ReloadKeepsPokemon)
<1>1. ASSUME IInv, SaveAndReload PROVE Shown' = Shown
  BY <1>1, ReloadShows
<1>2. ASSUME SoleCaller PROVE IInv /\ [Next]_vars => IInv'
  BY <1>2, StepInvariant
<1>3. IInv => [SaveAndReload => Shown' = Shown]_vars
  BY <1>1
<1>4. SUFFICES ASSUME SoleCaller PROVE Spec => ReloadKeepsPokemon
  OBVIOUS
<1>5. QED
  BY <1>2, <1>3, <1>4, InitInvariant, PTL DEF Spec, ReloadKeepsPokemon

-----------------------------------------------------------------------------
(* The Pokedex.  Whatever a step makes of the list, a Pokemon in it that   *)
(* is no egg was there before, and no egg, or was caught, or hatched.      *)
EggsListed == {pokemonList[i].species : i \in {j \in Position : pokemonList[j].egg}}
EggsPending == {call[t].pokemon.species : t \in {u \in Threads : call[u] # Idle /\ call[u].pokemon.egg}}

LEMMA OwnPlacesEscapeNot ==
  ASSUME \A i \in Position : pokemonList'[i].species = pokemonList[i].species
  PROVE  Unregistered' \subseteq Unregistered \cup (caught \ caught') \cup EggsListed
BY DEF Unregistered, EggsListed

LEMMA SetPokemonEscapes ==
  ASSUME IInv, NEW t \in Threads, SetPokemon(t)
  PROVE  Unregistered' \subseteq Unregistered \cup (caught \ caught') \cup EggsPending
<1> DEFINE c == call[t]
<1>1. c \in [op : {"set"}, index : Position, pokemon : Offered, numPokemon : 0..Capacity] /\ c # Idle
  BY DEF IInv, TypeOK, SetPokemon
<1>2. c.pokemon \in Creatures
  BY <1>1, PokemonListAssumption
<1>3. \A i \in Position : pokemonList'[i] = IF i = c.index THEN [c.pokemon EXCEPT !.egg = FALSE] ELSE pokemonList[i]
  BY <1>1 DEF SetPokemon, IInv, TypeOK
<1>4. [c.pokemon EXCEPT !.egg = FALSE].species = c.pokemon.species
  BY <1>2 DEF Creatures
<1>5. c.pokemon.species \in Species => c.pokemon.egg \/ c.pokemon.species \in caught'
  BY DEF SetPokemon, RegisterPokemon, Register!Catch, Empty, Species, NoSpecies
<1>6. c.pokemon.egg => c.pokemon.species \in EggsPending
  BY <1>1 DEF EggsPending
<1> HIDE DEF c
<1>7. ASSUME NEW species \in Species \ caught', NEW i \in Position,
             pokemonList'[i].species = species, ~pokemonList'[i].egg
      PROVE  species \in Unregistered \cup (caught \ caught') \cup EggsPending
  <2>1. CASE i = c.index
    BY <1>3, <1>4, <1>5, <1>6, <1>7, <2>1
  <2>2. CASE i # c.index
    BY <1>3, <1>7, <2>2 DEF Unregistered
  <2> QED
    BY <2>1, <2>2
<1> QED
  BY <1>7 DEF Unregistered

LEMMA ReloadKeepsSpecies ==
  ASSUME IInv, SaveAndReload
  PROVE  \A i \in Position : pokemonList'[i].species = pokemonList[i].species
<1>1. native.count \in 0..Capacity /\ pokemonList \in [Position -> Creatures]
  BY DEF IInv, TypeOK
<1>2. /\ native' \in NativeLists /\ native' = Natives(pokemonList, native.count)
      /\ pokemonList' = Objects(native')
  BY ReloadedNatives DEF SaveAndReload
<1>3. \A i \in Position : native'.entries[i] = pokemonList[i].species
  BY <1>1, <1>2, NativesType
<1> QED
  BY <1>2, <1>3, ObjectsType

LEMMA StepEscapes ==
  ASSUME IInv, Next
  PROVE  Unregistered' \subseteq Unregistered \cup (caught \ caught') \cup EggsListed \cup EggsPending
<1>1. ASSUME NEW t \in Threads, NEW index \in Position, NEW creature \in Offered,
             BeginSetPokemon(t, index, creature) \/ RefusePokemon(t)
      PROVE  pokemonList' = pokemonList
  BY <1>1 DEF BeginSetPokemon, RefusePokemon
<1>2. ASSUME NEW t \in Threads, SetPokemon(t)
      PROVE  Unregistered' \subseteq Unregistered \cup (caught \ caught') \cup EggsPending
  BY <1>2, SetPokemonEscapes
<1>3. ASSUME NEW index \in Position, NEW name \in Names, SetNickname(index, name)
      PROVE  \A i \in Position : pokemonList'[i].species = pokemonList[i].species
  BY <1>3 DEF SetNickname, IInv, TypeOK, Creatures
<1>4. ASSUME NEW index \in Position, NEW egg \in BOOLEAN, SetIsEgg(index, egg)
      PROVE  \A i \in Position : pokemonList'[i].species = pokemonList[i].species
  BY <1>4 DEF SetIsEgg, IInv, TypeOK, Creatures
<1>5. CASE (\E species \in Species : ClearPokedex(species)) \/ GetNative
  <2>1. pokemonList' = pokemonList
    BY <1>5 DEF ClearPokedex, GetNative
  <2> QED
    BY <2>1, OwnPlacesEscapeNot
<1>6. CASE SaveAndReload
  BY <1>6, ReloadKeepsSpecies, OwnPlacesEscapeNot
<1>7. CASE \E t \in Threads : RefusePokemon(t)
  <2>1. pokemonList' = pokemonList
    BY <1>7 DEF RefusePokemon
  <2> QED
    BY <2>1, OwnPlacesEscapeNot
<1> QED
  BY <1>1, <1>2, <1>3, <1>4, <1>5, <1>6, <1>7, OwnPlacesEscapeNot DEF Next

(* No Pokemon of the list but an egg escapes the Pokedex, however it is    *)
(* put in, taken out, saved and loaded.                                    *)
THEOREM EscapeTheorem == SoleCaller => (Spec => OnlyEggsEscapeThePokedex)
<1>1. ASSUME SoleCaller PROVE IInv /\ [Next]_vars => IInv'
  BY <1>1, StepInvariant
<1>2. IInv /\ [Next]_vars =>
        [Unregistered' \subseteq Unregistered \cup (caught \ caught') \cup EggsListed \cup EggsPending]_vars
  BY StepEscapes
<1>3. SUFFICES ASSUME SoleCaller PROVE Spec => OnlyEggsEscapeThePokedex
  OBVIOUS
<1>4. QED
  BY <1>1, <1>2, <1>3, InitInvariant, PTL DEF Spec, OnlyEggsEscapeThePokedex, EggsListed, EggsPending

-----------------------------------------------------------------------------
(* The refinement.  A list that is contiguous is a sequence.               *)
Team == {creature \in Creatures : ~Empty(creature)}

ShownAs(list, count) == [i \in 1..count |-> list[i-1]]

LEMMA FilledIsATeam ==
  ASSUME NEW list \in [Position -> Creatures], NEW count \in 0..Capacity,
         \A i \in Position : i < count <=> ~Empty(list[i])
  PROVE  /\ ShownAs(list, count) \in [1..count -> Team]
         /\ ShownAs(list, count) \in Seq(Team) /\ Len(ShownAs(list, count)) = count
         /\ \A i \in 1..count : i-1 \in Position /\ ShownAs(list, count)[i] = list[i-1]
<1>1. \A i \in 1..count : i-1 \in Position /\ i-1 < count
  BY PokemonListAssumption DEF Position
<1>2. \A i \in 1..count : list[i-1] \in Team
  BY <1>1 DEF Team
<1>3. ShownAs(list, count) \in [1..count -> Team]
  BY <1>2 DEF ShownAs
<1>4. count \in Nat
  BY PokemonListAssumption
<1>5. ShownAs(list, count) \in Seq(Team) /\ Len(ShownAs(list, count)) = count
  BY <1>3, <1>4
<1> QED
  BY <1>1, <1>3, <1>5 DEF ShownAs

IsATeam(team, list, count) ==
  /\ count \in 0..Capacity /\ count \in Nat
  /\ team \in [1..count -> Team]
  /\ team \in Seq(Team) /\ Len(team) = count
  /\ \A i \in 1..count : i-1 \in Position /\ team[i] = list[i-1]

LEMMA ShownIsATeam ==
  ASSUME IInv
  PROVE  IsATeam(Shown, pokemonList, native.count)
<1>1. /\ native.count \in 0..Capacity /\ native.count \in Nat /\ pokemonList \in [Position -> Creatures]
      /\ \A i \in Position : i < native.count <=> ~Empty(pokemonList[i])
  BY PokemonListAssumption DEF IInv, TypeOK, Contiguous
<1>2. Shown = ShownAs(pokemonList, native.count)
  BY DEF Shown, ShownAs
<1> QED
  BY <1>1, <1>2, FilledIsATeam DEF IsATeam

LEMMA ShownIsATeamNext ==
  ASSUME IInv'
  PROVE  IsATeam(Shown', pokemonList', native'.count)
<1>1. /\ native'.count \in 0..Capacity /\ native'.count \in Nat /\ pokemonList' \in [Position -> Creatures]
      /\ \A i \in Position : i < native'.count <=> ~Empty(pokemonList'[i])
  BY PokemonListAssumption DEF IInv, TypeOK, Contiguous, Empty
<1>2. Shown' = ShownAs(pokemonList', native'.count)
  BY DEF Shown, ShownAs
<1> QED
  BY <1>1, <1>2, FilledIsATeam DEF IsATeam

(* One place of the list changes, and no place begins or ends to be empty. *)
LEMMA OnePlaceReplaces ==
  ASSUME IInv, IInv', native'.count = native.count, NEW index \in Position,
         \A i \in Position : i # index => pokemonList'[i] = pokemonList[i]
  PROVE  [Sequence!Next]_Shown
<1>0. /\ native.count \in 0..Capacity /\ native.count \in Nat
      /\ Shown \in [1..native.count -> Team]
      /\ \A i \in 1..native.count : i-1 \in Position /\ Shown[i] = pokemonList[i-1]
  BY ShownIsATeam DEF IsATeam
<1>1. /\ Shown' \in [1..native.count -> Team]
      /\ \A i \in 1..native.count : Shown'[i] = pokemonList'[i-1]
  BY ShownIsATeamNext DEF IsATeam
<1>2. CASE index < native.count
  <2>1. index + 1 \in 1..native.count
    BY <1>0, <1>2, PokemonListAssumption DEF Position
  <2>2. \A i \in 1..native.count : i # index + 1 => Shown'[i] = Shown[i]
    BY <1>0, <1>1, PokemonListAssumption DEF Position
  <2>3. Shown' = [Shown EXCEPT ![index + 1] = Shown'[index + 1]] /\ Shown'[index + 1] \in Team
    BY <1>0, <1>1, <2>1, <2>2
  <2>4. index + 1 \in DOMAIN Shown
    BY <1>0, <2>1
  <2>5. Sequence!Replace(index + 1, Shown'[index + 1])
    BY <2>3 DEF Sequence!Replace
  <2> QED
    BY <2>3, <2>4, <2>5 DEF Sequence!Next, Team
<1>3. CASE ~(index < native.count)
  <2>1. \A i \in 1..native.count : i - 1 # index
    BY <1>0, <1>3, PokemonListAssumption DEF Position
  <2>2. \A i \in 1..native.count : Shown'[i] = Shown[i]
    BY <1>0, <1>1, <2>1
  <2>3. Shown' = Shown
    BY <1>0, <1>1, <2>2
  <2> QED
    BY <2>3
<1> QED
  BY <1>2, <1>3

LEMMA SameListStutters ==
  ASSUME IInv, native'.count = native.count, pokemonList' = pokemonList
  PROVE  Shown' = Shown
BY DEF Shown

LEMMA SetPokemonImplements ==
  ASSUME IInv, IInv', NEW t \in Threads, SetPokemon(t)
  PROVE  [Sequence!Next]_Shown
<1> USE PokemonListAssumption
<1> DEFINE c == call[t]
           new == [c.pokemon EXCEPT !.egg = FALSE]
<1>1. c \in [op : {"set"}, index : Position, pokemon : Offered, numPokemon : 0..Capacity]
  BY DEF IInv, TypeOK, SetPokemon
<1>2. c.pokemon \in Creatures /\ new \in Creatures /\ new.species = c.pokemon.species
  BY <1>1 DEF Creatures
<1>3. /\ c.numPokemon = native.count /\ c.index <= native.count
      /\ ~(c.index < native.count - 1 /\ Empty(c.pokemon))
  BY DEF IInv, PendingCallIsCurrent, SetPokemon
<1>4. /\ pokemonList' = [pokemonList EXCEPT ![c.index] = new]
      /\ native'.count = CountAfter(c)
  BY DEF SetPokemon, IInv, TypeOK
<1>5. \A i \in Position : pokemonList'[i] = IF i = c.index THEN new ELSE pokemonList[i]
  BY <1>1, <1>4 DEF IInv, TypeOK
<1>6. IsATeam(Shown, pokemonList, native.count) /\ IsATeam(Shown', pokemonList', native'.count)
  BY ShownIsATeam, ShownIsATeamNext
<1> HIDE DEF c, new
<1>7. CASE c.index = native.count /\ ~Empty(c.pokemon)
  <2>1. native'.count = native.count + 1 /\ native.count < Capacity
    BY <1>1, <1>3, <1>4, <1>6, <1>7 DEF CountAfter, Position, IsATeam
  <2>2. new \in Team
    BY <1>2, <1>7 DEF Team, Empty
  <2>3. \A i \in 1..native.count : Shown'[i] = Shown[i]
    <3>1. \A i \in 1..native.count : i-1 # c.index /\ i \in 1..native'.count
      BY <1>6, <1>7, <2>1 DEF IsATeam
    <3>2. \A i \in 1..native.count : Shown'[i] = pokemonList'[i-1] /\ Shown[i] = pokemonList[i-1] /\ i-1 \in Position
      BY <1>6, <3>1 DEF IsATeam
    <3> QED
      BY <1>5, <3>1, <3>2
  <2>4. Shown'[native.count + 1] = new
    BY <1>1, <1>5, <1>6, <1>7, <2>1 DEF IsATeam
  <2>5. /\ Append(Shown, new) \in Seq(Team) /\ Len(Append(Shown, new)) = native.count + 1
        /\ \A i \in 1..native.count : Append(Shown, new)[i] = Shown[i]
        /\ Append(Shown, new)[native.count + 1] = new
    BY <1>6, <2>2, AppendProperties DEF IsATeam
  <2>6. \A i \in 1..native.count + 1 : i \in 1..native.count \/ i = native.count + 1
    BY <1>6 DEF IsATeam
  <2>7. \A i \in 1..native.count + 1 : Shown'[i] = Append(Shown, new)[i]
    BY <2>3, <2>4, <2>5, <2>6
  <2>8. Shown' = Append(Shown, new)
    BY <1>6, <2>1, <2>5, <2>7, SeqEqual DEF IsATeam
  <2>9. Sequence!Join(new)
    BY <1>6, <2>1, <2>8 DEF Sequence!Join, IsATeam
  <2> QED
    BY <2>2, <2>9 DEF Sequence!Next, Team
<1>8. CASE c.index = native.count - 1 /\ Empty(c.pokemon)
  <2>1. native'.count = native.count - 1 /\ native.count > 0
    BY <1>1, <1>3, <1>4, <1>6, <1>8 DEF CountAfter, Position, IsATeam
  <2>2. \A i \in 1..native.count - 1 : Shown'[i] = Shown[i]
    BY <1>1, <1>5, <1>6, <1>8, <2>1 DEF IsATeam
  <2>3. \A i \in 1..native.count - 1 : Shown[i] \in Team
    BY <1>6, <2>1 DEF IsATeam
  <2> DEFINE shorter == SubSeq(Shown, 1, native.count - 1)
  <2>4. /\ shorter \in Seq(Team) /\ Len(shorter) = native.count - 1
        /\ \A i \in 1..native.count - 1 : shorter[i] = Shown[i]
    BY <1>6, <2>1, <2>3, SubSeqProperties DEF IsATeam
  <2> HIDE DEF shorter
  <2>5. Shown' = shorter
    BY <1>6, <2>1, <2>2, <2>4, SeqEqual DEF IsATeam
  <2>6. Shown # <<>> /\ Len(Shown) = native.count
    BY <1>6, <2>1 DEF IsATeam
  <2>7. Sequence!LastLeaves
    BY <2>5, <2>6 DEF Sequence!LastLeaves, shorter
  <2> QED
    BY <2>7 DEF Sequence!Next
<1>9. CASE ~(c.index = native.count /\ ~Empty(c.pokemon)) /\ ~(c.index = native.count - 1 /\ Empty(c.pokemon))
  <2>1. native'.count = native.count
    BY <1>1, <1>3, <1>4, <1>6, <1>9 DEF CountAfter, IsATeam
  <2>2. \A i \in Position : i # c.index => pokemonList'[i] = pokemonList[i]
    BY <1>5
  <2> QED
    BY <1>1, <2>1, <2>2, OnePlaceReplaces
<1> QED
  BY <1>7, <1>8, <1>9

LEMMA StepImplements ==
  ASSUME IInv, IInv', Next
  PROVE  [Sequence!Next]_Shown
<1>1. CASE \E t \in Threads, index \in Position, creature \in Offered : BeginSetPokemon(t, index, creature)
  BY <1>1, SameListStutters DEF BeginSetPokemon
<1>2. CASE \E t \in Threads : RefusePokemon(t)
  BY <1>2, SameListStutters DEF RefusePokemon
<1>3. CASE \E t \in Threads : SetPokemon(t)
  BY <1>3, SetPokemonImplements
<1>4. ASSUME NEW index \in Position, NEW name \in Names, SetNickname(index, name)
      PROVE  [Sequence!Next]_Shown
  <2>1. native' = native /\ \A i \in Position : i # index => pokemonList'[i] = pokemonList[i]
    BY <1>4 DEF SetNickname, IInv, TypeOK
  <2> QED
    BY <2>1, OnePlaceReplaces
<1>5. ASSUME NEW index \in Position, NEW egg \in BOOLEAN, SetIsEgg(index, egg)
      PROVE  [Sequence!Next]_Shown
  <2>1. native' = native /\ \A i \in Position : i # index => pokemonList'[i] = pokemonList[i]
    BY <1>5 DEF SetIsEgg, IInv, TypeOK
  <2> QED
    BY <2>1, OnePlaceReplaces
<1>6. CASE \E species \in Species : ClearPokedex(species)
  BY <1>6, SameListStutters DEF ClearPokedex
<1>7. CASE GetNative
  <2>1. native'.count = native.count /\ pokemonList' = pokemonList
    BY <1>7, ReloadedNatives DEF GetNative
  <2> QED
    BY <2>1, SameListStutters
<1>8. CASE SaveAndReload
  BY <1>8, ReloadShows
<1> QED
  BY <1>1, <1>2, <1>3, <1>4, <1>5, <1>6, <1>7, <1>8 DEF Next

(* A list that one caller at a time works on is a sequence of Pokemon,     *)
(* which grows and shrinks at its end and changes in one place at a time.  *)
THEOREM SequenceTheorem == SoleCaller => (Spec => ImplementsSequence)
<1>1. Init => Sequence!Init
  <2> SUFFICES ASSUME Init PROVE Sequence!Init
    OBVIOUS
  <2>1. native.count \in 0..Capacity /\ Shown \in [1..native.count -> Team]
    BY InitInvariant, ShownIsATeam DEF IsATeam
  <2> QED
    BY <2>1 DEF Sequence!Init, Team
<1>2. IInv /\ IInv' /\ [Next]_vars => [Sequence!Next]_Shown
  <2>1. UNCHANGED vars => Shown' = Shown
    BY DEF vars, Shown
  <2> QED
    BY <2>1, StepImplements
<1>3. ASSUME SoleCaller PROVE IInv /\ [Next]_vars => IInv'
  BY <1>3, StepInvariant
<1>4. SUFFICES ASSUME SoleCaller PROVE Spec => ImplementsSequence
  OBVIOUS
<1>5. QED
  BY <1>1, <1>2, <1>3, <1>4, InitInvariant, PTL DEF Spec, ImplementsSequence, Sequence!Spec
=============================================================================
