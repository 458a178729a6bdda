# LibPKMN in TLA+

LibPKMN reads, edits and writes Pokémon saves. Its core is a family of objects
(a save and the party, boxes, bag, item lists and Pokédex it holds), each of
which keeps two representations of the same thing: what it shows to its caller,
and a *native* structure of the save format that a file is written from. Most of
what can go wrong is a disagreement between the two, or between two objects that
describe the same save. This directory models those objects, checks them with
TLC on small instances, and proves the most important statements with TLAPS for
instances of every size.

Paths below are relative to the repository's root (`lib/...` is `src/lib/...` in
`PROJECT.json`).

- [Inventory](#inventory) – the system and where each part is modelled
- [Modules](#modules) – how state and actions correspond to the code
- [Runs](#runs) – what TLC checks, the bounds, the fairness
- [Proofs](#proofs) – what TLAPS checks, from what, along which argument
- [Where the code differs](#where-the-code-differs) – from what it promises
- [Not modelled](#not-modelled) – what is left out, and why

To repeat the checks, in this directory:

    tlc -config MCNativeData.cfg MCNativeData # likewise for every .cfg
    tlapm ItemAndPokedexProofs.tla           # likewise for every module *Proofs

## Inventory

### Objects, state, operations

| Component | Code | State it keeps | Operations that change state | Modelled in |
|---|---|---|---|---|
| Pokédex | `pokedex_impl.cpp`, `pokedex_gb*`, `pokedex_gba*` | two bit buffers; two vectors with dirty flags | `set_has_seen`, `set_has_caught`, and the four queries, which rebuild vectors | `Pokedex` |
| Item list | `item_list_impl.cpp`, `_gbimpl.ipp`, `_modernimpl.cpp`, `_gcnimpl.cpp` | slots, number of items, native list | `add`, `remove`, `move`, `set_item`, construction over a native list | `ItemList` |
| Generation II pockets | `item_list_gen2_keyitemimpl.cpp`, `item_list_gen2_tmhmimpl.cpp` | the same, with a native list of another shape | the same, rewritten | `KeyItemPocket`, `TmhmPocket`, `Gen2Bag` |
| Item bag | `item_bag_impl.cpp` and four subclasses | its pockets, native copies of all of them | `add`, `remove`, `get_pockets`, `get_native` | `ItemBag`, `Gen2Bag` |
| Party, box | `pokemon_party_*`, `pokemon_box_*` | Pokémon objects; native data, names, species list, count | `set_pokemon`, `set_name`, `set_wallpaper`, `get_native`, construction | `PokemonList` (Generations I, II), `Gen3Save` |
| PC | `pokemon_pc_*` | boxes, names, the number of the current box | `get_native`, `get_box`, construction | `GameSave` (Generations I, II), `Gen3Save` |
| Save | `game_save_*` | the objects above, the buffer a file was read into, the path | `from_file`, `save`, `save_as`, trainer setters | `GameSave` (Generations I, II), `Gen3Save`; the options in `SaveOptions`, the trainer in `TrainerCard` |
| Pokémon | `pokemon_impl.cpp`, `pokemon_gen1impl.cpp`, ... | native data; IV, EV, stat, move maps; database entry | some sixty setters, `to_game` | `GBPokemon`, `GBAPokemon`, `GCNPokemon`, `Gen3Pokemon`; `PokemonOrigin`, `Awards` |
| Calculations, conversions | `calculations/`, `conversions/` | none | pure functions | operators of the modules of the Pokémon |
| Breeding | `breeding/` | none; the parents are callers' objects | pure functions | `Breeding` |
| Daycare | `daycare_*` | stored Pokémon, egg, marks of use | `set_levelup_pokemon`, `get_native`, construction | `Daycare` |
| Single-Pokémon files | `io/` | none | read, write | `PokemonOrigin` |
| Database | `database/`, `SQLiteCpp/` | a read-only SQLite file | queries | its answers are constants here |
| Native formats | `pksav/`, `pkmgc/`, two submodules | none of their own | bit and byte layouts | abstracted to records; the tables of options and wallpapers in `OptionTables`, `Gen3Save` |
| C API | `c/` | handles, each with a mutex and a last error | some three hundred functions around C++ calls | `CApi`, `CApiTables` |
| Other bindings | `swig/`, `qt/` | none of their own | one C++ call each | not modelled |

### How they interact

A **save** makes its party, PC, bag, item PC and Pokédex over parts of one buffer
and hands out shared pointers to them, so every object can be changed behind the
save's back; nothing tells the save. `save_as` pulls: it asks each object for its
native structure (`get_native`), copies it over the buffer, and writes the file.
A **PC** does the same with its boxes, a **bag** with its pockets. Parties and
boxes get a pointer to the save's **Pokédex** and push: `set_pokemon` registers
the newcomer. Parties, boxes and pockets hand out Pokémon and lists in the same
way.

Every object is a `boost::lockable` over a recursive mutex. Calls that need two
objects lock in the order container, Pokémon, Pokédex (`set_pokemon` holds the
list's mutex and the new Pokémon's, and calls the Pokédex last) or bag, pocket;
there is no call back from an inner object to an outer one, so these orders have
no cycle. What the mutexes do not cover is the interesting part:

- checks before the lock – `item_list_impl::move` and `set_item`,
  `set_pokemon` of parties and boxes read the number of entries first;
- copies after the unlock – `get_native` returns a pointer, and its caller copies
  what it points to when the mutex is free again;
- calls without a lock – `item_bag::get_pockets`, and of the options of a save the
  battle style and the battle scene.

A **Pokémon** that is traded or taken out of a save is a new object over a
converted structure: what the object knows and the structure does not is lost on
the way. The **options** of a save share bytes of the buffer, which their setters
read, change and write back.

### What is hard

1. *Two representations*: native lists that are updated slot by slot, or only in
   `get_native`; vectors that are only rebuilt when a flag is up; the current box,
   which is in the save twice; a constructor that restores one half of the state.
2. *Boundaries*: a list that is full, an item at its maximum, one-byte counts, the
   position behind the last entry, counts in a save that are wrong.
3. *Order of calls*: setters that reach into one another (seen and caught), moves
   made of an erase and an insert, an egg that hatches after it was put away.
4. *Several callers*: the gaps in the locking above; several options in one byte.
5. *Failure*: an item or Pokémon that is refused half-way, a file that cannot be
   written.
6. *One number with several meanings*: gender, shininess, form and IVs in 16 bits;
   nature, gender, shininess, ability and form in 32. A setter of one of them has to
   find a number that leaves the others alone, or moves them.
7. *Small numbers*: six bits for PP, one byte for PP Ups and counts, a level that is
   0 on one side and 1 on the other, IVs whose best value turns at 8.

`PROJECT.json` lists these as hazards at their lines, with the properties that
would catch each going wrong.

### What makes each component correct

- **Pokédex**: no query answers from an outdated vector; no call makes a species
  caught and unseen.
- **Item list**: distinct items without gaps, a count that is their number,
  amounts in 1..99, a native list that equals what is shown, and nothing lost in
  a save.
- **Bag**: its native copy is whole and current when a call returns, and it is
  always released.
- **Party, box**: contiguous Pokémon, with a count that is their number; names and
  eggs survive a save; every Pokémon that is not an egg is in the Pokédex.
- **Save, PC**: a file shows, when it is loaded, what the objects showed when it was
  written, wherever the current box is; `save` goes to a file of this save, also
  after a write failed.
- **Options**: each is a register of its own, whatever byte it shares and whoever
  else calls.
- **Pokémon**: setting one trait keeps the others that share its bits; maps and
  structure agree; level, experience and stats agree; a trade keeps what both sides
  know, a file what the structure holds.
- **Trainer**: what was set is told again, by this object and by one that is loaded from
  its file, in each of nine layouts.
- **Daycare**: an object shows what the native structure has; storing a Pokémon leaves the
  other places alone; a save that is read again has every Pokémon that is marked.
- **Breeding**: a child is of its parents' line and in its game, hatches with moves
  it can learn; in Generation II and in Ruby no child has better IVs than the ideal one (of
  Emerald [this does not hold](#where-the-code-differs)).

## Modules

Each module's head says what it abstracts; `PROJECT.json` "map" gives the lines
of every definition. Definitions marked *Faulty variant* are plausible bugs in
the definition that follows them. They are in no specification; replacing the
right definition by its variant makes the named property fail, which shows that
the property depends on that code.

**`PokedexRegister`** is the Pokédex without caches: two sets and an answer.
**`Pokedex`** is the code: `seenBits`, `caughtBits` are the native buffers,
`allSeen`, `dirtySeen`, `allCaught`, `dirtyCaught` the vectors and flags of
`pokedex_impl`, `answer` what the last call returned. One action per public call;
a call holds the recursive mutex from end to end, including the nested call of
the other setter, so it is one step. `ImplementsRegister` is the refinement.

**`ItemInventory`** is what a list promises: how much of each item it holds.
**`ItemList`** is the code: `slots`, `numItems`, `native`, and `call`, what a
thread read before it took the lock. `Add` and `Remove` are one step; `move` and
`set_item` are two (`BeginMove`/`Move`, `BeginSetItem`/`SetItem` or
`RefuseSetItem`). `Reload` saves and constructs a new list. `NativeHasCount`
distinguishes the Game Boy lists, which store a count, from the later ones, which
do not. A count outside `0..Capacity` makes the C++ code index outside its
vector; the actions are not enabled there (`InBounds`), and `CountIsExact`, a part
of `ListIsWellFormed`, says when that cannot happen.

**`KeyItemPocket`** extends `ItemList` as its class extends `item_list_impl`, and
replaces three operations. **`TmhmPocket`** keeps one slot per machine.
**`Gen2Bag`** extends the key item pocket, composes it with an instance of the other and
adds the bag's native copy (`bagNative`).

**`ItemBag`** is about the mutexes: pockets, which callers also hold directly, and
the bag's copy of their native lists. A native list is two words, each of which
carries the number of the call that wrote it, so a torn or outdated copy can be
told from a good one. `at` is each thread's place in its call.

**`PokemonSequence`** is what a party promises: a sequence that one Pokémon joins
at the end, leaves at the end, or is replaced in. **`PokemonList`** is the code of
parties and boxes of Generations I and II: `pokemonList` the objects, `native`
the native list with data, species list, names and count, `seen` and `caught` the
Pokédex (through `PokedexRegister`, which the Pokédex implements). It covers the
repair of an unreliable count and the wiping of remains in the constructor
(`CountRepaired`, `Wiped`), the egg mark that exists only in the species list, the
names that are copied in `get_native`, the refusal of a conversion, calls on
objects that `get_pokemon` handed out (`SetNickname`, `SetIsEgg`), and saving and
loading.

**`GameSave`** is a save of Generation I or II with its PC: `objects` is what the
save's objects show, `buffer` the native save, `files` the disk, `filepath` the
path, `saving` the place of a running `save_as`, `putting` a `set_pokemon`
between its list and its Pokédex, `made` a history variable: what the objects
showed when each file was written. `save_as` is one step per object it collects,
two for a list (ask, then copy), and one for the write, which may fail. The
current box has a place of its own in the save and an outdated copy in the array,
and its number may be no box's. Inside, a list is a set of Pokémon and a bag is
the number of the call that changed it last, because their inner workings are the
other modules' subject.

**`GBPokemon`** is one Pokémon of Generation I or II. `pc` is the part of the native
structure that boxes keep, `party` the part that only a party has, `cache` what the
getters return: maps of IVs, EVs, stats and moves, the form. One action per setter;
each includes the refresh the setter ends with (`Repopulate`, `ReadIVs`,
`ReadStats`), which is where setters differ and forget things. `ToGame` converts the
structure and builds a new object, `FromPC` builds one over a boxed structure.

**`Gen3Native`** is what the classes of Generation III share: the structure, with the
personality as a set of bits, and what follows from it (nature, gender, shininess,
ability, letter). **`GBAPokemon`** and **`GCNPokemon`** are the two classes over it,
setter by setter, and **`Gen3Pokemon`** composes them with the conversions: a Pokémon
is an object of one of them at a time, and `ToGame` takes it to the other. A stat is
modelled by the level, IV and EV it was computed from, so that a stale one can be
told.

**`NativeRows`** is the form in which three modules say what many setters and
getters do: a *row* names the cell of the native structure that a trait is in, the
bits of it if it shares the cell, the values that the setter takes with their codes, and
what the getter tells of a code. **`PokemonOrigin`** has the rows of names, trainer IDs,
language, ball, friendship, Pokérus and the level, place and game of the capture, for four
classes: `class` and `game` of the object, `cells` its structure. `ToGame` carries the
traits into another class's structure, and a file of a single Pokémon the structure alone.
**`Awards`** has ribbons, markings, contest stats and obedience, one word on the GBA and
cells on the GameCube, with the maps that the object keeps beside them. **`TrainerCard`**
has the rows of a save: name, IDs, gender, rival, money, coins and the time played, for nine
types of save. `LoadCard` is `from_file`, which guesses from the file's name which of two
games a save is of.

**`Daycare`** is a daycare of one of three classes: `native` the structures and what
lies beside them, `marks` the marks of use, `shown` the objects. A game that plays on
the same memory is one of the actors.

**`Breeding`** translates `breeding/`: `Compatible`, `PossibleChildren`, `ChildMoves` and
the ideal IVs are operators; `mother` and `father` are objects that callers change
between two questions, `answer` is the last answer. The properties compare the
answers with definitions of what is best or allowed that share nothing with the
way the code computes it: where the code takes the three highest of a map one after
the other, `RubyIVsAreBest` looks at every child there could be. In Emerald an undefined
call makes the ideal IVs a set of possible answers (`EmeraldIVs`), of which a caller gets one.

**`Gen3Save`** is a save of Generation III with its party, PC and Pokédex: `lists` the
objects in the places, `natives` the structures of party and boxes, `count` the
party's count, `held` what a caller's variable refers to, `buffer`, `files`,
`filepath` and `made` as in `GameSave`. It composes what `PokemonList` and `GameSave`
keep apart, with other rules: boxes have gaps, the number in a box is counted in the
structure, names and wallpapers of boxes, three copies of the seen bits, and a
GameCube save whose write nobody checks. Here `save_as` is one step; the callers who
do not wait for it are `GameSave`'s subject.

**`OptionRegisters`** is what the options of a save promise: each is a register that
is set and read at once. **`SaveOptions`** is the code, a read or a write of a byte at
a time: `bytes` is shared, `owner` holds the mutex, and `pc`, `call`, `loaded` and
`answer` are the callers'. A setter checks its value, takes the mutex if it is one of
those that do, reads the byte, clears the bits and writes, and reads, sets and writes
once more. Which option is where is a constant; **`OptionTables`** reads it off the
setters and getters of the three files and the bimaps of `pksav/enum_maps1.cpp`, so
TLC checks the code's own layout, and the proofs are for every layout.

**`CApi`** is the C interface: a handle is a caller's struct with a mutex, an error text
and a shared pointer to a C++ object, `open`, `holder`, `lastError` and `state`; `call` is
where each thread is in a function, `out` the memory it gave for the answer. All functions
have a *shape* – what is checked, whether the handle's mutex is taken, what the C++ side
does, and through which conversion the answer goes – and the module is about the shapes.
**`CApiTables`** says which function has which shape, source file by source file, so the
run takes exactly the shapes that occur.

The `MC` modules define constants for TLC; `GameSave` needs none and is run as it is.
Some put components side by side that share nothing, so that each behaviour is of one of
them: `MCNativeData` (item list, origin and awards of a Pokémon, trainer's card) and `MCBags`
(`Gen2Bag`, `ItemBag` and Pokédex). `MCNativeData`, `MCBreeding` and `MCGen3Pokemon` also give
each behaviour a *topic*, of which it takes the setters and
questions: the setters of two topics touch parts of the structure that only trades,
copies and reloads bring together, and these are in every topic.

## Runs

| Run | Shows | Distinct states |
|---|---|---|
| `native_data` | four parts. One careful caller of a Game Boy list: an inventory without gaps or duplicates, nothing lost in a save; and where a Pokémon comes from, what a save says of its trainer, ribbons and markings – setters leave alone what shares a word, trades keep what both sides know, files what the structure holds | 11 691 |
| `bags` | three parts. One careful caller of the key item and TM/HM pockets and their bag – well-formed, native lists lag in two known ways only, and never in the bag; two careful callers of any bag – copies whole and current, mutex released; and every order of setters and queries on a Pokédex, from every pair of bit sets – cache invisible, no new contradiction | 63 031 |
| `pokemon_list` | a Generation II box from every box a save can hold: contiguous, survives a save, Pokédex follows, a sequence | 153 600 |
| `game_save` | careful callers, two paths, failing writes: files hold what was shown | 522 012 |
| `gb_pokemon` | a Pokémon of Generations I and II: its three structures agree, setters do what they say, a trade keeps what both sides know | 155 904 |
| `gen3_pokemon` | a Pokémon of Generation III, GBA and GameCube: the same, over one personality | 26 348 |
| `breeding` | species, moves and (but for Emerald) best IVs of children against reference definitions; daycares of three classes and the games that play on them | 46 894 |
| `gen3_save` | party, box, files and variables of a Generation III save | 831 071 |
| `save_options` | two callers of the options of three saves: bits of their own, registers, every call returns | 159 564 |
| `c_api` | functions of every shape on two handles of one object, by two threads: error texts, answers, mutexes | 366 786 |
| `gen3_save_silent` | a GameCube file that could not be written: `save_as` returns all the same | violated |
| `breeding_emerald` | the ideal IVs of a child in Emerald against the comments in the code: a stat is missing, and none is of the highest possible value | violated |

Properties that are conjunctions (`ListIsWellFormed`, `PokemonIsConsistent`,
`SettersKeepTheRest`, ...) have named parts, each with its own comment.

### Careful callers

`CarefulCallers` restricts *when or with what* the environment calls, never what
the code does. It is TRUE in passing runs because without it the code breaks the
property, and each restriction is as narrow as the counterexamples allow:

- `ItemList`: no `set_item` on the last slot of a full list, no NONE behind the
  last item, no `add` or `remove` of NONE, which would find an unused slot in a
  list with a wrong count. The proofs about the native list do not need it.
- `Gen2Bag`: `set_item` of key items only appends or erases.
- `ItemBag` (`CarefulSharing`): a call on a pocket, and `get_pockets`, run alone. `add`, `remove`
  and `get_native` of the bag run concurrently with one another in every order.
- `GameSave`: no object changes while `save_as` runs.
- `SaveOptions`: nobody sets the battle style or scene while somebody sets another
  option of the same byte, or saves (`Disturbs`). Those two setters take no mutex;
  without the restriction TLC finds the update that is lost. All other calls overlap
  in every order.

- `CApi`: the memory for an answer is cleared before the call, a struct that is to become
  a handle is not one yet, and no handle is freed while another call names it. An empty
  string, list or map is not written at all, so a caller that did not clear its buffer
  reads what was there.

One thing the models made visible about `ItemBag` and `GameSave`: if `get_native` and the copy
of its result are taken as one step, `SavedPokemonAreRegistered` holds for *all*
interleavings. It is the copy after the mutex was released that breaks it, although
the comment in `game_save_gen2impl.cpp:152` relies on those mutexes.

### Bounds

- *Pokédex*: 3 species. Setters and queries treat species independently; three are
  needed for a list with a gap in the middle.
- *Item lists*: 3 slots, 4 items, one of which belongs to another pocket, amounts up
  to 2. Three slots have a first, an inner and a last one, so an erase or a move
  can shift several; four items let a list be full while another item waits; the
  amount 2 separates "grows", "at the maximum", "shrinks" and "is the last".
- *Generation II bag*: 2 key items and slots, 2 machines (the first is the special
  one), 1 of each.
- *Bag*: 2 pockets (first and last of the copying loop), 2 threads, 2 words (the
  fewest that can be torn), and 2 changes of each pocket (`MaxVersion`): an
  outdated, a torn and a current copy differ then.
- *Party, box*: capacity 3, one species and two nicknames; callers offer a hatched
  Pokémon, an egg and an empty one (`Offered`). The names tell Pokémon apart. The
  species only matters for the Pokédex, which treats species independently.
- *Save*: 2 boxes plus the party, one species, two paths, two changes
  (`MaxChanges`) – one before a save and one during or after it – and every number
  of the current box, also one that is no box's.

- *Game Boy Pokémon*: a starter, a species that Generation I lacks, and Unown; levels
  1, 5 and 100 (below, at and above what a level met can say); a move of 40 PP, the
  only number that outgrows its six bits; a learnset longer than four moves. IVs and
  EVs are inputs at their limits, and every form sets IVs of its own.
- *Generation III Pokémon*: 18 personalities, one of every kind that the properties
  tell apart (two natures, parities, genders, shiny with one trainer's number or the
  other's, letters); one game of the GBA, both of the GameCube, which know different
  items; the levels as before.
- *Origin, trainer, awards*: seven games, two of Generation I, one of Generation II, two of
  the GBA, both of the GameCube; all nine types of save; values at the limits of what a
  setter takes or a structure holds, inside and outside, one place whose number needs
  more than a byte, file names with no title, one, or two; two contests that lie side by
  side in the word and two other ribbons, next to the contests and to the obedience.
- *Daycare*: two Pokémon, of which one has a nickname and may be an egg, in every place.
- *Breeding*: 17 species, which have every rule of their own and one line without; seven
  games, one for each generation and each version that differs; IVs on both sides of
  8, at the limits, with ties, and with the best ones on one side or spread over both.
- *Generation III save*: a party and a box of two places, so that each has a first and a
  last and the box a gap; two paths; two names, two wallpapers; four calls
  (`MaxCalls`): change, save, change and load is the longest story that the
  properties tell. Of the games of the GBA it is FireRed and LeafGreen, whose numbering of
  wallpapers is the second one (the theorems are for all games); the disk fails for them
  only (`FailingDisks`), because their write is checked.
- *Options*: two callers and three calls: a setter that is overtaken between any two of
  its reads and writes, and a call after both that would notice. Yellow, Generation II
  and FireRed stand for the layouts; every byte starts with all its bits set, so that
  a bit that is not cleared shows.

- *C API*: two threads, two handles; one thread calls everything, the other frees handles
  and changes the object, which is all that one call can do to another. Answers have 0, 1
  or 3 elements in buffers of 2: none, one that fits, one that does not.

### Fairness

`ItemBag` has `BagIsReleased`, `SaveOptions` has `CallsReturn` and `CApi` `MutexesComeBack`. The
fairness is weak fairness of each caller's steps inside a call: a thread that is in a call and can
go on does go on, which the operating system's scheduler provides. That callers call is not
assumed. Neither is that a mutex gives every waiting caller its turn, which `boost::mutex` does
not promise: in `ItemBag` and `CApi` taking it (`Enter`, `Lock`) has no fairness at all, and in
`SaveOptions`, where taking it is a step of the caller, weak fairness is enough because calls are
finitely many (`MaxCalls`), so nobody can be passed for ever. The other modules state safety only.

Deadlock is checked wherever the system can go on for ever. It is not checked where
it stops because a bound on the calls is used up (`gen3_save`, `gen3_save_silent`,
`save_options`) or because a question can be one that is always refused (`breeding`,
`breeding_emerald`).
Two callers that wait for each other would show in `CallsReturn`.

## Proofs

TLAPS checks every proof to its leaves, 17 040 obligations in eight modules. No
constant is bounded in them: any number of species, any capacity, any sets of
items, names, files and threads, any species, moves and personalities, any layout of
option bytes, any disks that fail.
Each inductive invariant was an invariant of a TLC run before it was proved.

**`ItemAndPokedexProofs`** has three parts. The Pokédex: the inductive invariant is the types
of bit sets and flags together with `CleanVectorsAreExact`: a vector
whose flag is down equals the listing of its bits. It is inductive as it stands,
because every action either raises the flag of the buffer it changes or leaves
both alone. `CachesExact` follows; `NoCallContradicts` needs no invariant, it is
a case split over actions; `PokedexImplementsRegister` uses the invariant in the
query steps: there the rebuilt or reused vector is the listing the register
answers with. The listing is cited as the operator `MemberVector` on both sides
and never computed.

The list. `NativeListMirrors`: the native list equals the slots and the
count after every step, for any number of callers, careful or not.
`ListTypeCorrect`: slots, native list and pending calls keep their types. The
inductive invariant is their conjunction: the mirror after a step follows from
the mirror before it only if the position of a pending call is one of the list's.
Lemmas say that `Erased` and `Moved` map lists to lists, and that copying one slot
suffices when one slot changed (`CopyRestoresMirror`), which each action is reduced
to. `ListWellFormed` and `InventoryTheorem` are for `OneCarefulCaller`. That items are
distinct, without gaps and counted is not inductive: `move` and `set_item` check their
arguments and act in two steps. `SoleInv` adds `InBounds` and that what a pending call has
checked is still true (`StillTrue`). The property itself is restated as `Orderly`, of a
vector and a number, so that `ErasedOrderly`, `MovedOrderly`, `AmountOrderly` can say that
each way of changing a vector keeps it. For the refinement, the inventory's amount of an
item is the amount of the one slot that has it; each step of the list changes that of one
item, or of none.

The bag and its pockets under concurrent calls. `WholePocketsTheorem`:
the bag's copies are whole when nobody is in a call; `UpToDateTheorem`: a call that returns
has copied all pockets; both for any number of callers whose overlapping calls are those
that lock (`CarefulSharing`). `SharedInv` says who may be past the doors (`OneInside`), that
a native list is of one version but for the words its writer has not come to
(`PocketsAreWritten`), and, for the caller who copies, that what it has passed is current:
the pockets before the one it is at, the words before the one it is at, and the word in
its hand (`CopiedSoFar`). The last is where the care is needed: nobody may change
a pocket that the loop has passed.

The pockets of Generation II, for one careful caller. `KeyItemPocket` extends `ItemList`, so
its steps share the lemmas above, but its native list may lag after `RemoveKeyItem`:
`KeyInv` has the count instead of the mirror. `MachineInv` has the amounts and that only
that of the first machine may lag. `PocketsTheorem` and `KeysTheorem`, the refinement of the
inventory, follow from both; `OnlyTwoCallsLag` is an action property from the same
invariant. Every step of the bag is a step of each pocket or leaves it alone
(`BagStepsThePocket`, `BagStepsTheMachines`). `CopiesTheorem` puts the two halves of `MCBags`
together: the bag's copies of these pockets and of any bag's are current.

**`GBPokemonProofs`**, a Pokémon of Generation I or II, for any species, learnsets,
experience curve, levels and values that callers set. `ViewsTheorem`: what is shown, what is
stored and what is computed agree, after any setters, trades and reloads. The invariant has
the shapes of the three structures, that what is in Generation I is of a species that
Generation I has (so no Unown, whose letter would be lost), and `ViewsAgree` and
`LevelsAreRight` themselves. It is inductive because every setter ends in one of four ways:
new IVs (`ChangeIVsInv`), new EVs or experience (`StatsReadInv`), one move (`MoveInv`), or
nothing that stats depend on (`OneStory`). Lemmas say what the bits do:
IVs that are made for a letter are of that letter, also for Z (`FormIsKept`); six bits hold
every PP but 64 (`ByteHoldsPP`); of each gender there are IVs (`GenderIVs`). That a greatest
level, a root and a number of PP Ups *exist* is the one induction in this directory, over
the natural numbers (`LeastNatural`, from the well-foundedness of `<`).
`ConsistencyTheorem` adds the moves of a new Pokémon: what is known at a level comes first in
a learnset ordered by level (`KnownComeFirst`), so the window of four that
`_init_default_moves_for_level` takes lies within it. That no move is known twice needs a
learnset that names none twice (`NothingIsLearnedTwice`). `SettersTheorem` and `TradeTheorem`
are action properties from the same invariant.

**`PokemonListProofs`**. `ListIsContiguous`, `ListTypeCorrect`,
`ReloadRestoresList`, `EscapeTheorem` and `SequenceTheorem` hold under `SoleCaller` – at most
one thread. Contiguity is
not inductive by itself: `set_pokemon` decides whether to count up from a number
of Pokémon read before the lock. The strengthening `IInv` adds
`PendingCallIsCurrent` (a pending call's number and index are those of the list
now), which is where one caller is needed, and `EggsAreGen2` (no egg where the game
has none), which makes the mark in the native species list readable again. With
two callers `PendingCallIsCurrent`, and with it contiguity, fails: two that append
at the same index both raise the count. `ReloadRestoresList` is an action property
from the same invariant: what `Natives` writes, `Wiped` leaves alone and `Objects`
reads back. `EscapeTheorem` follows the Pokédex beside it. `SequenceTheorem` is the
refinement of `PokemonSequence`: what a list shows is a sequence (`ShownIsATeam`), which a
step extends by one, shortens by one or changes in one place; the first half of
`set_pokemon` is a stutter, the second half the step of the sequence.

**`GameSaveAndPokemonProofs`** has two parts. The saves of the Game Boys: `FilesTheorem` and
`RegisteredTheorem`, for any boxes, any number of the current box and any write that fails, for
callers who wait for `save_as`. A file is right because the buffer was when it was written, and
the buffer because, while `save_as` runs, the parts it has passed show what the objects show.
`Collected` says that part by part, in the order of the code, and for the current box that it is
read from where it is written. `ObjectsAreRegistered` has the one gap that `set_pokemon` leaves
between list and Pokédex. Both properties are about files, so the invariant speaks of them
(`FilesAreRight`), since any file may be loaded; and `filepath` is a file that was written, which
is the claim about `save`.

A Pokémon of Generation III, for any games, species, moves, experience curve and random numbers,
on the GBA, on the GameCube and between the two. `PokemonTheorem`: what the object shows, what the
structure holds and what is computed from it agree after any setters, trades, copies and reloads.
`Gen3Inv` adds what fields structure and object have, that an Unown's structure has a letter,
which a trade back to the GBA needs, and that nothing on the GBA is in shadow. It is inductive
step by step of the setters; lemmas (`TraitsStep`, `GrowthStep`, `MovesStep`, `HonoursStep`) say
once what a change of each part of the structure needs, and a setter is one of them. A conversion
is shown to give a structure that a constructor reads well (`ConvertedIsGood`, `ToGCNIsGood`,
`MetAnewIsGood`). `Gen3TradeTheorem` says which traits a trade keeps. `SettersTheorem` is about
the personality: each of nature, ability, gender, shininess and form draws a new one until it
fits, and what fits (`FitsMeans`) is what the getters tell. For the letter, the gender and the
shininess this is arithmetic on sums of bits (`SumOfBits`, `LetterIsRead`, `GenderIsRead`,
`ShinyIsRead`): two of the four pairs of bits that spell the letter are in bytes that gender and
nature are computed from. `OnlyAbilityLosesTheLetter` has one exception, which the code has: the
setter of the ability draws without a look at the letter.

**`Gen3SaveProofs`**. `CountsTheorem` (from a lemma on the party and one on the boxes),
`VariablesTheorem`, `RegisteredTheorem` and `FilesTheorem`, for any sizes. That
a party has no gaps is not inductive by itself: any file may be loaded, and the count
that is loaded with it has to be right. The invariant therefore speaks of the files
too (`LoadsWell`: what a constructor makes of an image is a party without gaps), and
of the structures that lag behind the objects: they may lag in everything but the
species (`SameSpecies`), which is why the count in a box is right. For the counting,
`NumFilled` needs the finite-set theorems. `PInv` adds for `RegisteredTheorem` that the
Pokémon shown are in the Pokédex and that the three copies of its seen bits, in the buffer
and in every file, are right as far as anybody reads them. `FilesTheorem` has two
hypotheses. `FailuresAreNoticed`, no disk of the GameCube fails: without it the theorem is
false, which is what `gen3_save_silent` shows. `EmptiesAreAlike`: callers who empty a
place offer an empty Pokémon that has no data of another; a place does not keep
what it holds beside the species.

**`BreedingProofs`**, for any species, lines of evolution, learnsets and IVs. Of each answer
the property compares what the code computes with what is best or allowed, and the
invariant, `BreedingInv`, says that an answer is one to the parents of now, because every
setter withdraws it; the rest is about operators. `ChildrenTheorem`: a child is of a parent's
line. The code walks from species to species until none comes before; `WalkIsThere` shows
that such a walk is a function, because no set of species evolves in a circle, and what it
comes to is in each set that the walk does not leave (the line). `MovesTheorem`: a child
hatches with moves that it may have, those it inherits before those it would learn anyway.
The loop through a list of moves is the recursive function `Kept`, and that there is such a
function for a list of any length is shown by the least length for which there is none
(`KeptIsThere`); `OfLemma` says that it keeps the wanted moves of the list and no others, and
`FourLemma` what is left of them in four places. `IVsTheorem`: in Generation II and in Ruby no
child has better IVs than the ideal one. In Generation II the special IV is one parent's or one
that differs by 8 (`GoldIsBest`); in Ruby three stats of six are inherited, and
`HighestThreeAreHighest` shows that taking the highest that is left three times gives a sum that
no three exceed (`WeightOfThree`, `ThreeAreCounted`). Of Emerald nothing is proved but that the
answer's IVs are in range (`EmeraldIVsRange`).

`DaycareTheorem`: a daycare shows the species that its native structure has,
storing leaves the other places alone, and rereading keeps what is marked, whatever
callers store and change and games write. `DInv` adds what a structure can be
and that in Generation I the mark of use is up exactly for a structure that has a Pokémon:
only then does a constructor, which wipes what is not marked, wipe nothing.

**`NativeDataProofs`**: that native structures keep what is set in them. The options of a save:
`OwnBitsTheorem`: a setter changes no bit but its option's.
`RegistersTheorem`: `SaveOptions` implements `OptionRegisters`, for any layout in which
the options of a byte have different bits and whatever takes two statements takes the
mutex, and any number of careful callers. The argument is that a setter is alone with
its byte from its first read to its last write, against one that locks by the mutex,
against one that does not by the care of the callers; so what it has read is still
what is there when it writes (`ReadIsCurrent`), and between its two statements nobody
sees its bits clear (`ClearBetween`, `HoldsTheMutex`). The refinement mapping takes
the value of an option that is between its two statements from the call that is
setting it.

Awards, trainer's card and origin, which are tables of rows. Of each row it is shown that it tells
what it stored (`Exact` for awards, `Sound` for the card and `Good` for the origin, where some
setters take more than the getter tells), and of each two rows of a class that they have different
cells or different bits of one (`Apart`, `RowsAreApart`; the IDs, which are two halves and the
whole of one number, are the exception and have `IDsAreRead` and `IDsAreStored`). Then a setter
does what it says and leaves the rest, whatever the table. `AwardsTheorem`: awards are what was
given, in one word as in many cells; `AwardsInv` has the maps that the object keeps beside the
structure, which are a matter of what the structure tells (`MapsFollow`, `GatheredTells`), also
after a trade. `CardsTheorem`: what was set of the trainer, the money and the time played is told,
by this object and by one that is loaded from the file, in all nine types of save; `CardInv` has
the cells of each type and that what they hold is what a row can have stored. Money is three
bytes, decimal or binary (`DecimalDigits`, `ByteDigits`, `MoneyIsSound`). `OriginsTheorem`: of a
Pokémon's names, IDs, language, ball, level and game, a setter changes what it is named after, a
trade tells the next class what the last one told, a file brings back the structure, and only a
file puts a Pokémon into a game of another class. The getters tell something of any structure,
also of one that no setter has stored: a catch rate becomes an item, a level above 63 reaches into
the time of day. `OriginInv` therefore says of which traits each class can be sure that what it
holds is the code of a value (`Sure`), which languages the GameCube can hold, and that the game is
one in which the places can be read, for a Pokémon of the GBA any of Generation III (`GoodGame`).
Without it a conversion could have a ball, a game or an ID that is none. The conversions copy
cells, of which the two structures have the same kind of row (`ConsolesAreAlike`, `PlainlyKept`),
or translate a number (`LanguagesTell`, `BallIsTold`); four traits go into one word together and
come out as they went in (`PackedIsStored`).

**`CApiProofs`**, for any functions of the shapes that `CApi` has, any threads, handles and
exceptions. `ErrorsTheorem`: the text of a handle is that of the last call on it. The
invariant has who holds which mutex (`InsideHolds`), that a handle that a call names is one
(`NamedIsOpen`) which nobody frees (`FreedIsUnused`) or makes a second time
(`TargetIsClosed`, `TargetsDiffer`), and that an ended call whose text somebody else is about to
replace is marked as overtaken (`EndedAreOvertaken`). `NoneHidden` is about the list of catch
clauses: none is behind one that catches more. `AnswersTheorem` adds that memory to which
nothing was written is clear, that what was written is the answer or as much of it as fits,
and that the parts of a structure were read from one state of the object.

Assumptions are those named in the modules, and TLC evaluates each of them in a run. Most give
constants their types. The others say what the code's own tables are, or what the type of an
argument allows:

- `SpeciesAssumption` of `Breeding`: species evolve from species and not in a circle (every
  set of species has one that does not evolve from one of it);
  `IncenseAssumption`, `TwinsAssumption`: the species that `child_info.cpp` names are in the
  database, a line with an incense ends at the species that the incense adds;
  `StatsAssumption`, `IVAssumption`: IVs are maps of the stats of a generation, up to 15 or 31;
  `MovesAssumption`: a Pokémon has four places for moves, no move is called None.
- `LevelsAssumption` of `Gen3Pokemon`: an experience curve has the levels 1 and 100, and the
  GameCube's table begins with a level 0; `KindsAssumption`: Unown has no gender;
  `InputsAssumption`: what the setters let pass. `GBPokemonAssumption`, `ValuesAssumption`,
  `SpeciesAssumption` are the like for `GBPokemon`.
- `OriginAssumption` and `PlacesAssumption` of `PokemonOrigin`: the database gives the games of
  Generation III numbers of four bits, and each place of a game one of its own, which on the Game
  Boy Color has seven bits; the first range of the GameCube's places begins at 0.
- `LayoutAssumption`, `CodesAssumption`, `LockedAssumption` of `SaveOptions`, `AwardsAssumption`,
  `CardAssumption` of the other tables, `CApiAssumption`.
- `MonsAssumption`, `FilesAssumption` of `Gen3Save`, `NoFileAssumption`, `OfferedAssumption`: what
  files and Pokémon are offered is what a program can hold.

Hypotheses of theorems beyond them are named above: `OneCarefulCaller`,
`CarefulCallers`, `CarefulSharing`, `SoleCaller`, `EmptiesAreAlike`, `FailuresAreNoticed`,
`NothingIsLearnedTwice`.

Some definitions have a form that the provers can work with. What walks a list or a line is a
recursive function, never a `RECURSIVE` operator; tables are joined with `++` of `NativeRows` and
powers of two are the table `Weight`, because the prover expands neither `@@` nor `^`; numbers
that are sums of bits (`NumberOf`, `NatureOf`) are written out.

**Only model-checked**, and why:

- `BagIsReleased`, `CallsReturn` and `MutexesComeBack`: liveness under fairness, and with it
  `ENABLED`, is beyond the prover.

## Where the code differs

`gen3_save_silent` is a run that ends with a counterexample: `save_as` of a GameCube save
does not look at the result of the write (`game_save_gcnimpl.cpp:143`), so it returns
though there is no file, or an old one, where `include/pkmn/game_save.hpp:95`
promises an exception.

`breeding_emerald` is the other one: the ideal IVs of a child in Emerald. To leave HP or DEFENSE
out of the choice, `get_filtered_map` copies a map and erases from the copy with an iterator of the
map itself (`breeding/child_info.cpp:729`). C++ gives that no meaning, and every question about
Emerald gets there. `LeftByFilter` has what libstdc++ makes of it: the entry is cut out of the map
it is in, the copy keeps it, and whether the map still shows it depends on what is left of its
memory; or the loop never ends, and there is no answer. So the second and third stat can be HP and
DEFENSE after all, a stat can be missing from the answer (`child_info.cpp:801` asserts that none
is), and in the run's counterexample, parents whose IVs are all 0, DEFENSE is. The comments at
`:745` and `:789` say that three stats are inherited and the rest are random, at best the highest
possible value; the code fills the rest in with the parents' IVs (`:797`), not with 31, so that
`EmeraldIVsAreBest` would not hold with a correct filter either. The comparison with the three
best of all is the one that `RubyIVsAreBest` makes.

The following were met while modelling. The models have the code as it is; where a
definition states what one would expect, it is in the module with a comment that
no run claims it, and putting it into a `.cfg` shows the counterexample.

*Lists*
- Writing the last slot of a full list, or NONE behind the last item, makes
  `get_num_items` one too large (`item_list_impl.cpp:411`; set `CarefulCallers` to FALSE).
- A pocket loaded from a Generation III or GameCube save reports no items
  (`item_list_modernimpl.cpp:65`; set `NativeHasCount` to FALSE).
- Removing a key item that is not the last leaves the old order in what is saved
  (`item_list_gen2_keyitemimpl.cpp:112`), and `set_item` of the first TM, the only one it
  accepts, leaves the old amount (`item_list_gen2_tmhmimpl.cpp:199`;
  `Gen2Bag!SaveShowsTheBag`).
- An egg put into a Generation II party or box hatches unnoticed by the Pokédex
  (`pokemon_box_gbimpl.ipp:167`; `PokemonList!AllRegistered`).

*Saves*
- Names of Generation II boxes are not saved (`game_save_gen2impl.cpp:180`;
  `GameSave!FilesHoldBoxNames`).
- A Pokémon that arrives while `save_as` runs can be in the file's party and not in its
  Pokédex (`game_save_gen2impl.cpp:163`; `CarefulCallers` FALSE in `GameSave`).
- The third copy of the seen bits is never written, the second twice
  (`game_save_gbaimpl.cpp:225`).
- The bound of a box's index is its capacity, one too many; only `std::vector::at`
  refuses the place behind the last (`pokemon_box_gbaimpl.cpp:100`).
- Battle style and battle scene are set and read without the mutex
  (`game_save_gen2impl.cpp:656`); the textbox frame is told one less than it was set
  (`:701`); the text speeds of the Game Boy Advance share one number, so `Medium` and
  `Fast` are refused (`pksav/enum_maps1.cpp:173`).

- Of a save of Generation I the trainer's ID is read without the mutex
  (`game_save_gen1impl.cpp:301`). On the GameCube the gender is read from the save and
  cannot be set, since all are male (`game_save_gcnimpl.cpp:242`).
- Which of two games a save is of is guessed from the file's name, in which `fr` is enough
  for FireRed, also in the name of a LeafGreen file (`game_save_gbaimpl.cpp:95`).
- A Generation II daycare raises no mark of use, so what is stored there does not survive a
  reload, and an egg that is stored in it is no egg (`daycare_gen2impl.cpp:287`).

*Pokémon*
- A Pokémon that comes back from Generation I can be of level 0
  (`conversions/gb_conversions.cpp:174`; `GBPokemon!TradeKeepsLevel`).
- Of more than four moves learned, a new Pokémon gets the four before the newest
  (`pokemon_impl.cpp:362`), and one of them twice where the learnset has it twice
  (`:344`).
- `set_shininess(false)` leaves a shiny Pokémon of Generation III shiny
  (`pokemon_impl.cpp:553`; `Gen3Pokemon!ShininessIsTakenAway`), and `set_ability` changes
  the letter of an Unown's personality and not its form (`pokemon_gbaimpl.cpp:1435`).
- Korean can be set as a language on the Game Boy Advance, and the trade to the GameCube then
  fails (`conversions/gen3_conversions.cpp:166`); a place whose number needs more than a byte
  is stored as another one (`pokemon_gbaimpl.cpp:878`).
- On the GameCube `set_ribbon` of a level lower than the one that was won takes the higher ones
  away, and taking away a level that was not won can give the one below it
  (`pokemon_gcnimpl.cpp:1074`); `set_contest_stat` takes no mutex there (`:1084`).
- A child's move that has two sources takes two places, egg moves are looked up under
  the first species of the line in any generation, and two genderless Pokémon pass
  as compatible (`breeding/`).

## Not modelled

- **The database**: its queries read a file that is not in the repository; what they answer
  is a constant of the modules that ask. Its entry classes have no state that changes.
- **Bindings** for scripting languages and Qt (`swig/`, `qt/`): one C++ call each. Of the C
  interface: the last error of all threads (whatever call failed last), the names of
  enumeration values, two frees, and what the `.c_str()` of a text is worth after
  the mutex was released.
- **Generation IV and later**: stubs that throw, but for breeding, which answers for them.
- **Byte layouts** inside the two save libraries (submodules, absent), text conversion,
  sprites, and memory errors in the sense of C++: where the code would index outside a
  vector or share a pointer without a lock, the models stop, and a property or a
  restriction on callers says where.

What is modelled is the part of the library that keeps and relates state. Most of the
rest of its lines are these wrappers, queries and tables.
