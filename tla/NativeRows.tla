----------------------------- MODULE NativeRows -----------------------------
(***************************************************************************)
(* Rows say where a native structure keeps a trait, which values the       *)
(* trait's setter takes and what its getter tells: whole cells, parts of   *)
(* words, texts, and traits that a structure does not have.                *)
(***************************************************************************)
EXTENDS Integers

CONSTANTS
  Names, LengthOf,       \* texts and their lengths
  DefaultID, TrainerIDs  \* a trainer ID is the set of its 32 bits

Refused == "refused"

(* Numbers are the sets of their bits where they share a word.             *)
Weight == <<1, 2, 4, 8, 16, 32, 64, 128, 256, 512, 1024, 2048, 4096, 8192, 16384, 32768>>
BitsOf(n) == {i \in 0..15 : (n \div Weight[i + 1]) % 2 = 1}
Up(bits, low) == {i + low : i \in bits}
Low(bits) == bits \cap 0..15
High(bits) == {i - 16 : i \in bits \cap 16..31}

(* Two tables as one. *)
f ++ g == [x \in DOMAIN f \cup DOMAIN g |-> IF x \in DOMAIN f THEN f[x] ELSE g[x]]

Inverse(numbers) ==
  [n \in {numbers[v] : v \in DOMAIN numbers} |-> CHOOSE v \in DOMAIN numbers : numbers[v] = n]

(* Where a trait is; what its setter stores of the values that it takes,   *)
(* what its getter tells of what is stored and what of anything else.      *)
Row(cell, mask, code, told, default) ==
  [cell |-> cell, mask |-> mask, code |-> code, told |-> told, default |-> default]

Same(values) == [v \in values |-> v]

(* A trait with a cell of its own, for whose values there are numbers. *)
Coded(cell, numbers, default) == Row(cell, {}, numbers, Inverse(numbers), default)
Cell(cell, values) == Row(cell, {}, Same(values), Same(values), Refused)
Text(cell, limit) == Row(cell, {}, Same({n \in Names : LengthOf[n] \in 1..limit}), Same(Names), Refused)

(* A trait that is some bits of a word. *)
InWord(numbers, low) == [v \in DOMAIN numbers |-> Up(BitsOf(numbers[v]), low)]

Part(cell, low, size, numbers, default) ==
  Row(cell, low..low+size-1, InWord(numbers, low), Inverse(InWord(numbers, low)), default)

Number(cell, low, size, values) ==
  LET all == InWord(Same(0..Weight[size + 1]-1), low)
  IN Row(cell, low..low+size-1, InWord(Same(values), low), Inverse(all), Refused)

YesNo == [v \in BOOLEAN |-> IF v THEN 1 ELSE 0]
Bit(cell, bit) == Part(cell, bit, 1, YesNo, Refused)
Gender(cell, bit) == Part(cell, bit, 1, [MALE |-> 0, FEMALE |-> 1], Refused)

(* A trait that the class has no place for: both calls throw. *)
Fixed(value) == Row("none", {}, Same({}), Same({}), value)
Absent == Fixed(Refused)
Without(traits) == [t \in traits |-> Absent]

(* On the Game Boy the upper half of a trainer ID has to be zero and is    *)
(* not stored.                                                             *)
GBID(cell, all) ==
  LET ids == Cell(cell, {Low(id) : id \in all})
  IN [publicId |-> ids, secretId |-> Absent, trainerId |-> ids]

Halves(ids) == {Low(id) : id \in ids} \cup {High(id) : id \in ids}
Whole(h, k) == h \cup Up(k, 16)

IDParts(cell, ids) ==
  LET upper == [h \in Halves(ids) |-> Up(h, 16)]
  IN [ publicId |-> Row(cell, 0..15, Same(Halves(ids)), Same(Halves(ids)), Refused),
       secretId |-> Row(cell, 16..31, upper, Inverse(upper), Refused),
       trainerId |-> Cell(cell, {Whole(h, k) : h, k \in Halves(ids)}) ]

-----------------------------------------------------------------------------
(* What the getter of a row tells of a structure.                          *)
ToldOf(row, data) ==
  LET stored == IF row.mask = {} THEN data[row.cell] ELSE data[row.cell] \cap row.mask
  IN IF DOMAIN row.told = {} THEN row.default
     ELSE IF stored \in DOMAIN row.told THEN row.told[stored] ELSE row.default

(* Faulty variant of Stored: the bits that were set stay set. *)
StoredOver(data, row, value) ==
  [data EXCEPT ![row.cell] = IF row.mask = {} THEN row.code[value] ELSE @ \cup row.code[value]]

(* What its setter makes of a structure. *)
Stored(data, row, value) ==
  [data EXCEPT ![row.cell] = IF row.mask = {} THEN row.code[value]
                             ELSE (@ \ row.mask) \cup row.code[value]]
=============================================================================
