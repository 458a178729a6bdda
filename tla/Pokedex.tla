------------------------------ MODULE Pokedex ------------------------------
(***************************************************************************)
(* The Pokedex object of lib/pokedex_impl.cpp with the bit buffers of      *)
(* pokedex_gbimpl.ipp and pokedex_gbaimpl.cpp.                             *)
(*                                                                         *)
(* A Pokedex keeps two bit sets (the native buffers that end up in the     *)
(* save) and, beside each of them, a vector that is only rebuilt when it   *)
(* is asked for and its dirty flag is up.  Every public call holds the     *)
(* object's recursive mutex from its first to its last access, so a call,  *)
(* including the nested call into the other setter, is one step.           *)
(***************************************************************************)
EXTENDS Integers, Sequences

CONSTANT NumPokemon  \* GENERATION_POKEDEX_SIZES: 151, 251 or 386

VARIABLES
  seenBits,     \* p_seen, or the one buffer behind p_seenA, p_seenB, p_seenC
  caughtBits,   \* p_owned
  allSeen,      \* _all_seen
  dirtySeen,    \* _dirty_seen
  allCaught,    \* _all_caught
  dirtyCaught,  \* _dirty_caught
  answer        \* what the last call returned

pokedexVars == <<seenBits, caughtBits, allSeen, dirtySeen, allCaught, dirtyCaught, answer>>

Species == 1..NumPokemon

NoAnswer == [kind |-> "none"]
Listing(list) == [kind |-> "list", value |-> list]
Count(n) == [kind |-> "number", value |-> n]
Flag(b) == [kind |-> "flag", value |-> b]

(* _update_member_vector_with_pksav: the numbers whose bit is up, in order. *)
MemberVector(bits) ==
  SelectSeq([n \in 1..NumPokemon |-> n], LAMBDA n : n \in bits)

(* The two bit sets are zero for a new Pokedex and whatever the save holds *)
(* for a loaded one; the constructors check nothing.                       *)
PokedexInit ==
  /\ seenBits \in SUBSET Species
  /\ caughtBits \in SUBSET Species
  /\ allSeen = <<>> /\ dirtySeen = TRUE
  /\ allCaught = <<>> /\ dirtyCaught = TRUE
  /\ answer = NoAnswer

-----------------------------------------------------------------------------
(* set_has_seen(species, true) never looks at the caught bit. *)
SetSeen(s) ==
  /\ seenBits' = seenBits \cup {s}
  /\ dirtySeen' = TRUE
  /\ answer' = NoAnswer
  /\ UNCHANGED <<caughtBits, allSeen, allCaught, dirtyCaught>>

\* Faulty variant of ClearSeen: the caught bit is left alone.
ClearSeenOnly(s) ==
  /\ seenBits' = seenBits \ {s}
  /\ dirtySeen' = TRUE
  /\ answer' = NoAnswer
  /\ UNCHANGED <<caughtBits, allSeen, allCaught, dirtyCaught>>

\* Faulty variant of ClearSeen: the nested call forgets its own dirty flag.
ClearSeenStaleCaught(s) ==
  /\ seenBits' = seenBits \ {s}
  /\ caughtBits' = caughtBits \ {s}
  /\ dirtySeen' = TRUE
  /\ answer' = NoAnswer
  /\ UNCHANGED <<allSeen, allCaught, dirtyCaught>>

(* set_has_seen(species, false): a species that is caught goes through     *)
(* set_has_caught(species, false) before the call returns.                 *)
ClearSeen(s) ==
  /\ seenBits' = seenBits \ {s}
  /\ dirtySeen' = TRUE
  /\ caughtBits' = caughtBits \ {s}
  /\ dirtyCaught' = (dirtyCaught \/ s \in caughtBits)
  /\ answer' = NoAnswer
  /\ UNCHANGED <<allSeen, allCaught>>

\* Faulty variant of SetCaught: _dirty_seen is raised for no one.
SetCaughtStaleSeen(s) ==
  /\ caughtBits' = caughtBits \cup {s}
  /\ dirtyCaught' = TRUE
  /\ seenBits' = seenBits \cup {s}
  /\ answer' = NoAnswer
  /\ UNCHANGED <<allSeen, dirtySeen, allCaught>>

(* set_has_caught(species, true): a species that is not seen goes through  *)
(* set_has_seen(species, true) before the call returns.                    *)
SetCaught(s) ==
  /\ caughtBits' = caughtBits \cup {s}
  /\ dirtyCaught' = TRUE
  /\ seenBits' = seenBits \cup {s}
  /\ dirtySeen' = (dirtySeen \/ s \notin seenBits)
  /\ answer' = NoAnswer
  /\ UNCHANGED <<allSeen, allCaught>>

(* set_has_caught(species, false) leaves the species seen. *)
ClearCaught(s) ==
  /\ caughtBits' = caughtBits \ {s}
  /\ dirtyCaught' = TRUE
  /\ answer' = NoAnswer
  /\ UNCHANGED <<seenBits, allSeen, dirtySeen, allCaught>>

-----------------------------------------------------------------------------
(* The lazy rebuild both get_all_seen and get_num_seen start with. *)
RefreshSeen ==
  /\ allSeen' = IF dirtySeen THEN MemberVector(seenBits) ELSE allSeen
  /\ dirtySeen' = FALSE

RefreshCaught ==
  /\ allCaught' = IF dirtyCaught THEN MemberVector(caughtBits) ELSE allCaught
  /\ dirtyCaught' = FALSE

GetAllSeen ==
  /\ RefreshSeen
  /\ answer' = Listing(allSeen')
  /\ UNCHANGED <<seenBits, caughtBits, allCaught, dirtyCaught>>

GetNumSeen ==
  /\ RefreshSeen
  /\ answer' = Count(Len(allSeen'))
  /\ UNCHANGED <<seenBits, caughtBits, allCaught, dirtyCaught>>

GetAllCaught ==
  /\ RefreshCaught
  /\ answer' = Listing(allCaught')
  /\ UNCHANGED <<seenBits, caughtBits, allSeen, dirtySeen>>

GetNumCaught ==
  /\ RefreshCaught
  /\ answer' = Count(Len(allCaught'))
  /\ UNCHANGED <<seenBits, caughtBits, allSeen, dirtySeen>>

(* has_seen and has_caught read the native bit; the vectors play no part. *)
HasSeen(s) ==
  /\ answer' = Flag(s \in seenBits)
  /\ UNCHANGED <<seenBits, caughtBits, allSeen, dirtySeen, allCaught, dirtyCaught>>

HasCaught(s) ==
  /\ answer' = Flag(s \in caughtBits)
  /\ UNCHANGED <<seenBits, caughtBits, allSeen, dirtySeen, allCaught, dirtyCaught>>

PokedexNext ==
  \/ \E s \in Species : SetSeen(s) \/ ClearSeen(s) \/ SetCaught(s) \/ ClearCaught(s)
  \/ \E s \in Species : HasSeen(s) \/ HasCaught(s)
  \/ GetAllSeen \/ GetNumSeen \/ GetAllCaught \/ GetNumCaught

PokedexSpec == PokedexInit /\ [][PokedexNext]_pokedexVars

-----------------------------------------------------------------------------
PokedexTypeOK ==
  /\ seenBits \in SUBSET Species
  /\ caughtBits \in SUBSET Species
  /\ dirtySeen \in BOOLEAN
  /\ dirtyCaught \in BOOLEAN

(* A vector whose dirty flag is down lists exactly the bits of its buffer, *)
(* whichever of the two setters last touched that buffer, directly or from *)
(* inside the other one (pokedex_impl.cpp:114, :162).                      *)
CleanVectorsAreExact ==
  /\ ~dirtySeen => allSeen = MemberVector(seenBits)
  /\ ~dirtyCaught => allCaught = MemberVector(caughtBits)

(* "If a Pokemon has been caught, then it must have been seen"             *)
(* (pokedex_impl.cpp:156): a save may already contradict that, but no call *)
(* makes another species caught and unseen.                                *)
NoNewContradiction ==
  [][caughtBits' \ seenBits' \subseteq caughtBits \ seenBits]_pokedexVars

(* The cache is invisible: every list and every count that a caller gets   *)
(* is the one a Pokedex without vectors and flags would give.              *)
Register == INSTANCE PokedexRegister WITH seen <- seenBits, caught <- caughtBits
ImplementsRegister == Register!Spec
=============================================================================
