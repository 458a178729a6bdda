------------------------------ MODULE ItemBag ------------------------------
(***************************************************************************)
(* The item bag (lib/item_bag_impl.cpp and its subclasses): pockets that   *)
(* callers also hold directly, and the bag's own native copy of all of     *)
(* them, which is what a save is written from.                             *)
(*                                                                         *)
(* There are two kinds of mutex: the bag's, and one in each pocket.  The   *)
(* bag copies a pocket after it has asked the pocket for its native list,  *)
(* and that call has released the pocket's mutex by then.  A native list   *)
(* is many bytes long; here it is two words, each of which carries the     *)
(* number of the pocket's call that wrote it.  The contents of a pocket    *)
(* are module ItemList's business.                                         *)
(***************************************************************************)
EXTENDS Integers, Sequences

CONSTANTS
  PocketOrder,    \* the pockets, in the order in which _to_native copies them
  Callers,        \* the callers that share the bag
  NoOne,          \* the holder of a free mutex
  MaxVersion,     \* bound: how many calls change a pocket
  CarefulSharing  \* do callers keep pocket calls and get_pockets() apart from
                  \* all other calls on the bag themselves?

Pockets == {PocketOrder[p] : p \in DOMAIN PocketOrder}

ASSUME ItemBagAssumption ==
  /\ PocketOrder \in Seq(Pockets) /\ PocketOrder # <<>>
  /\ NoOne \notin Callers
  /\ MaxVersion \in Nat
  /\ CarefulSharing \in BOOLEAN

VARIABLES
  version,       \* how many calls have changed each pocket
  pocketNative,  \* the native list that each pocket keeps, word by word
  pocketLock,    \* who holds each pocket's mutex
  bagCopy,       \* the bag's copy of each native list, word by word
  bagLock,       \* who holds the bag's mutex
  at,            \* where each thread is
  calling,       \* which operation it has called
  pocket,        \* the position in PocketOrder of the pocket it works on
  word,          \* the word of the native list it works on
  loaded         \* what it has loaded from that word

sharedVars == <<version, pocketNative, pocketLock, bagCopy, bagLock, at, calling, pocket, word, loaded>>
locks == <<pocketLock, bagLock>>
lists == <<version, pocketNative, bagCopy>>

Words == 0..1
LockedCalls == {"add_or_remove", "get_native"}
Here(t) == PocketOrder[pocket[t]]
Resting == \A t \in Callers : at[t] = "idle"

(* A new bag copied every pocket, or every pocket was made from its list. *)
SharedInit ==
  /\ version = [p \in Pockets |-> 0]
  /\ pocketNative = [p \in Pockets |-> [w \in Words |-> 0]]
  /\ pocketLock = [p \in Pockets |-> NoOne]
  /\ bagCopy = pocketNative
  /\ bagLock = NoOne
  /\ at = [t \in Callers |-> "idle"]
  /\ calling = [t \in Callers |-> "get_native"]
  /\ pocket = [t \in Callers |-> 1]
  /\ word = [t \in Callers |-> 0]
  /\ loaded = [t \in Callers |-> 0]

-----------------------------------------------------------------------------
(* Where a thread goes next. *)
Go(t, place, p, w) ==
  /\ at' = [at EXCEPT ![t] = place]
  /\ pocket' = [pocket EXCEPT ![t] = p]
  /\ word' = [word EXCEPT ![t] = w]

(* A call on a pocket that was handed out by get_pocket(). *)
CallPocket(t, p) ==
  /\ at[t] = "idle"
  /\ CarefulSharing => Resting
  /\ Go(t, "changing", p, 0)
  /\ calling' = [calling EXCEPT ![t] = "pocket"]
  /\ UNCHANGED <<locks, lists, loaded>>

(* add(), remove() and get_native() of the bag. *)
CallBag(t, operation, p) ==
  /\ at[t] = "idle"
  /\ CarefulSharing => \A u \in Callers : at[u] # "idle" => calling[u] \in LockedCalls
  /\ Go(t, "entering", p, 0)
  /\ calling' = [calling EXCEPT ![t] = operation]
  /\ UNCHANGED <<locks, lists, loaded>>

Entered(t) == IF calling[t] = "get_native" THEN Go(t, "asking", 1, 0) ELSE Go(t, "changing", pocket[t], 0)

\* Faulty variant of Enter: the mutex is not waited for.
EnterUnlocked(t) ==
  /\ at[t] = "entering"
  /\ Entered(t)
  /\ UNCHANGED <<locks, lists, calling, loaded>>

(* They wait for the bag's mutex; then add() and remove() turn to the      *)
(* pocket of the item, get_native() to all of them.                        *)
Enter(t) ==
  /\ at[t] = "entering"
  /\ bagLock = NoOne
  /\ bagLock' = t
  /\ Entered(t)
  /\ UNCHANGED <<pocketLock, lists, calling, loaded>>

(* get_pockets() copies all pockets too, but takes no mutex. *)
CallGetPockets(t) ==
  /\ at[t] = "idle"
  /\ CarefulSharing => Resting
  /\ Go(t, "asking", 1, 0)
  /\ calling' = [calling EXCEPT ![t] = "get_pockets"]
  /\ UNCHANGED <<locks, lists, loaded>>

(* The end of a call, normally or by an exception: the guard lets go. *)
Return(t) ==
  /\ Go(t, "idle", 1, 0)
  /\ bagLock' = IF bagLock = t THEN NoOne ELSE bagLock

-----------------------------------------------------------------------------
(* The pocket's own call takes the pocket's mutex... *)
ChangePocket(t) ==
  /\ at[t] = "changing"
  /\ pocketLock[Here(t)] = NoOne
  /\ version[Here(t)] < MaxVersion
  /\ pocketLock' = [pocketLock EXCEPT ![Here(t)] = t]
  /\ version' = [version EXCEPT ![Here(t)] = @ + 1]
  /\ Go(t, "writing", pocket[t], 0)
  /\ UNCHANGED <<pocketNative, bagCopy, bagLock, calling, loaded>>

\* Faulty variant of Refuse: the exception does not release the bag.
RefuseAndKeep(t) ==
  /\ at[t] = "changing"
  /\ pocketLock[Here(t)] = NoOne
  /\ Go(t, "idle", 1, 0)
  /\ UNCHANGED <<bagLock, pocketLock, lists, calling, loaded>>

(* ...or refuses the item or the amount with an exception: the bag's call  *)
(* ends with it, nothing is copied.                                        *)
Refuse(t) ==
  /\ at[t] = "changing"
  /\ pocketLock[Here(t)] = NoOne
  /\ Return(t)
  /\ UNCHANGED <<pocketLock, lists, calling, loaded>>

(* _to_native() of the pocket. *)
WriteWord(t) ==
  /\ at[t] = "writing"
  /\ pocketNative' = [pocketNative EXCEPT ![Here(t)][word[t]] = version[Here(t)]]
  /\ IF word[t] + 1 \in Words
       THEN Go(t, "writing", pocket[t], word[t] + 1) /\ UNCHANGED locks
       ELSE /\ pocketLock' = [pocketLock EXCEPT ![Here(t)] = NoOne]
            /\ IF calling[t] = "add_or_remove"
                 THEN Go(t, "asking", 1, 0) /\ UNCHANGED bagLock
                 ELSE Return(t)
  /\ UNCHANGED <<version, bagCopy, calling, loaded>>

-----------------------------------------------------------------------------
(* _to_native() of the bag.  Pocket by pocket: get_native() waits for the  *)
(* pocket's mutex and lets go of it again...                               *)
AskPocket(t) ==
  /\ at[t] = "asking"
  /\ pocketLock[Here(t)] = NoOne
  /\ Go(t, "loading", pocket[t], 0)
  /\ UNCHANGED <<locks, lists, calling, loaded>>

(* ...and the list behind the pointer is copied with nothing held but, in  *)
(* the locked calls, the bag's mutex.                                      *)
LoadWord(t) ==
  /\ at[t] = "loading"
  /\ loaded' = [loaded EXCEPT ![t] = pocketNative[Here(t)][word[t]]]
  /\ Go(t, "storing", pocket[t], word[t])
  /\ UNCHANGED <<locks, lists, calling>>

\* Faulty variant of StoreWord: the copy stops one pocket early.
StoreWordButLast(t) ==
  /\ at[t] = "storing"
  /\ bagCopy' = [bagCopy EXCEPT ![Here(t)][word[t]] = loaded[t]]
  /\ IF word[t] + 1 \in Words
       THEN Go(t, "loading", pocket[t], word[t] + 1) /\ UNCHANGED bagLock
     ELSE IF pocket[t] + 1 < Len(PocketOrder)
       THEN Go(t, "asking", pocket[t] + 1, 0) /\ UNCHANGED bagLock
     ELSE Return(t)
  /\ UNCHANGED <<pocketLock, version, pocketNative, calling, loaded>>

StoreWord(t) ==
  /\ at[t] = "storing"
  /\ bagCopy' = [bagCopy EXCEPT ![Here(t)][word[t]] = loaded[t]]
  /\ IF word[t] + 1 \in Words
       THEN Go(t, "loading", pocket[t], word[t] + 1) /\ UNCHANGED bagLock
     ELSE IF pocket[t] < Len(PocketOrder)
       THEN Go(t, "asking", pocket[t] + 1, 0) /\ UNCHANGED bagLock
     ELSE Return(t)
  /\ UNCHANGED <<pocketLock, version, pocketNative, calling, loaded>>

Step(t) ==
  ChangePocket(t) \/ Refuse(t) \/ WriteWord(t) \/ AskPocket(t) \/ LoadWord(t) \/ StoreWord(t)

SharedNext ==
  \/ \E t \in Callers, p \in DOMAIN PocketOrder : CallPocket(t, p)
  \/ \E t \in Callers, p \in DOMAIN PocketOrder : CallBag(t, "add_or_remove", p)
  \/ \E t \in Callers : CallBag(t, "get_native", 1) \/ CallGetPockets(t)
  \/ \E t \in Callers : Enter(t) \/ Step(t)

(* A thread inside a call runs on; nothing says who gets the bag next. *)
SharedSpec == SharedInit /\ [][SharedNext]_sharedVars /\ \A t \in Callers : WF_sharedVars(Step(t))

-----------------------------------------------------------------------------
SharedTypeOK ==
  /\ version \in [Pockets -> 0..MaxVersion]
  /\ pocketNative \in [Pockets -> [Words -> 0..MaxVersion]]
  /\ bagCopy \in [Pockets -> [Words -> 0..MaxVersion]]
  /\ pocketLock \in [Pockets -> Callers \cup {NoOne}]
  /\ bagLock \in Callers \cup {NoOne}
  /\ at \in [Callers -> {"idle", "entering", "changing", "writing", "asking", "loading", "storing"}]
  /\ calling \in [Callers -> {"pocket", "get_pockets"} \cup LockedCalls]
  /\ pocket \in [Callers -> 1..Len(PocketOrder)]
  /\ word \in [Callers -> Words]
  /\ loaded \in [Callers -> 0..MaxVersion]

(* When nobody is in a call, the bag's copy of each pocket is one that the *)
(* pocket really had, and not half of an older and half of a newer one:    *)
(* "These get_native() calls will call the mutex for every subclass it     *)
(* copies, so we don't need to worry about that here"                      *)
(* (lib/game_save_gen2impl.cpp:152).                                       *)
WholePockets ==
  /\ SharedTypeOK
  /\ Resting => \A p \in Pockets : \E v \in 0..version[p] : \A w \in Words : bagCopy[p][w] = v

(* A call on the bag that returns without an exception leaves the bag's    *)
(* copy of every pocket up to date with that pocket.                       *)
LeavesUpToDate(t) == at[t] = "storing" /\ at'[t] = "idle" => bagCopy' = pocketNative'
ReturnsUpToDate == [][\A t \in Callers : LeavesUpToDate(t)]_sharedVars

(* Whatever happens in a call, an exception included, the bag is released. *)
BagIsReleased == bagLock # NoOne ~> bagLock = NoOne
=============================================================================
