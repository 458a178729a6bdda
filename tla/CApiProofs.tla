----------------------------- MODULE CApiProofs -----------------------------
(***************************************************************************)
(* Theorems about the C interface, for any number of threads and handles,  *)
(* any functions of the shapes there are, any answers and any exceptions.  *)
(***************************************************************************)
EXTENDS CApi, SequenceTheorems, TLAPS

(* A clause that no earlier one hides is the one that catches. *)
LEMMA CaughtByOwn ==
  ASSUME NEW k \in DOMAIN Catches,
         \A j \in 1..(k - 1) : Catches[j] \notin Kinds(Catches[k])
  PROVE  CaughtAs(Catches[k]) = Catches[k]
<1> DEFINE e == Catches[k]
           First(i) == Catches[i] \in Kinds(e) /\ \A j \in 1..(i - 1) : Catches[j] \notin Kinds(e)
<1>1. DOMAIN Catches \subseteq Nat \ {0}
  BY DEF Catches
<1>2. First(k)
  BY DEF Kinds
<1>3. \A i \in DOMAIN Catches : First(i) => i = k
  <2> SUFFICES ASSUME NEW i \in DOMAIN Catches, First(i) PROVE i = k
    OBVIOUS
  <2>1. ~(k < i)
    BY <1>1, <1>2
  <2>2. ~(i < k)
    BY <1>1, <1>2
  <2> QED
    BY <1>1, <2>1, <2>2
<1>4. (CHOOSE i \in DOMAIN Catches : First(i)) = k
  BY <1>2, <1>3
<1> QED
  BY <1>4 DEF CaughtAs

LEMMA NoneHidden == NoClauseIsHidden
<1>1. DOMAIN Catches = 1..14
  BY DEF Catches
<1>2. \A k \in 1..13 : \A j \in 1..(k - 1) : Catches[j] \notin Kinds(Catches[k])
  BY DEF Catches, Kinds, Base, Exceptions
<1>3. "..." \notin Exceptions /\ Catches[14] = "..."
  BY DEF Catches, Base, Exceptions
<1> QED
  BY <1>1, <1>2, <1>3, CaughtByOwn DEF NoClauseIsHidden

(* Whatever is thrown is caught, so its code is not that of success. *)
LEMMA CodeIsOfAnError == \A e : CodeOf(e) # "none"
<1> SUFFICES ASSUME NEW e PROVE CodeOf(e) # "none"
  OBVIOUS
<1> DEFINE First(i) == Catches[i] \in Kinds(e) /\ \A j \in 1..(i - 1) : Catches[j] \notin Kinds(e)
<1>1. DOMAIN Catches = 1..14 /\ \A i \in 1..14 : Catches[i] # "none"
  BY DEF Catches
<1>2. Catches[14] \in Kinds(e)
  BY DEF Catches, Kinds
<1>3. \E i \in 1..14 : First(i)
  <2> DEFINE Hits == {i \in 1..14 : Catches[i] \in Kinds(e)}
             P(n) == (\E i \in 1..n : Catches[i] \in Kinds(e)) => \E i \in 1..n : First(i)
  <2> HIDE DEF P
  <2>1. P(0)
    BY DEF P
  <2>2. \A n \in 0..13 : P(n) => P(n + 1)
    BY DEF P
  <2>3. P(1) /\ P(2) /\ P(3) /\ P(4) /\ P(5) /\ P(6) /\ P(7)
    BY <2>1, <2>2
  <2>4. P(14)
    BY <2>2, <2>3
  <2> QED
    BY <2>4, <1>2 DEF P
<1>4. \E i \in DOMAIN Catches : First(i)
  BY <1>1, <1>3
<1>5. CaughtAs(e) # "none"
  BY <1>1, <1>4 DEF CaughtAs
<1> QED
  BY <1>5 DEF CodeOf
-----------------------------------------------------------------------------
(* Where a call can be, and what it is. *)
Places == {"waiting", "working", "leaving", "done"}
Codes == {CodeOf(e) : e \in Thrown} \cup {"none", "null_pointer"}

CallSet ==
  [at : Places, shape : Shapes, handle : Handles \cup {NoOne}, target : Handles \cup {NoOne},
   null : BOOLEAN, told : BOOLEAN, read : Seq(Nat), code : Codes]

TypeOK ==
  /\ state \in Sizes
  /\ open \subseteq Handles
  /\ holder \in [Handles -> Threads \cup {NoOne}]
  /\ lastError \in [Handles -> Threads \cup {NoOne}]
  /\ call \in [Threads -> CallSet \cup {Idle}]
  /\ DOMAIN out = Threads
  /\ overtaken \subseteq Threads /\ mixed \subseteq Threads

Busy(t) == call[t].at # "idle"
OnHandle(t) == Busy(t) /\ Locks(t) /\ call[t].handle # NoOne
Inside(t) == call[t].at \in {"working", "leaving"} /\ Locks(t)

(* Who waits, waits for the mutex of a handle. *)
WaitersNameHandles == \A t \in Threads : call[t].at = "waiting" => OnHandle(t)

(* A call fails at its end. *)
NoErrorYet == \A t \in Threads : call[t].at \in {"waiting", "working"} => call[t].code = "none"

(* Between lock and unlock a call holds the mutex of its handle. *)
InsideHolds == \A t \in Threads : Inside(t) => call[t].handle # NoOne /\ holder[call[t].handle] = t

(* A handle that a locking call names is one. *)
NamedIsOpen == \A t \in Threads : OnHandle(t) => call[t].handle \in open

(* What is to become a handle is none until the call succeeds ... *)
TargetIsClosed ==
  \A t \in Threads :
    Busy(t) /\ call[t].shape.does = "opens" =>
      /\ call[t].at \in {"waiting", "working"} => call[t].target \in Handles \ open
      /\ call[t].code # "none" => call[t].target \notin open

(* ... and no two calls make the same one. *)
TargetsDiffer ==
  \A t, u \in Threads :
    /\ t # u /\ Busy(t) /\ Busy(u)
    /\ call[t].shape.does = "opens" /\ call[u].shape.does = "opens" /\ call[t].target # NoOne
    => call[t].target # call[u].target

(* No call uses a handle that another one frees. *)
FreedIsUnused ==
  \A t, u \in Threads :
    t # u /\ OnHandle(t) /\ Busy(u) /\ call[u].shape.does = "frees" => call[t].handle # call[u].handle

(* While somebody is inside, the ended calls on the handle are overtaken. *)
EndedAreOvertaken ==
  \A t, u \in Threads :
    /\ OnHandle(t) /\ call[t].at = "done" /\ Inside(u) /\ call[u].handle = call[t].handle
    => t \in overtaken

TextsFit ==
  \A t \in Threads :
    OnHandle(t) /\ call[t].at = "done" /\ t \notin overtaken => lastError[call[t].handle] = Text(t)

IInv ==
  /\ TypeOK /\ WaitersNameHandles /\ NoErrorYet /\ InsideHolds /\ NamedIsOpen
  /\ TargetIsClosed /\ TargetsDiffer /\ FreedIsUnused /\ EndedAreOvertaken /\ TextsFit
-----------------------------------------------------------------------------
LEMMA IdleIsNoCall == Idle \notin CallSet /\ Idle.at = "idle" /\ \A c \in CallSet : c.at # "idle"
  BY DEF Idle, CallSet, Places

LEMMA BusyIsACall ==
  ASSUME TypeOK, NEW t \in Threads
  PROVE  Busy(t) <=> call[t] \in CallSet
  BY IdleIsNoCall DEF TypeOK, Busy

(* What a step of a running call leaves as it was. *)
Moves(t) ==
  /\ call[t] \in CallSet /\ call'[t] \in CallSet
  /\ call' = [call EXCEPT ![t] = call'[t]]
  /\ call'[t].shape = call[t].shape
  /\ call'[t].handle = call[t].handle /\ call'[t].target = call[t].target
  /\ call'[t].told = call[t].told

(* The ways in which the code updates the record of a call. *)
IsUpdate(c, d, place, code, read) ==
  /\ d \in CallSet
  /\ d.shape = c.shape /\ d.handle = c.handle /\ d.target = c.target /\ d.told = c.told
  /\ d.at = place /\ d.code = code /\ d.read = read

LEMMA Updated ==
  ASSUME NEW c \in CallSet, NEW place \in Places, NEW code \in Codes, NEW read \in Seq(Nat)
  PROVE  /\ IsUpdate(c, [c EXCEPT !.at = place], place, c.code, c.read)
         /\ IsUpdate(c, [c EXCEPT !.at = place, !.code = code, !.read = read], place, code, read)
         /\ IsUpdate(c, [c EXCEPT !.at = place, !.read = read], place, c.code, read)
         /\ IsUpdate(c, [c EXCEPT !.read = read], c.at, c.code, read)
  BY DEF CallSet, IsUpdate

LEMMA UpdateMoves ==
  ASSUME NEW t, call[t] \in CallSet, call' = [call EXCEPT ![t] = call'[t]], NEW place, NEW code, NEW read,
         IsUpdate(call[t], call'[t], place, code, read)
  PROVE  Moves(t)
  BY DEF Moves, IsUpdate

LEMMA Names ==
  /\ "working" \in Places /\ "leaving" \in Places /\ "done" \in Places /\ "waiting" \in Places
  /\ "none" \in Codes /\ "null_pointer" \in Codes /\ <<>> \in Seq(Nat)
  /\ Sizes \subseteq Nat /\ \A e \in Thrown : CodeOf(e) \in Codes
  BY CApiAssumption DEF Places, Codes

(* What each kind of step makes of the record. *)
LEMMA GoTo ==
  ASSUME TypeOK, NEW t \in Threads, call[t] \in CallSet, NEW place \in Places, Go(t, place)
  PROVE  Moves(t) /\ IsUpdate(call[t], call'[t], place, call[t].code, call[t].read)
<1>1. /\ call'[t] = [call[t] EXCEPT !.at = place]
      /\ call' = [call EXCEPT ![t] = call'[t]]
  BY DEF Go, TypeOK
<1>2. IsUpdate(call[t], call'[t], place, call[t].code, call[t].read)
  BY <1>1, Updated, Names
<1> QED
  BY <1>1, <1>2, UpdateMoves

LEMMA FailOf ==
  ASSUME TypeOK, NEW t \in Threads, call[t] \in CallSet, NEW code \in Codes, Fail(t, code)
  PROVE  Moves(t) /\ IsUpdate(call[t], call'[t], "leaving", code, <<>>)
<1>1. /\ call'[t] = [call[t] EXCEPT !.at = "leaving", !.code = code, !.read = <<>>]
      /\ call' = [call EXCEPT ![t] = call'[t]]
  BY DEF Fail, TypeOK
<1>2. IsUpdate(call[t], call'[t], "leaving", code, <<>>)
  <2>1. \A c \in CallSet : \A read \in Seq(Nat) :
          IsUpdate(c, [c EXCEPT !.at = "leaving", !.code = code, !.read = read], "leaving", code, read)
    BY Updated, Names
  <2> QED
    BY <1>1, <2>1, Names
<1> QED
  BY <1>1, <1>2, UpdateMoves

LEMMA LockMoves ==
  ASSUME TypeOK, NEW t \in Threads, Lock(t)
  PROVE  /\ Moves(t) /\ call'[t].at \in {"working", "leaving"} /\ call[t].at = "waiting"
         /\ call'[t].at = "leaving" => call'[t].code = "null_pointer" /\ call'[t].read = <<>>
         /\ call'[t].at = "working" => call'[t].code = call[t].code /\ call'[t].read = call[t].read
<1>1. call[t] \in CallSet
  BY BusyIsACall DEF Lock, Busy
<1>2. CASE Fail(t, "null_pointer")
  BY <1>1, <1>2, FailOf, Names DEF Lock, IsUpdate
<1>3. CASE Go(t, "working")
  BY <1>1, <1>3, GoTo, Names DEF Lock, IsUpdate
<1> QED
  BY <1>2, <1>3 DEF Lock, AfterLock

LEMMA ReadMoves ==
  ASSUME TypeOK, NEW t \in Threads, Read(t)
  PROVE  /\ Moves(t) /\ call'[t].at = "working" /\ call'[t].code = call[t].code
         /\ \E answer \in IF call[t].shape.check = "none" THEN Sizes ELSE {state} :
              call'[t].read = Append(call[t].read, answer)
<1>1. call[t] \in CallSet
  BY BusyIsACall DEF Read, Busy
<1>2. PICK answer \in IF call[t].shape.check = "none" THEN Sizes ELSE {state} :
        call' = [call EXCEPT ![t].read = Append(@, answer)]
  BY DEF Read
<1>3. answer \in Nat /\ Append(call[t].read, answer) \in Seq(Nat)
  BY <1>1, <1>2, Names DEF TypeOK, CallSet
<1>4. /\ call'[t] = [call[t] EXCEPT !.read = Append(call[t].read, answer)]
      /\ call' = [call EXCEPT ![t] = call'[t]]
  BY <1>2 DEF TypeOK
<1>5. IsUpdate(call[t], call'[t], call[t].at, call[t].code, Append(call[t].read, answer))
  BY <1>1, <1>3, <1>4, Updated, Names
<1>6. Moves(t)
  BY <1>1, <1>4, <1>5, UpdateMoves
<1> QED
  BY <1>2, <1>5, <1>6 DEF Read, IsUpdate

LEMMA SilentMoves ==
  ASSUME TypeOK, NEW t \in Threads, Silently(t)
  PROVE  /\ Moves(t) /\ call'[t].at = "done" /\ call'[t].code = call[t].code
         /\ ~Locks(t)
         /\ \E sum \in IF call[t].shape.does = "adds" THEN Sizes ELSE {0} :
              /\ call'[t].read = <<sum>>
              /\ out' = [out EXCEPT ![t] = IF call[t].shape.does = "clears" THEN Cleared
                                           ELSE [cells |-> <<sum>>, length |-> 1]]
<1>1. call[t] \in CallSet
  BY BusyIsACall DEF Silently, Busy
<1>2. PICK sum \in IF call[t].shape.does = "adds" THEN Sizes ELSE {0} :
        /\ call' = [call EXCEPT ![t].at = "done", ![t].read = <<sum>>]
        /\ out' = [out EXCEPT ![t] = IF call[t].shape.does = "clears" THEN Cleared
                                     ELSE [cells |-> <<sum>>, length |-> 1]]
  BY DEF Silently
<1>3. sum \in Nat /\ <<sum>> \in Seq(Nat)
  BY <1>2, Names
<1>4. /\ call'[t] = [call[t] EXCEPT !.at = "done", !.read = <<sum>>]
      /\ call' = [call EXCEPT ![t] = call'[t]]
  BY <1>2 DEF TypeOK
<1>5. ~Locks(t)
  BY <1>1, CApiAssumption DEF Silently, Silent, Locks, CallSet
<1>6. IsUpdate(call[t], call'[t], "done", call[t].code, <<sum>>)
  <2>1. \A c \in CallSet : \A read \in Seq(Nat) :
          IsUpdate(c, [c EXCEPT !.at = "done", !.read = read], "done", c.code, read)
    BY Updated, Names
  <2> QED
    BY <1>1, <1>3, <1>4, <2>1
<1>7. Moves(t)
  BY <1>1, <1>4, <1>6, UpdateMoves
<1> QED
  BY <1>2, <1>5, <1>6, <1>7 DEF IsUpdate

LEMMA ThrowMoves ==
  ASSUME TypeOK, NEW t \in Threads, Throw(t)
  PROVE  Moves(t) /\ call'[t].at = "leaving" /\ call'[t].code # "none" /\ call'[t].read = <<>>
<1>1. call[t] \in CallSet
  BY BusyIsACall DEF Throw, Busy
<1>2. PICK e \in Thrown : Fail(t, CodeOf(e))
  BY DEF Throw
<1> QED
  BY <1>1, <1>2, FailOf, Names, CodeIsOfAnError DEF IsUpdate

(* The steps that only go on, to leaving or to done. *)
LEMMA GoMoves ==
  ASSUME TypeOK, NEW t \in Threads,
         Answer(t) \/ Change(t) \/ Open(t) \/ Free(t) \/ Leave(t) \/ LeaveUnlocked(t)
  PROVE  /\ Moves(t) /\ call'[t].code = call[t].code /\ call'[t].read = call[t].read
         /\ call'[t].at = IF Leave(t) \/ LeaveUnlocked(t) THEN "done" ELSE "leaving"
<1>1. call[t] \in CallSet
  BY BusyIsACall DEF Busy, Answer, Change, Open, Free, Leave, LeaveUnlocked
<1>2. Go(t, IF Leave(t) \/ LeaveUnlocked(t) THEN "done" ELSE "leaving")
  BY DEF Answer, Change, Open, Free, Leave, LeaveUnlocked
<1> QED
  BY <1>1, <1>2, GoTo, Names DEF IsUpdate

LEMMA StepMoves ==
  ASSUME TypeOK, NEW t \in Threads, Step(t)
  PROVE  /\ Moves(t)
         /\ call[t].at \in {"working", "leaving"}
         /\ call'[t].at \in {"working", "leaving", "done"}
         /\ call'[t].at = "working" => call[t].at = "working"
         /\ call[t].at = "leaving" => call'[t].at = "done" /\ call'[t].code = call[t].code
  BY ReadMoves, SilentMoves, ThrowMoves, GoMoves
     DEF Step, Read, Answer, Change, Open, Free, Silently, Throw, Leave, LeaveUnlocked
-----------------------------------------------------------------------------
(* A new call is that of an idle thread. *)
Starts(t) ==
  /\ call[t].at = "idle"
  /\ call'[t] \in CallSet
  /\ call' = [call EXCEPT ![t] = call'[t]]
  /\ call'[t].read = <<>>

LEMMA RefuseStarts ==
  ASSUME TypeOK, NEW t \in Threads, NEW shape \in Shapes, Refuse(t, shape)
  PROVE  /\ Starts(t) /\ call'[t].at = "done" /\ call'[t].code = "null_pointer"
         /\ call'[t].handle = NoOne /\ call'[t].target = NoOne
<1> DEFINE c == [NewCall("done", shape, NoOne, NoOne, TRUE, FALSE) EXCEPT !.code = "null_pointer"]
<1>1. call'[t] = c /\ call' = [call EXCEPT ![t] = call'[t]]
  BY DEF Refuse, TypeOK
<1>2. c \in CallSet /\ c.at = "done" /\ c.code = "null_pointer" /\ c.handle = NoOne
      /\ c.target = NoOne /\ c.read = <<>>
  BY Names DEF NewCall, CallSet
<1> QED
  BY <1>1, <1>2 DEF Refuse, Starts

LEMMA FreshCall ==
  ASSUME NEW place \in Places, NEW shape \in Shapes, NEW h \in Handles \cup {NoOne},
         NEW target \in Handles \cup {NoOne}, NEW null \in BOOLEAN, NEW told \in BOOLEAN
  PROVE  LET c == NewCall(place, shape, h, target, null, told)
         IN  /\ c \in CallSet /\ c.at = place /\ c.shape = shape /\ c.handle = h
             /\ c.target = target /\ c.read = <<>> /\ c.code = "none"
  BY Names DEF NewCall, CallSet

(* What a call without a mutex may name. *)
UnlockedUse(shape) == IF shape.does = "opens" THEN Handles ELSE Handles \cup {NoOne}

LEMMA UnlockedStarts ==
  ASSUME TypeOK, NEW t \in Threads, NEW shape \in Shapes, NEW h \in UnlockedUse(shape),
         NEW told \in BOOLEAN, CallUnlocked(t, shape, h, told)
  PROVE  /\ Starts(t) /\ call'[t].at = "working" /\ call'[t].code = "none"
         /\ call'[t].shape = shape /\ call'[t].handle = h /\ call'[t].target = h
         /\ ~shape.locks /\ h \in Handles \cup {NoOne}
         /\ shape.does = "opens" => h \notin open /\ Unused(h)
         /\ shape.does = "frees" => Unused(h)
<1> DEFINE c == NewCall("working", shape, h, h, FALSE, told)
<1>1. /\ call'[t] = c
      /\ call' = [call EXCEPT ![t] = call'[t]]
  BY DEF CallUnlocked, TypeOK
<1>4. h \in Handles \cup {NoOne}
  BY DEF UnlockedUse
<1>2. /\ c \in CallSet /\ c.at = "working" /\ c.shape = shape /\ c.handle = h
      /\ c.target = h /\ c.read = <<>> /\ c.code = "none"
  BY <1>4, Names DEF NewCall, CallSet
<1>3. /\ call[t].at = "idle" /\ ~shape.locks
      /\ shape.does = "opens" => h \notin open /\ Unused(h)
      /\ shape.does = "frees" => Unused(h)
  BY DEF CallUnlocked
<1> HIDE DEF c
<1> QED
  BY <1>1, <1>2, <1>3, <1>4 DEF Starts

LEMMA HandleStarts ==
  ASSUME TypeOK, NEW t \in Threads, NEW shape \in Shapes, NEW h \in Handles,
         NEW target \in Handles, NEW null \in BOOLEAN, NEW told \in BOOLEAN,
         CallOnHandle(t, shape, h, target, null, told)
  PROVE  /\ Starts(t) /\ call'[t].at = "waiting" /\ call'[t].code = "none"
         /\ call'[t].shape = shape /\ call'[t].handle = h /\ call'[t].target = target
         /\ shape.locks /\ h \in open /\ ~BeingFreed(h)
         /\ shape.does = "opens" => target \notin open /\ Unused(target)
<1>1. /\ call'[t] = NewCall("waiting", shape, h, target, null, told)
      /\ call' = [call EXCEPT ![t] = call'[t]]
  BY DEF CallOnHandle, TypeOK
<1> QED
  BY <1>1, FreshCall, Names DEF CallOnHandle, Starts

(* The three ways in which a thread begins a call. *)
LEMMA BeginCases ==
  ASSUME NEW t \in Threads, NEW shape \in Shapes, Begin(t, shape)
  PROVE  \/ Refuse(t, shape)
         \/ \E h \in UnlockedUse(shape), told \in BOOLEAN : CallUnlocked(t, shape, h, told)
         \/ \E h \in Handles, target \in Handles, null \in BOOLEAN, told \in BOOLEAN :
              CallOnHandle(t, shape, h, target, null, told)
<1>1. shape.locks => shape.check # "none"
  BY CApiAssumption
<1> QED
  BY <1>1 DEF Begin, CallOnHandle, UnlockedUse

LEMMA OthersStay ==
  ASSUME TypeOK, NEW t \in Threads, call' = [call EXCEPT ![t] = call'[t]], NEW u \in Threads, u # t
  PROVE  call'[u] = call[u]
  BY DEF TypeOK

LEMMA CallType ==
  ASSUME TypeOK, NEW t \in Threads, call' = [call EXCEPT ![t] = call'[t]], call'[t] \in CallSet \cup {Idle}
  PROVE  call' \in [Threads -> CallSet \cup {Idle}]
  BY DEF TypeOK

LEMMA BeginInv ==
  ASSUME IInv, NEW t \in Threads, NEW shape \in Shapes, Begin(t, shape)
  PROVE  IInv'
<1>1. TypeOK
  BY DEF IInv
<1>2. Starts(t) /\ call'[t].shape.locks \in BOOLEAN
  <2>1. Starts(t)
    BY <1>1, BeginCases, RefuseStarts, UnlockedStarts, HandleStarts
  <2> QED
    BY <2>1, CApiAssumption DEF Starts, CallSet
<1>3. /\ UNCHANGED <<state, open, holder, lastError, out, overtaken>>
      /\ mixed' \in {mixed, mixed \ {t}}
  BY BeginCases DEF Refuse, CallUnlocked, CallOnHandle
<1>4. \A u \in Threads \ {t} : call'[u] = call[u]
  BY <1>1, <1>2, OthersStay DEF Starts
<1>5. call'[t].at # "idle"
  BY <1>2, IdleIsNoCall DEF Starts
<1>6. TypeOK'
  BY <1>1, <1>2, <1>3, CallType DEF TypeOK, Starts
<1>7. ~Inside(t)' /\ (OnHandle(t)' => call'[t].at # "done")
  <2>1. CASE Refuse(t, shape)
    BY <1>1, <2>1, RefuseStarts DEF Inside, OnHandle, Busy
  <2>2. CASE \E h \in UnlockedUse(shape), told \in BOOLEAN : CallUnlocked(t, shape, h, told)
    BY <1>1, <2>2, UnlockedStarts DEF Inside, OnHandle, Busy, Locks
  <2>3. CASE \E h \in Handles, target \in Handles, null \in BOOLEAN, told \in BOOLEAN :
               CallOnHandle(t, shape, h, target, null, told)
    BY <1>1, <2>3, HandleStarts DEF Inside
  <2> QED
    BY <2>1, <2>2, <2>3, BeginCases
<1>16. WaitersNameHandles'
  <2>1. call'[t].at = "waiting" => OnHandle(t)'
    <3>1. CASE Refuse(t, shape)
      BY <1>1, <3>1, RefuseStarts
    <3>2. CASE \E h \in UnlockedUse(shape), told \in BOOLEAN : CallUnlocked(t, shape, h, told)
      BY <1>1, <3>2, UnlockedStarts
    <3>3. CASE \E h \in Handles, target \in Handles, null \in BOOLEAN, told \in BOOLEAN :
                 CallOnHandle(t, shape, h, target, null, told)
      BY <1>1, <3>3, HandleStarts, CApiAssumption DEF OnHandle, Busy, Locks
    <3> QED
      BY <3>1, <3>2, <3>3, BeginCases
  <2> QED
    BY <1>3, <1>4, <2>1 DEF IInv, WaitersNameHandles, OnHandle, Busy, Locks
<1>17. NoErrorYet'
  <2>1. call'[t].at \in {"waiting", "working"} => call'[t].code = "none"
    BY <1>1, BeginCases, RefuseStarts, UnlockedStarts, HandleStarts
  <2> QED
    BY <1>4, <2>1 DEF IInv, NoErrorYet
<1>8. InsideHolds'
  BY <1>3, <1>4, <1>7 DEF IInv, InsideHolds, Inside, Locks
<1>9. EndedAreOvertaken'
  BY <1>3, <1>4, <1>7 DEF IInv, EndedAreOvertaken, Inside, OnHandle, Busy, Locks
<1>10. TextsFit'
  BY <1>3, <1>4, <1>7 DEF IInv, TextsFit, OnHandle, Busy, Locks, Text
<1>11. NamedIsOpen'
  <2>1. OnHandle(t)' => call'[t].handle \in open
    <3>1. CASE Refuse(t, shape)
      BY <1>1, <3>1, RefuseStarts DEF OnHandle
    <3>2. CASE \E h \in UnlockedUse(shape), told \in BOOLEAN : CallUnlocked(t, shape, h, told)
      BY <1>1, <3>2, UnlockedStarts DEF OnHandle, Locks
    <3>3. CASE \E h \in Handles, target \in Handles, null \in BOOLEAN, told \in BOOLEAN :
                 CallOnHandle(t, shape, h, target, null, told)
      BY <1>1, <3>3, HandleStarts
    <3> QED
      BY <3>1, <3>2, <3>3, BeginCases
  <2> QED
    BY <1>3, <1>4, <2>1 DEF IInv, NamedIsOpen, OnHandle, Busy, Locks
<1>12. TargetIsClosed'
  <2>1. call'[t].shape.does = "opens" =>
          /\ call'[t].target \notin open
          /\ call'[t].at = "done" \/ call'[t].target \in Handles
    <3>1. CASE Refuse(t, shape)
      BY <1>1, <3>1, RefuseStarts, CApiAssumption DEF TypeOK
    <3>2. CASE \E h \in UnlockedUse(shape), told \in BOOLEAN : CallUnlocked(t, shape, h, told)
      BY <1>1, <3>2, UnlockedStarts DEF UnlockedUse
    <3>3. CASE \E h \in Handles, target \in Handles, null \in BOOLEAN, told \in BOOLEAN :
                 CallOnHandle(t, shape, h, target, null, told)
      BY <1>1, <3>3, HandleStarts
    <3> QED
      BY <3>1, <3>2, <3>3, BeginCases
  <2> QED
    BY <1>3, <1>4, <2>1 DEF IInv, TargetIsClosed, Busy
<1>13. /\ call'[t].shape.does \in {"opens", "frees"} /\ call'[t].target # NoOne =>
            \A u \in Threads \ {t} : Busy(u) => call'[t].target \notin {call[u].handle, call[u].target}
       /\ call'[t].shape.does = "frees" => call'[t].handle = call'[t].target
       /\ OnHandle(t)' =>
            \A u \in Threads \ {t} : Busy(u) /\ call[u].shape.does = "frees" => call'[t].handle # call[u].handle
  <2>1. CASE Refuse(t, shape)
    BY <1>1, <2>1, RefuseStarts DEF OnHandle
  <2>2. CASE \E h \in UnlockedUse(shape), told \in BOOLEAN : CallUnlocked(t, shape, h, told)
    BY <1>1, <2>2, UnlockedStarts DEF OnHandle, Locks, Unused, Uses, Busy
  <2>3. CASE \E h \in Handles, target \in Handles, null \in BOOLEAN, told \in BOOLEAN :
               CallOnHandle(t, shape, h, target, null, told)
    BY <1>1, <2>3, HandleStarts, CApiAssumption DEF BeingFreed, OnHandle, Locks, Unused, Uses, Busy
  <2> QED
    BY <2>1, <2>2, <2>3, BeginCases
<1>14. TargetsDiffer'
  BY <1>4, <1>13 DEF IInv, TargetsDiffer, Busy
<1>15. FreedIsUnused'
  BY <1>4, <1>13 DEF IInv, FreedIsUnused, OnHandle, Busy, Locks
<1> QED
  BY <1>6, <1>8, <1>9, <1>10, <1>11, <1>12, <1>14, <1>15, <1>16, <1>17 DEF IInv

(* A step of a running call disturbs no agreement about who names what. *)
LEMMA MovesKeepNames ==
  ASSUME IInv, NEW t \in Threads, Moves(t)
  PROVE  TargetsDiffer' /\ FreedIsUnused'
<1>1. TypeOK /\ call[t].at # "idle" /\ call'[t].at # "idle"
  BY IdleIsNoCall DEF IInv, Moves
<1>2. \A u \in Threads : /\ Busy(u)' <=> Busy(u)
                         /\ call'[u].shape = call[u].shape /\ call'[u].handle = call[u].handle
                         /\ call'[u].target = call[u].target
  BY <1>1, OthersStay DEF Moves, Busy
<1> QED
  BY <1>2 DEF IInv, TargetsDiffer, FreedIsUnused, OnHandle, Locks

LEMMA LockInv ==
  ASSUME IInv, NEW t \in Threads, Lock(t)
  PROVE  IInv'
<1> DEFINE h == call[t].handle
<1>1. TypeOK
  BY DEF IInv
<1>2. /\ Moves(t) /\ call'[t].at \in {"working", "leaving"} /\ call[t].at = "waiting"
      /\ call'[t].at = "working" => call'[t].code = call[t].code
  BY <1>1, LockMoves
<1>3. /\ holder[h] = NoOne /\ holder' = [holder EXCEPT ![h] = t]
      /\ overtaken' = (overtaken \ {t}) \cup {u \in Threads \ {t} : call[u].at = "done" /\ call[u].handle = h}
      /\ UNCHANGED <<state, open, lastError, out, mixed>>
  BY DEF Lock, Overtake
<1>4. \A u \in Threads \ {t} : call'[u] = call[u]
  BY <1>1, <1>2, OthersStay DEF Moves
<1>5. OnHandle(t) /\ OnHandle(t)' /\ h \in Handles /\ Inside(t)' /\ call'[t].handle = h
  BY <1>2, IdleIsNoCall DEF IInv, WaitersNameHandles, OnHandle, Moves, CallSet, Busy, Locks, Inside
<1>6. TypeOK'
  BY <1>1, <1>2, <1>3, CallType DEF TypeOK, Moves
<1>7. WaitersNameHandles'
  BY <1>2, <1>4 DEF IInv, WaitersNameHandles, OnHandle, Busy, Locks
<1>14. NoErrorYet'
  BY <1>2, <1>4 DEF IInv, NoErrorYet
<1>8. \A u \in Threads \ {t} : Inside(u) => call[u].handle # h
  BY <1>1, <1>3, CApiAssumption DEF IInv, InsideHolds
<1>9. InsideHolds'
  <2> SUFFICES ASSUME NEW u \in Threads, Inside(u)'
               PROVE  call'[u].handle # NoOne /\ holder'[call'[u].handle] = u
    BY DEF InsideHolds
  <2>1. CASE u = t
    BY <1>1, <1>3, <1>5, <2>1, CApiAssumption DEF TypeOK
  <2>2. CASE u # t
    <3>1. Inside(u) /\ call'[u].handle = call[u].handle
      BY <1>4, <2>2 DEF Inside, Locks
    <3>2. call[u].handle # NoOne /\ holder[call[u].handle] = u /\ call[u].handle # h
      BY <1>8, <2>2, <3>1 DEF IInv, InsideHolds
    <3>3. call[u].handle \in Handles
      BY <1>1, <3>1, <3>2, BusyIsACall DEF Inside, Busy, CallSet
    <3> QED
      BY <1>1, <1>3, <3>1, <3>2, <3>3 DEF TypeOK
  <2> QED
    BY <2>1, <2>2
<1>10. NamedIsOpen'
  BY <1>3, <1>4, <1>5 DEF IInv, NamedIsOpen, OnHandle, Busy, Locks
<1>11. TargetIsClosed'
  BY <1>2, <1>3, <1>4, IdleIsNoCall DEF IInv, TargetIsClosed, Busy, Moves
<1>12. EndedAreOvertaken'
  <2> SUFFICES ASSUME NEW u \in Threads, NEW v \in Threads, OnHandle(u)', call'[u].at = "done",
                      Inside(v)', call'[v].handle = call'[u].handle
               PROVE  u \in overtaken'
    BY DEF EndedAreOvertaken
  <2>1. u # t /\ OnHandle(u) /\ call[u].at = "done" /\ call'[u] = call[u]
    BY <1>2, <1>4 DEF OnHandle, Busy, Locks
  <2>2. CASE v = t
    BY <1>3, <1>5, <2>1, <2>2
  <2>3. CASE v # t
    <3>1. Inside(v) /\ call[v].handle = call[u].handle
      BY <1>4, <2>1, <2>3 DEF Inside, Locks
    <3> QED
      BY <1>3, <2>1, <3>1 DEF IInv, EndedAreOvertaken
  <2> QED
    BY <2>2, <2>3
<1>13. TextsFit'
  BY <1>2, <1>3, <1>4 DEF IInv, TextsFit, OnHandle, Busy, Locks, Text
<1> QED
  BY <1>2, <1>6, <1>7, <1>9, <1>10, <1>11, <1>12, <1>13, <1>14, MovesKeepNames DEF IInv

(* What remains of the invariant when a step leaves mutexes, handles and   *)
(* texts alone.                                                            *)
LEMMA PlainStep ==
  ASSUME IInv, NEW t \in Threads, Step(t), ~Leave(t),
         state' \in Sizes, DOMAIN out' = Threads, mixed' \subseteq Threads,
         UNCHANGED <<open, holder, lastError, overtaken>>
  PROVE  IInv'
<1>1. TypeOK
  BY DEF IInv
<1>2. /\ Moves(t)
      /\ call[t].at \in {"working", "leaving"}
      /\ call'[t].at \in {"working", "leaving", "done"}
      /\ call'[t].at = "working" => call[t].at = "working"
      /\ call[t].at = "leaving" => call'[t].at = "done" /\ call'[t].code = call[t].code
  BY <1>1, StepMoves
<1>3. \A u \in Threads \ {t} : call'[u] = call[u]
  BY <1>1, <1>2, OthersStay DEF Moves
<1>4. call'[t].at = "done" => ~Locks(t) /\ ~OnHandle(t)'
  BY <1>1, <1>2, ReadMoves, SilentMoves, ThrowMoves, GoMoves
     DEF Step, LeaveUnlocked, OnHandle, Busy, Locks, Moves
<1>5. TypeOK'
  BY <1>1, <1>2, CallType DEF TypeOK, Moves
<1>6. WaitersNameHandles'
  BY <1>2, <1>3 DEF IInv, WaitersNameHandles, OnHandle, Busy, Locks
<1>15. NoErrorYet'
  BY <1>1, <1>2, <1>3, ReadMoves, SilentMoves, ThrowMoves, GoMoves DEF IInv, NoErrorYet, Step
<1>7. \A u \in Threads : Inside(u)' => Inside(u) /\ call'[u].handle = call[u].handle
  BY <1>2, <1>3 DEF Inside, Locks, Moves
<1>8. InsideHolds'
  BY <1>7 DEF IInv, InsideHolds
<1>9. \A u \in Threads : OnHandle(u)' => OnHandle(u) /\ call'[u].handle = call[u].handle
  BY <1>2, <1>3 DEF OnHandle, Busy, Locks, Moves
<1>10. NamedIsOpen'
  BY <1>9 DEF IInv, NamedIsOpen
<1>14. TargetIsClosed'
  <2>1. \A u \in Threads : /\ Busy(u)' => Busy(u)
                            /\ call'[u].shape = call[u].shape /\ call'[u].target = call[u].target
    BY <1>2, <1>3 DEF Busy, Moves
  <2>2. call[t].at \in {"waiting", "working"} \/ call'[t].code = call[t].code
    BY <1>2
  <2> QED
    BY <1>2, <1>3, <2>1, <2>2 DEF IInv, TargetIsClosed
<1>11. \A u \in Threads : OnHandle(u)' /\ call'[u].at = "done" => call'[u] = call[u]
  BY <1>3, <1>4
<1>12. EndedAreOvertaken'
  BY <1>7, <1>9, <1>11 DEF IInv, EndedAreOvertaken
<1>13. TextsFit'
  BY <1>9, <1>11 DEF IInv, TextsFit, Text
<1> QED
  BY <1>2, <1>5, <1>6, <1>8, <1>10, <1>12, <1>13, <1>14, <1>15, MovesKeepNames DEF IInv

LEMMA OpenInv ==
  ASSUME IInv, NEW t \in Threads, Open(t)
  PROVE  IInv'
<1> DEFINE h == call[t].target
<1>1. TypeOK
  BY DEF IInv
<1>2. /\ Moves(t) /\ call'[t].code = call[t].code
      /\ call[t].at = "working" /\ call'[t].at = "leaving"
  BY <1>1, GoMoves DEF Open, Leave, LeaveUnlocked
<1>3. /\ call[t].shape.does = "opens"
      /\ open' = open \cup {h} /\ lastError' = [lastError EXCEPT ![h] = NoOne]
      /\ UNCHANGED <<state, holder, out, overtaken, mixed>>
  BY DEF Open, NewHandle
<1>4. \A u \in Threads \ {t} : call'[u] = call[u]
  BY <1>1, <1>2, OthersStay DEF Moves
<1>5. h \in Handles \ open /\ Busy(t)
  BY <1>2, <1>3 DEF IInv, TargetIsClosed, Busy
<1>6. TypeOK'
  BY <1>1, <1>2, <1>3, <1>5, CallType DEF TypeOK, Moves
<1>7. WaitersNameHandles'
  BY <1>2, <1>4 DEF IInv, WaitersNameHandles, OnHandle, Busy, Locks
<1>15. NoErrorYet'
  BY <1>2, <1>4 DEF IInv, NoErrorYet
<1>8. \A u \in Threads : Inside(u)' => Inside(u) /\ call'[u].handle = call[u].handle
  BY <1>2, <1>4 DEF Inside, Locks, Moves
<1>9. InsideHolds'
  BY <1>3, <1>8 DEF IInv, InsideHolds
<1>10. \A u \in Threads : OnHandle(u)' => OnHandle(u) /\ call'[u].handle = call[u].handle
  BY <1>2, <1>4 DEF OnHandle, Busy, Locks, Moves
<1>11. NamedIsOpen'
  BY <1>3, <1>10 DEF IInv, NamedIsOpen
<1>12. TargetIsClosed'
  <2> SUFFICES ASSUME NEW u \in Threads, Busy(u)', call'[u].shape.does = "opens",
                      call'[u].at \in {"waiting", "working"} \/ call'[u].code # "none"
               PROVE  /\ call'[u].at \in {"waiting", "working"} => call'[u].target \in Handles
                      /\ call'[u].target \notin open'
    BY DEF TargetIsClosed
  <2>1. call'[t].code = "none"
    BY <1>2 DEF IInv, NoErrorYet
  <2>2. u # t /\ call'[u] = call[u] /\ Busy(u)
    BY <1>2, <1>4, <2>1 DEF Busy
  <2>3. call[u].target # h
    BY <1>3, <1>5, <2>2, CApiAssumption DEF IInv, TargetsDiffer
  <2> QED
    BY <1>3, <2>2, <2>3 DEF IInv, TargetIsClosed
<1>13. EndedAreOvertaken'
  BY <1>2, <1>3, <1>4, <1>8, <1>10 DEF IInv, EndedAreOvertaken
<1>14. TextsFit'
  <2> SUFFICES ASSUME NEW u \in Threads, OnHandle(u)', call'[u].at = "done", u \notin overtaken'
               PROVE  lastError'[call'[u].handle] = Text(u)'
    BY DEF TextsFit
  <2>1. OnHandle(u) /\ call'[u] = call[u]
    BY <1>2, <1>4, <1>10
  <2>2. call[u].handle # h
    BY <1>5, <2>1 DEF IInv, NamedIsOpen
  <2>3. call[u].handle \in Handles
    BY <1>1, <2>1, BusyIsACall DEF OnHandle, CallSet
  <2> QED
    BY <1>1, <1>3, <2>1, <2>2, <2>3 DEF IInv, TypeOK, TextsFit, Text
<1> QED
  BY <1>2, <1>6, <1>7, <1>9, <1>11, <1>12, <1>13, <1>14, <1>15, MovesKeepNames DEF IInv

LEMMA FreeInv ==
  ASSUME IInv, NEW t \in Threads, Free(t)
  PROVE  IInv'
<1> DEFINE h == call[t].handle
<1>1. TypeOK
  BY DEF IInv
<1>2. /\ Moves(t) /\ call'[t].code = call[t].code
      /\ call[t].at = "working" /\ call'[t].at = "leaving"
  BY <1>1, GoMoves DEF Free, Leave, LeaveUnlocked
<1>3. /\ call[t].shape.does = "frees"
      /\ open' = open \ {h} /\ lastError' = [lastError EXCEPT ![h] = NoOne]
      /\ UNCHANGED <<state, holder, out, overtaken, mixed>>
  BY DEF Free
<1>4. \A u \in Threads \ {t} : call'[u] = call[u]
  BY <1>1, <1>2, OthersStay DEF Moves
<1>5. ~Locks(t) /\ ~OnHandle(t)' /\ Busy(t)
  BY <1>2, <1>3, CApiAssumption DEF Moves, CallSet, Locks, OnHandle, Busy
<1>6. TypeOK'
  BY <1>1, <1>2, <1>3, CallType DEF TypeOK, Moves
<1>7. WaitersNameHandles'
  BY <1>2, <1>4 DEF IInv, WaitersNameHandles, OnHandle, Busy, Locks
<1>8. NoErrorYet'
  BY <1>2, <1>4 DEF IInv, NoErrorYet
<1>9. \A u \in Threads : Inside(u)' => Inside(u) /\ call'[u].handle = call[u].handle
  BY <1>2, <1>4 DEF Inside, Locks, Moves
<1>10. InsideHolds'
  BY <1>3, <1>9 DEF IInv, InsideHolds
<1>11. \A u \in Threads : OnHandle(u)' => OnHandle(u) /\ call'[u] = call[u] /\ call[u].handle # h
  <2> SUFFICES ASSUME NEW u \in Threads, OnHandle(u)'
               PROVE  OnHandle(u) /\ call'[u] = call[u] /\ call[u].handle # h
    OBVIOUS
  <2>1. u # t /\ call'[u] = call[u]
    BY <1>4, <1>5
  <2>2. OnHandle(u)
    BY <2>1 DEF OnHandle, Busy, Locks
  <2> QED
    BY <1>3, <1>5, <2>1, <2>2 DEF IInv, FreedIsUnused
<1>12. NamedIsOpen'
  BY <1>3, <1>11 DEF IInv, NamedIsOpen
<1>13. TargetIsClosed'
  <2>1. \A u \in Threads : Busy(u)' /\ call'[u].shape.does = "opens" => u # t /\ call'[u] = call[u]
    BY <1>2, <1>3, <1>4 DEF Moves
  <2> QED
    BY <1>3, <2>1 DEF IInv, TargetIsClosed, Busy
<1>14. EndedAreOvertaken'
  BY <1>3, <1>9, <1>11 DEF IInv, EndedAreOvertaken
<1>15. TextsFit'
  <2> SUFFICES ASSUME NEW u \in Threads, OnHandle(u)', call'[u].at = "done", u \notin overtaken'
               PROVE  lastError'[call'[u].handle] = Text(u)'
    BY DEF TextsFit
  <2>1. OnHandle(u) /\ call'[u] = call[u] /\ call[u].handle # h
    BY <1>11
  <2>2. call[u].handle \in Handles
    BY <1>1, <2>1, BusyIsACall DEF OnHandle, CallSet
  <2> QED
    BY <1>1, <1>3, <2>1, <2>2 DEF IInv, TypeOK, TextsFit, Text
<1> QED
  BY <1>2, <1>6, <1>7, <1>8, <1>10, <1>12, <1>13, <1>14, <1>15, MovesKeepNames DEF IInv

LEMMA LeaveInv ==
  ASSUME IInv, NEW t \in Threads, Leave(t)
  PROVE  IInv'
<1> DEFINE h == call[t].handle
<1>1. TypeOK
  BY DEF IInv
<1>2. /\ Moves(t) /\ call'[t].code = call[t].code
      /\ call[t].at = "leaving" /\ call'[t].at = "done"
  BY <1>1, GoMoves DEF Leave
<1>3. /\ Inside(t)
      /\ lastError' = [lastError EXCEPT ![h] = Text(t)]
      /\ holder' = [holder EXCEPT ![h] = NoOne]
      /\ UNCHANGED <<state, open, out, overtaken, mixed>>
  BY DEF Leave, Inside
<1>4. \A u \in Threads \ {t} : call'[u] = call[u]
  BY <1>1, <1>2, OthersStay DEF Moves
<1>5. holder[h] = t /\ h \in Handles
  BY <1>2, <1>3 DEF IInv, InsideHolds, Moves, CallSet
<1>6. TypeOK'
  BY <1>1, <1>2, <1>3, CallType DEF TypeOK, Moves, Text
<1>7. WaitersNameHandles'
  BY <1>2, <1>4 DEF IInv, WaitersNameHandles, OnHandle, Busy, Locks
<1>8. NoErrorYet'
  BY <1>2, <1>4 DEF IInv, NoErrorYet
<1>9. \A u \in Threads : Inside(u)' => u # t /\ Inside(u) /\ call'[u] = call[u] /\ call[u].handle \in Handles \ {h}
  <2> SUFFICES ASSUME NEW u \in Threads, Inside(u)'
               PROVE  u # t /\ Inside(u) /\ call'[u] = call[u] /\ call[u].handle \in Handles \ {h}
    OBVIOUS
  <2>1. u # t /\ call'[u] = call[u]
    BY <1>2, <1>4 DEF Inside
  <2>2. Inside(u)
    BY <2>1 DEF Inside, Locks
  <2>3. call[u].handle # NoOne /\ call[u].handle # h
    BY <1>5, <2>1, <2>2 DEF IInv, InsideHolds
  <2> QED
    BY <1>1, <2>1, <2>2, <2>3, BusyIsACall DEF Inside, Busy, CallSet
<1>10. InsideHolds'
  BY <1>1, <1>3, <1>5, <1>9 DEF IInv, TypeOK, InsideHolds
<1>11. \A u \in Threads : OnHandle(u)' => OnHandle(u) /\ call'[u].handle = call[u].handle
  BY <1>2, <1>4 DEF OnHandle, Busy, Locks, Moves
<1>12. NamedIsOpen'
  BY <1>3, <1>11 DEF IInv, NamedIsOpen
<1>13. TargetIsClosed'
  <2> SUFFICES ASSUME NEW u \in Threads, Busy(u)', call'[u].shape.does = "opens"
               PROVE  /\ call'[u].at \in {"waiting", "working"} => call'[u].target \in Handles \ open'
                      /\ call'[u].code # "none" => call'[u].target \notin open'
    BY DEF TargetIsClosed
  <2>1. CASE u = t
    <3>1. Busy(t) /\ call[t].shape.does = "opens"
      BY <1>2, <2>1 DEF Busy, Moves
    <3> QED
      BY <1>2, <1>3, <2>1, <3>1 DEF IInv, TargetIsClosed, Moves
  <2>2. CASE u # t
    BY <1>3, <1>4, <2>2 DEF IInv, TargetIsClosed, Busy
  <2> QED
    BY <2>1, <2>2
<1>14. EndedAreOvertaken'
  BY <1>2, <1>3, <1>4, <1>9, <1>11 DEF IInv, EndedAreOvertaken, Moves
<1>15. TextsFit'
  <2> SUFFICES ASSUME NEW u \in Threads, OnHandle(u)', call'[u].at = "done", u \notin overtaken'
               PROVE  lastError'[call'[u].handle] = Text(u)'
    BY DEF TextsFit
  <2>1. CASE u = t
    BY <1>1, <1>2, <1>3, <1>5, <2>1 DEF TypeOK, Text, Moves
  <2>2. CASE u # t
    <3>1. OnHandle(u) /\ call'[u] = call[u] /\ call[u].at = "done" /\ u \notin overtaken
      BY <1>3, <1>4, <1>11, <2>2
    <3>2. call[u].handle # h
      BY <1>3, <3>1 DEF IInv, EndedAreOvertaken
    <3>3. call[u].handle \in Handles
      BY <1>1, <3>1, BusyIsACall DEF OnHandle, CallSet
    <3> QED
      BY <1>1, <1>3, <3>1, <3>2, <3>3 DEF IInv, TypeOK, TextsFit, Text
  <2> QED
    BY <2>1, <2>2
<1> QED
  BY <1>2, <1>6, <1>7, <1>8, <1>10, <1>12, <1>13, <1>14, <1>15, MovesKeepNames DEF IInv

LEMMA StepInv ==
  ASSUME IInv, NEW t \in Threads, Step(t)
  PROVE  IInv'
<1>1. TypeOK /\ 0 \in Sizes
  BY CApiAssumption DEF IInv
<1>2. CASE Read(t) \/ Answer(t) \/ Change(t) \/ Silently(t) \/ Throw(t) \/ LeaveUnlocked(t)
  <2>1. ~Leave(t)
    BY <1>2 DEF Read, Answer, Change, Silently, Throw, LeaveUnlocked, Leave
  <2>2. /\ state' \in Sizes /\ DOMAIN out' = Threads /\ mixed' \subseteq Threads
        /\ UNCHANGED <<open, holder, lastError, overtaken>>
    BY <1>1, <1>2 DEF Read, Answer, Change, Silently, Throw, LeaveUnlocked, TypeOK
  <2> QED
    BY <2>1, <2>2, PlainStep
<1>3. CASE Open(t)
  BY <1>3, OpenInv
<1>4. CASE Free(t)
  BY <1>4, FreeInv
<1>5. CASE Leave(t)
  BY <1>5, LeaveInv
<1> QED
  BY <1>2, <1>3, <1>4, <1>5 DEF Step

LEMMA ReturnInv ==
  ASSUME IInv, NEW t \in Threads, Return(t)
  PROVE  IInv'
<1>1. TypeOK
  BY DEF IInv
<1>2. /\ call'[t] = Idle /\ call' = [call EXCEPT ![t] = call'[t]]
      /\ overtaken' = overtaken \ {t} /\ mixed' = mixed \ {t}
      /\ DOMAIN out' = Threads
      /\ UNCHANGED <<state, open, holder, lastError>>
  BY <1>1 DEF Return, TypeOK
<1>3. \A u \in Threads : Busy(u)' => u # t /\ call'[u] = call[u] /\ Busy(u)
  BY <1>1, <1>2, OthersStay, IdleIsNoCall DEF Busy
<1>4. TypeOK'
  BY <1>1, <1>2, CallType DEF TypeOK
<1>5. \A u \in Threads :
        /\ call'[u].at \in Places => Busy(u)'
        /\ Inside(u)' => Inside(u) /\ Busy(u)'
        /\ OnHandle(u)' => OnHandle(u) /\ Busy(u)'
  BY <1>2, <1>3 DEF Places, Busy, Inside, OnHandle, Locks
<1>6. WaitersNameHandles' /\ NoErrorYet' /\ InsideHolds'
  BY <1>2, <1>3, <1>5 DEF IInv, WaitersNameHandles, NoErrorYet, InsideHolds, Places, OnHandle, Locks
<1>7. NamedIsOpen' /\ TargetIsClosed'
  BY <1>2, <1>3, <1>5 DEF IInv, NamedIsOpen, TargetIsClosed
<1>8. TargetsDiffer' /\ FreedIsUnused'
  BY <1>3, <1>5 DEF IInv, TargetsDiffer, FreedIsUnused
<1>9. EndedAreOvertaken' /\ TextsFit'
  BY <1>2, <1>3, <1>5 DEF IInv, EndedAreOvertaken, TextsFit, Text
<1> QED
  BY <1>4, <1>6, <1>7, <1>8, <1>9 DEF IInv

LEMMA InitIInv == Init => IInv
<1> SUFFICES ASSUME Init PROVE IInv
  OBVIOUS
<1>1. \A t \in Threads : call[t].at = "idle"
  BY IdleIsNoCall DEF Init
<1>2. TypeOK
  BY CApiAssumption DEF Init, TypeOK
<1> QED
  BY <1>1, <1>2 DEF IInv, WaitersNameHandles, NoErrorYet, InsideHolds, NamedIsOpen, TargetIsClosed,
     TargetsDiffer, FreedIsUnused, EndedAreOvertaken, TextsFit, Inside, OnHandle, Busy

LEMMA NextIInv == IInv /\ [Next]_vars => IInv'
<1> SUFFICES ASSUME IInv, [Next]_vars PROVE IInv'
  OBVIOUS
<1>1. CASE UNCHANGED vars
  BY <1>1 DEF vars, IInv, TypeOK, WaitersNameHandles, NoErrorYet, InsideHolds, NamedIsOpen,
     TargetIsClosed, TargetsDiffer, FreedIsUnused, EndedAreOvertaken, TextsFit, Inside, OnHandle,
     Busy, Locks, Text
<1>2. CASE Next
  <2>1. PICK t \in Threads : (\E shape \in Repertoire[t] : Begin(t, shape)) \/ Lock(t) \/ Step(t) \/ Return(t)
    BY <1>2 DEF Next
  <2>2. Repertoire[t] \subseteq Shapes
    BY CApiAssumption
  <2> QED
    BY <2>1, <2>2, BeginInv, LockInv, StepInv, ReturnInv
<1> QED
  BY <1>1, <1>2

(* The types, and what else a state of the interface keeps to. *)
LEMMA Invariant == Spec => []IInv
  BY InitIInv, NextIInv, PTL DEF Spec

(* Whatever the functions, the threads and the handles: after a call that  *)
(* took the mutex of its handle, the handle's text tells of that call      *)
(* until the handle is used again, and no catch clause of pkmn-c hides a   *)
(* later one.                                                              *)
THEOREM ErrorsTheorem == Spec => []ErrorsFitTheCalls
<1>1. IInv => ErrorsFitTheCalls
  BY NoneHidden DEF IInv, TextsFit, ErrorsFitTheCalls, OnHandle, Busy
<1> QED
  BY <1>1, Invariant, PTL
-----------------------------------------------------------------------------
(* Memory that no answer was written to is clear. *)
UnwrittenIsClear ==
  \A t \in Threads :
    call[t].at \in {"idle", "waiting", "working"} \/ call[t].code # "none" => out[t] = Cleared

(* The answers that AnswersAreWholeOrAbsent is about. *)
IsAnswer(c) ==
  /\ c.at \in {"leaving", "done"} /\ c.code = "none"
  /\ c.shape.gives # "nothing" /\ (c.shape.gives = "numbers" => c.told)

AnswersAreWhole == \A t \in Threads : IsAnswer(call[t]) => Seen(call[t], out[t]) = Wanted(call[t])

(* The parts of an answer are alike, and those of half an answer are what  *)
(* the object holds now.                                                   *)
PartsAgree ==
  \A t \in Threads :
    Busy(t) =>
      /\ call[t].at = "waiting" => call[t].read = <<>>
      /\ Len(call[t].read) <= Parts(call[t].shape)
      /\ t \notin mixed => \A i, j \in DOMAIN call[t].read : call[t].read[i] = call[t].read[j]
      /\ HalfRead(t) /\ t \notin mixed => call[t].read[1] = state

AInv == IInv /\ UnwrittenIsClear /\ AnswersAreWhole /\ PartsAgree

LEMMA SamePrefix ==
  ASSUME NEW r \in Seq(Int), NEW s \in Seq(Int), NEW k \in Nat, k <= Len(r), k <= Len(s),
         \A i \in 1..k : r[i] = s[i]
  PROVE  SubSeq(r, 1, k) = SubSeq(s, 1, k)
<1>1. /\ \A i \in 1..k : r[i] \in Int
      /\ \A i \in 1..k : s[i] \in Int
  OBVIOUS
<1>2. /\ SubSeq(r, 1, k) \in Seq(Int) /\ Len(SubSeq(r, 1, k)) = k
      /\ \A i \in 1..k : SubSeq(r, 1, k)[i] = r[i]
  BY <1>1, SubSeqProperties
<1>3. /\ SubSeq(s, 1, k) \in Seq(Int) /\ Len(SubSeq(s, 1, k)) = k
      /\ \A i \in 1..k : SubSeq(s, 1, k)[i] = s[i]
  BY <1>1, SubSeqProperties
<1> QED
  BY <1>2, <1>3, SeqEqual

LEMMA CopiesType ==
  ASSUME NEW n \in Nat
  PROVE  /\ Copies(n) \in Seq(Int) /\ Len(Copies(n)) = n
         /\ \A i \in 1..n : Copies(n)[i] = n
         /\ SubSeq(Copies(n), 1, n) = Copies(n)
<1>1. Copies(n) \in Seq(Int) /\ Len(Copies(n)) = n /\ \A i \in 1..n : Copies(n)[i] = n
  BY DEF Copies
<1> QED
  BY <1>1, SubSeqFull

LEMMA BufferTypes ==
  ASSUME NEW n \in Nat, NEW behind \in Int
  PROVE  /\ Filled(n, behind) \in Seq(Int) /\ Len(Filled(n, behind)) = BufferLength
         /\ \A i \in 1..BufferLength : Filled(n, behind)[i] = IF i <= n THEN n ELSE behind
         /\ Cleared.cells \in Seq(Int) /\ Len(Cleared.cells) = BufferLength /\ Cleared.length = 0
         /\ \A i \in 1..BufferLength : Cleared.cells[i] = 0
  BY CApiAssumption DEF Filled, Cleared

LEMMA AtMostType ==
  ASSUME NEW n \in Nat
  PROVE  AtMost(n, BufferLength) \in Nat /\ AtMost(n, BufferLength) <= n /\ AtMost(n, BufferLength) <= BufferLength
  BY CApiAssumption DEF AtMost

(* A buffer that begins with the elements of the answer shows them. *)
LEMMA BufferShows ==
  ASSUME NEW n \in Nat, NEW behind \in Int, NEW cells, cells = IF n = 0 THEN Cleared.cells ELSE Filled(n, behind)
  PROVE  SubSeq(cells, 1, AtMost(n, BufferLength)) = SubSeq(Copies(n), 1, AtMost(n, BufferLength))
<1>1. cells \in Seq(Int) /\ Len(cells) = BufferLength /\ \A i \in 1..BufferLength : i <= n => cells[i] = n
  BY BufferTypes
<1> DEFINE k == AtMost(n, BufferLength)
<1>2. k \in Nat /\ k <= Len(cells) /\ k <= n /\ k <= BufferLength
  BY <1>1, AtMostType
<1> HIDE DEF k
<1>3. Copies(n) \in Seq(Int) /\ Len(Copies(n)) = n /\ \A i \in 1..n : Copies(n)[i] = n
  BY CopiesType
<1>4. \A i \in 1..k : i \in 1..BufferLength /\ i \in 1..n /\ i <= n
  BY <1>2, CApiAssumption
<1>5. \A i \in 1..k : cells[i] = Copies(n)[i]
  BY <1>1, <1>3, <1>4
<1> QED
  BY <1>1, <1>2, <1>3, <1>5, SamePrefix DEF k

(* So does one that is read up to its first zero. *)
LEMMA StringShows ==
  ASSUME NEW n \in Nat, NEW cells, cells = IF n = 0 THEN Cleared.cells ELSE Filled(n, 0)
  PROVE  LET Zeros == {i \in DOMAIN cells : cells[i] = 0}
         IN  (IF Zeros = {} THEN BufferLength ELSE (CHOOSE i \in Zeros : \A j \in Zeros : i <= j) - 1)
               = AtMost(n, BufferLength)
<1> DEFINE Zeros == {i \in DOMAIN cells : cells[i] = 0}
<1>1. Zeros = (n + 1)..BufferLength /\ BufferLength \in Nat
  <2>1. DOMAIN cells = 1..BufferLength /\ \A i \in 1..BufferLength : cells[i] = IF i <= n THEN n ELSE 0
    BY CApiAssumption DEF Filled, Cleared
  <2> QED
    BY <2>1, CApiAssumption
<1>2. CASE n < BufferLength
  <2>1. n + 1 \in Zeros /\ \A j \in Zeros : n + 1 <= j
    BY <1>1, <1>2
  <2>2. \A i \in Zeros : (\A j \in Zeros : i <= j) => i = n + 1
    BY <1>1, <2>1
  <2>3. (CHOOSE i \in Zeros : \A j \in Zeros : i <= j) = n + 1
    BY <2>1, <2>2
  <2>4. Zeros # {} /\ AtMost(n, BufferLength) = n
    BY <1>1, <1>2, <2>1 DEF AtMost
  <2> DEFINE first == CHOOSE i \in Zeros : \A j \in Zeros : i <= j
  <2>5. first = n + 1
    BY <2>3
  <2> HIDE DEF first
  <2>6. first - 1 = n
    BY <2>5
  <2> HIDE DEF Zeros
  <2> QED
    BY <2>4, <2>6 DEF first, Zeros
<1>3. CASE ~(n < BufferLength)
  BY <1>1, <1>3 DEF AtMost
<1> QED
  BY <1>2, <1>3

(* The conversions hand over what was answered. *)
LEMMA WrittenIsSeen ==
  ASSUME NEW c \in CallSet, Len(c.read) = Parts(c.shape), c.shape.gives # "nothing",
         c.shape.gives = "numbers" => c.told
  PROVE  Seen(c, Written(c, Cleared)) = Wanted(c)
<1> DEFINE n == c.read[1]
           memory == Written(c, Cleared)
<1>1. c.shape \in Shapes /\ c.read \in Seq(Nat) /\ n \in Nat
  BY DEF CallSet, Parts
<1>2. Junk \in Int /\ 0 \in Int /\ Told(n, c, Cleared) = IF c.told THEN n ELSE 0
  BY BufferTypes, <1>1 DEF Junk, Told
<1>3. CASE c.shape.gives \in {"value", "entry"}
  BY <1>3 DEF Seen, Wanted, Written, ValueGiven, EntryGiven
<1>4. CASE c.shape.gives = "parts"
  BY <1>4 DEF Seen, Wanted, Written, PartsGiven
<1>5. CASE c.shape.gives \in {"list", "handles", "enums"}
  <2>1. Wanted(c) = Copies(n) /\ Seen(c, memory) = SubSeq(memory.cells, 1, memory.length)
    BY <1>5 DEF Seen, Wanted
  <2>2. CASE c.shape.gives = "enums" /\ n = 0
    <3>1. memory = Cleared
      BY <2>2 DEF Written, EnumsGiven
    <3>2. SubSeq(Cleared.cells, 1, 0) = SubSeq(Copies(0), 1, 0)
      BY SamePrefix, CopiesType, BufferTypes, CApiAssumption
    <3> QED
      BY <2>1, <2>2, <3>1, <3>2, CopiesType, BufferTypes
  <2>3. CASE ~(c.shape.gives = "enums" /\ n = 0)
    <3>1. memory = ListGiven(n)
      BY <1>5, <2>3 DEF Written, EnumsGiven, HandlesGiven
    <3> QED
      BY <1>1, <2>1, <3>1, CopiesType DEF ListGiven
  <2> QED
    BY <2>2, <2>3
<1>6. CASE c.shape.gives = "string"
  <2>1. /\ memory.cells = IF n = 0 THEN Cleared.cells ELSE Filled(n, 0)
        /\ memory.length = IF c.told THEN n ELSE 0
    BY <1>2, <1>6 DEF Written, StringGiven
  <2>2. Wanted(c) = SubSeq(Copies(n), 1, AtMost(n, BufferLength))
    BY <1>6 DEF Wanted
  <2>3. SubSeq(memory.cells, 1, AtMost(n, BufferLength)) = SubSeq(Copies(n), 1, AtMost(n, BufferLength))
    BY <1>1, <1>2, <2>1, BufferShows
  <2>4. CASE c.told
    BY <1>6, <2>1, <2>2, <2>3, <2>4 DEF Seen
  <2>5. CASE ~c.told
    <3> DEFINE cells == memory.cells
               Zeros == {i \in DOMAIN cells : cells[i] = 0}
               End == IF Zeros = {} THEN BufferLength ELSE (CHOOSE i \in Zeros : \A j \in Zeros : i <= j) - 1
    <3>1. End = AtMost(n, BufferLength)
      BY <1>1, <2>1, StringShows
    <3>2. Seen(c, memory) = SubSeq(cells, 1, End)
      BY <1>6, <2>5 DEF Seen
    <3> QED
      BY <2>2, <2>3, <3>1, <3>2
  <2> QED
    BY <2>4, <2>5
<1>7. CASE c.shape.gives = "numbers"
  <2>1. /\ memory.cells = IF n = 0 THEN Cleared.cells ELSE Filled(n, Junk)
        /\ memory.length = n
    BY <1>2, <1>7 DEF Written, NumbersGiven
  <2>2. Wanted(c) = SubSeq(Copies(n), 1, AtMost(n, BufferLength))
    BY <1>7 DEF Wanted
  <2>3. SubSeq(memory.cells, 1, AtMost(n, BufferLength)) = SubSeq(Copies(n), 1, AtMost(n, BufferLength))
    BY <1>1, <1>2, <2>1, BufferShows
  <2> QED
    BY <1>7, <2>1, <2>2, <2>3 DEF Seen
<1> QED
  BY <1>1, <1>3, <1>4, <1>5, <1>6, <1>7, CApiAssumption

(* What of the invariant is about one thread, so that a step needs to look *)
(* only at the thread that takes it.                                       *)
AnswerOf(t) ==
  /\ call[t].at \in {"idle", "waiting", "working"} \/ call[t].code # "none" => out[t] = Cleared
  /\ IsAnswer(call[t]) => Seen(call[t], out[t]) = Wanted(call[t])

PartsOf(t) ==
  Busy(t) =>
    /\ call[t].at = "waiting" => call[t].read = <<>>
    /\ Len(call[t].read) <= Parts(call[t].shape)
    /\ t \notin mixed => \A i, j \in DOMAIN call[t].read : call[t].read[i] = call[t].read[j]
    /\ HalfRead(t) /\ t \notin mixed => call[t].read[1] = state

LEMMA AInvIs == AInv <=> IInv /\ \A t \in Threads : AnswerOf(t) /\ PartsOf(t)
  BY DEF AInv, UnwrittenIsClear, AnswersAreWhole, PartsAgree, AnswerOf, PartsOf

LEMMA NothingRead ==
  ASSUME NEW t, call[t].read = <<>>
  PROVE  /\ ~HalfRead(t)
         /\ Len(call[t].read) <= Parts(call[t].shape)
         /\ \A i, j \in DOMAIN call[t].read : call[t].read[i] = call[t].read[j]
  BY DEF HalfRead, Parts

(* A step that changes nothing for a thread. *)
LEMMA ThreadStays ==
  ASSUME NEW t, AnswerOf(t), PartsOf(t), call'[t] = call[t], out'[t] = out[t],
         t \in mixed => t \in mixed', HalfRead(t) /\ t \notin mixed' => state' = state
  PROVE  AnswerOf(t)' /\ PartsOf(t)'
  BY DEF AnswerOf, PartsOf, Busy, HalfRead

LEMMA BeginAnswers ==
  ASSUME AInv, NEW t \in Threads, NEW shape \in Shapes, Begin(t, shape)
  PROVE  \A u \in Threads : AnswerOf(u)' /\ PartsOf(u)'
<1>1. TypeOK /\ \A u \in Threads : AnswerOf(u) /\ PartsOf(u)
  BY AInvIs DEF IInv
<1>2. Starts(t)
  BY <1>1, BeginCases, RefuseStarts, UnlockedStarts, HandleStarts
<1>3. call'[t].at \in {"waiting", "working"} \/ (call'[t].at = "done" /\ call'[t].code # "none")
  BY <1>1, BeginCases, RefuseStarts, UnlockedStarts, HandleStarts
<1>4. UNCHANGED <<state, out>> /\ mixed' \in {mixed, mixed \ {t}}
  BY BeginCases DEF Refuse, CallUnlocked, CallOnHandle
<1>5. AnswerOf(t)'
  BY <1>1, <1>2, <1>3, <1>4 DEF AnswerOf, IsAnswer, Starts
<1>6. PartsOf(t)'
  BY <1>2, NothingRead DEF PartsOf, Starts, HalfRead, Parts
<1>7. ASSUME NEW u \in Threads, u # t PROVE AnswerOf(u)' /\ PartsOf(u)'
  <2>1. call'[u] = call[u] /\ out'[u] = out[u] /\ (u \in mixed => u \in mixed') /\ state' = state
    BY <1>1, <1>2, <1>4, <1>7, OthersStay DEF Starts
  <2> QED
    BY <1>1, <2>1, ThreadStays
<1> QED
  BY <1>5, <1>6, <1>7

LEMMA LockAnswers ==
  ASSUME AInv, NEW t \in Threads, Lock(t)
  PROVE  \A u \in Threads : AnswerOf(u)' /\ PartsOf(u)'
<1>1. TypeOK /\ \A u \in Threads : AnswerOf(u) /\ PartsOf(u)
  BY AInvIs DEF IInv
<1>2. /\ Moves(t) /\ call'[t].at \in {"working", "leaving"} /\ call[t].at = "waiting"
      /\ call'[t].at = "leaving" => call'[t].code = "null_pointer" /\ call'[t].read = <<>>
      /\ call'[t].at = "working" => call'[t].read = call[t].read
  BY <1>1, LockMoves
<1>3. UNCHANGED <<state, out, mixed>>
  BY DEF Lock
<1>4. AnswerOf(t)'
  BY <1>1, <1>2, <1>3 DEF AnswerOf, IsAnswer
<1>5. call'[t].read = <<>>
  BY <1>1, <1>2 DEF PartsOf, Busy
<1>6. PartsOf(t)'
  BY <1>5, NothingRead DEF PartsOf, HalfRead, Parts
<1>7. ASSUME NEW u \in Threads, u # t PROVE AnswerOf(u)' /\ PartsOf(u)'
  <2>1. call'[u] = call[u]
    BY <1>1, <1>2, <1>7, OthersStay DEF Moves
  <2> QED
    BY <1>1, <1>3, <2>1, ThreadStays
<1> QED
  BY <1>4, <1>6, <1>7

LEMMA ReturnAnswers ==
  ASSUME CarefulCallers, AInv, NEW t \in Threads, Return(t)
  PROVE  \A u \in Threads : AnswerOf(u)' /\ PartsOf(u)'
<1>1. TypeOK /\ \A u \in Threads : AnswerOf(u) /\ PartsOf(u)
  BY AInvIs DEF IInv
<1>2. /\ call'[t] = Idle /\ call' = [call EXCEPT ![t] = call'[t]]
      /\ out' = [out EXCEPT ![t] = Cleared] /\ mixed' = mixed \ {t} /\ state' = state
  BY <1>1 DEF Return, TypeOK
<1>3. AnswerOf(t)' /\ PartsOf(t)'
  BY <1>1, <1>2, IdleIsNoCall DEF AnswerOf, PartsOf, IsAnswer, Busy, TypeOK
<1>4. ASSUME NEW u \in Threads, u # t PROVE AnswerOf(u)' /\ PartsOf(u)'
  <2>1. call'[u] = call[u] /\ out'[u] = out[u] /\ (u \in mixed => u \in mixed')
    BY <1>1, <1>2, <1>4, OthersStay
  <2> QED
    BY <1>1, <1>2, <2>1, ThreadStays
<1> QED
  BY <1>3, <1>4

(* Who changes the object has the mutex of a handle, so whoever has half   *)
(* an answer has it from another handle.                                   *)
LEMMA ChangeMixes ==
  ASSUME AInv, NEW t \in Threads, Change(t), NEW u \in Threads, u # t, HalfRead(u)
  PROVE  u \in mixed'
<1>1. TypeOK
  BY DEF AInv, IInv
<1>2. /\ call[t] \in CallSet /\ call[u] \in CallSet
      /\ call[t].at = "working" /\ call[u].at = "working"
  BY <1>1, BusyIsACall DEF Change, HalfRead, Busy
<1>3. Locks(t)
  BY <1>2, CApiAssumption DEF Change, Locks, CallSet
<1>4. Locks(u)
  <2>1. call[u].shape.gives = "parts"
    <3>1. Len(call[u].read) \in 1..(Parts(call[u].shape) - 1)
      BY DEF HalfRead
    <3>2. Len(call[u].read) \in Nat
      BY <1>2 DEF CallSet
    <3> QED
      BY <3>1, <3>2 DEF Parts
  <2> QED
    BY <1>2, <2>1, CApiAssumption DEF Locks, CallSet
<1>5. call[u].handle # call[t].handle
  BY <1>2, <1>3, <1>4 DEF AInv, IInv, InsideHolds, Inside
<1> QED
  BY <1>5 DEF Change

LEMMA StepAnswers ==
  ASSUME AInv, NEW t \in Threads, Step(t)
  PROVE  \A u \in Threads : AnswerOf(u)' /\ PartsOf(u)'
<1>1. TypeOK /\ \A u \in Threads : AnswerOf(u) /\ PartsOf(u)
  BY AInvIs DEF IInv
<1>2. /\ Moves(t) /\ call[t].at \in {"working", "leaving"}
      /\ call'[t].at \in {"working", "leaving", "done"}
  BY <1>1, StepMoves
<1>3. Busy(t) /\ call[t].shape \in Shapes /\ call[t].read \in Seq(Nat) /\ call[t].code = call[t].code
  BY <1>2, IdleIsNoCall DEF Busy, Moves, CallSet
<1>4. call[t].at = "working" => call[t].code = "none" /\ out[t] = Cleared
  BY <1>1 DEF AInv, IInv, NoErrorYet, AnswerOf
<1>5. ASSUME NEW u \in Threads, u # t PROVE AnswerOf(u)' /\ PartsOf(u)'
  <2>1. call'[u] = call[u]
    BY <1>1, <1>2, <1>5, OthersStay DEF Moves
  <2>2. out'[u] = out[u] /\ (u \in mixed => u \in mixed')
    BY <1>1, <1>5 DEF Step, Read, Answer, Change, Open, Free, Silently, Throw, Leave, LeaveUnlocked, TypeOK
  <2>3. HalfRead(u) /\ u \notin mixed' => state' = state
    BY <1>5, ChangeMixes DEF Step, Read, Answer, Open, Free, Silently, Throw, Leave, LeaveUnlocked
  <2> QED
    BY <1>1, <2>1, <2>2, <2>3, ThreadStays
<1>6. CASE Read(t)
  <2>1. PICK answer \in IF call[t].shape.check = "none" THEN Sizes ELSE {state} :
          call'[t].read = Append(call[t].read, answer)
    BY <1>1, <1>6, ReadMoves
  <2>2. call'[t].at = "working" /\ out' = out /\ mixed' = mixed /\ state' = state
    BY <1>1, <1>6, ReadMoves DEF Read
  <2>3. AnswerOf(t)'
    BY <1>4, <1>6, <2>2 DEF AnswerOf, IsAnswer, Read
  <2>4. /\ Len(call[t].read) < Parts(call[t].shape) /\ Len(call[t].read) \in Nat
        /\ Parts(call[t].shape) \in {1, 3}
        /\ Parts(call[t].shape) = 3 => call[t].shape.check # "none"
    BY <1>3, <1>6, CApiAssumption DEF Read, Parts
  <2>5. /\ Len(call'[t].read) = Len(call[t].read) + 1
        /\ \A i \in DOMAIN call'[t].read :
             call'[t].read[i] = IF i = Len(call[t].read) + 1 THEN answer ELSE call[t].read[i]
        /\ DOMAIN call'[t].read = 1..(Len(call[t].read) + 1)
    <3>1. answer \in Nat
      BY <1>1, Names DEF TypeOK
    <3> QED
      BY <1>3, <2>1, <3>1, AppendProperties
  <2>6. t \notin mixed => \A i \in DOMAIN call'[t].read : call'[t].read[i] = answer
    <3>1. CASE Len(call[t].read) = 0
      BY <2>5, <3>1
    <3>2. CASE Len(call[t].read) # 0
      <4>1. HalfRead(t) /\ answer = state
        BY <1>6, <2>1, <2>4, <3>2 DEF HalfRead, Read
      <4>2. t \notin mixed => \A i \in DOMAIN call[t].read : call[t].read[i] = state
        BY <1>1, <1>3, <2>4, <3>2, <4>1 DEF PartsOf
      <4> QED
        BY <1>3, <2>4, <2>5, <4>1, <4>2
    <3> QED
      BY <3>1, <3>2
  <2>7. PartsOf(t)'
    <3>1. Len(call'[t].read) <= Parts(call'[t].shape)
      BY <1>2, <2>4, <2>5 DEF Moves
    <3>2. HalfRead(t)' /\ t \notin mixed => call'[t].read[1] = state
      <4> SUFFICES ASSUME HalfRead(t)', t \notin mixed PROVE call'[t].read[1] = state
        OBVIOUS
      <4>1. Parts(call[t].shape) = 3
        BY <1>2, <2>4, <2>5 DEF HalfRead, Moves
      <4>2. answer = state
        BY <2>1, <2>4, <4>1
      <4> QED
        BY <2>4, <2>5, <2>6, <4>2
    <3> QED
      BY <2>2, <2>6, <3>1, <3>2 DEF PartsOf
  <2> QED
    BY <1>5, <2>3, <2>7
<1>7. CASE Answer(t)
  <2>1. /\ call'[t].at = "leaving" /\ call'[t].read = call[t].read /\ call'[t].code = "none"
        /\ call[t].at = "working" /\ Len(call[t].read) = Parts(call[t].shape)
        /\ out'[t] = Written(call[t], Cleared) /\ mixed' = mixed
    BY <1>1, <1>4, <1>7, GoMoves DEF Answer, Leave, LeaveUnlocked, TypeOK
  <2>2. Seen(call'[t], out'[t]) = Seen(call[t], out'[t]) /\ Wanted(call'[t]) = Wanted(call[t])
    BY <1>2, <2>1 DEF Moves, Seen, Wanted
  <2>3. IsAnswer(call'[t]) => Seen(call[t], out'[t]) = Wanted(call[t])
    BY <1>2, <2>1, WrittenIsSeen DEF IsAnswer, Moves
  <2>4. AnswerOf(t)'
    BY <2>1, <2>2, <2>3 DEF AnswerOf
  <2>5. PartsOf(t)'
    BY <1>1, <1>2, <1>3, <2>1 DEF PartsOf, HalfRead, Moves
  <2> QED
    BY <1>5, <2>4, <2>5
<1>8. CASE Change(t) \/ Open(t) \/ Free(t)
  <2>1. /\ call'[t].at = "leaving" /\ call'[t].read = call[t].read /\ call'[t].code = "none"
        /\ call[t].at = "working" /\ (t \in mixed => t \in mixed')
    BY <1>1, <1>4, <1>8, GoMoves DEF Change, Open, Free, Leave, LeaveUnlocked
  <2>2. call'[t].shape.gives = "nothing"
    BY <1>2, <1>3, <1>8, CApiAssumption DEF Change, Open, Free, Moves
  <2>3. AnswerOf(t)'
    BY <2>1, <2>2 DEF AnswerOf, IsAnswer
  <2>4. PartsOf(t)'
    BY <1>1, <1>2, <1>3, <2>1 DEF PartsOf, HalfRead, Moves
  <2> QED
    BY <1>5, <2>3, <2>4
<1>9. CASE Silently(t)
  <2>1. PICK sum \in IF call[t].shape.does = "adds" THEN Sizes ELSE {0} :
          /\ call'[t].read = <<sum>>
          /\ out' = [out EXCEPT ![t] = IF call[t].shape.does = "clears" THEN Cleared
                                       ELSE [cells |-> <<sum>>, length |-> 1]]
    BY <1>1, <1>9, SilentMoves
  <2>2. /\ call'[t].at = "done" /\ call'[t].code = "none" /\ call[t].shape.does \in {"clears", "adds"}
    BY <1>1, <1>4, <1>9, SilentMoves DEF Silently, Silent
  <2>3. IsAnswer(call'[t]) => Seen(call'[t], out'[t]) = Wanted(call'[t])
    <3> SUFFICES ASSUME IsAnswer(call'[t]) PROVE Seen(call'[t], out'[t]) = Wanted(call'[t])
      OBVIOUS
    <3>1. call'[t].shape.does = "adds" /\ call'[t].shape.gives = "value"
      BY <1>2, <1>3, <2>2, CApiAssumption DEF IsAnswer, Moves
    <3>2. out'[t].cells = <<sum>>
      BY <1>1, <1>2, <2>1, <3>1 DEF TypeOK, Moves
    <3>3. <<sum>>[1] = sum
      OBVIOUS
    <3> QED
      BY <2>1, <3>1, <3>2, <3>3 DEF Seen, Wanted
  <2>4. AnswerOf(t)'
    BY <2>2, <2>3 DEF AnswerOf
  <2>5. PartsOf(t)'
    <3>1. Len(<<sum>>) = 1 /\ DOMAIN <<sum>> = {1}
      OBVIOUS
    <3> QED
      BY <2>1, <2>2, <3>1 DEF PartsOf, HalfRead, Parts
  <2> QED
    BY <1>5, <2>4, <2>5
<1>10. CASE Throw(t)
  <2>1. call'[t].at = "leaving" /\ call'[t].code # "none" /\ call'[t].read = <<>> /\ out' = out
        /\ call[t].at = "working"
    BY <1>1, <1>10, ThrowMoves DEF Throw
  <2>2. AnswerOf(t)'
    BY <1>4, <2>1 DEF AnswerOf, IsAnswer
  <2>3. PartsOf(t)'
    BY <2>1 DEF PartsOf, HalfRead, Parts
  <2> QED
    BY <1>5, <2>2, <2>3
<1>11. CASE Leave(t) \/ LeaveUnlocked(t)
  <2>1. /\ call'[t].at = "done" /\ call'[t].read = call[t].read /\ call'[t].code = call[t].code
        /\ call[t].at = "leaving" /\ out' = out /\ mixed' = mixed
    BY <1>1, <1>11, GoMoves DEF Leave, LeaveUnlocked
  <2>2. Seen(call'[t], out[t]) = Seen(call[t], out[t]) /\ Wanted(call'[t]) = Wanted(call[t])
    BY <1>2, <2>1 DEF Moves, Seen, Wanted
  <2>3. IsAnswer(call'[t]) => IsAnswer(call[t])
    BY <1>2, <2>1 DEF Moves, IsAnswer
  <2>4. AnswerOf(t)'
    BY <1>1, <2>1, <2>2, <2>3 DEF AnswerOf
  <2>5. PartsOf(t)'
    BY <1>1, <1>2, <1>3, <2>1 DEF PartsOf, HalfRead, Moves
  <2> QED
    BY <1>5, <2>4, <2>5
<1> QED
  BY <1>6, <1>7, <1>8, <1>9, <1>10, <1>11 DEF Step

(* Whatever the functions, threads, handles and exceptions: callers who    *)
(* hand in cleared memory get all of an answer that fits or nothing, the   *)
(* parts of a struct belong together, and a call that fails makes no       *)
(* handle.                                                                 *)
THEOREM AnswersTheorem ==
  ASSUME CarefulCallers
  PROVE  Spec => []AnswersAreWholeOrAbsent
<1>1. Init => AInv
  <2> SUFFICES ASSUME Init PROVE AInv
    OBVIOUS
  <2>1. \A t \in Threads : call[t].at = "idle" /\ out[t] = Cleared
    BY IdleIsNoCall DEF Init
  <2> QED
    BY <2>1, InitIInv, AInvIs DEF AnswerOf, PartsOf, IsAnswer, Busy
<1>2. AInv /\ [Next]_vars => AInv'
  <2> SUFFICES ASSUME AInv, [Next]_vars PROVE AInv'
    OBVIOUS
  <2>1. IInv'
    BY NextIInv DEF AInv
  <2>2. \A t \in Threads : AnswerOf(t)' /\ PartsOf(t)'
    <3>1. CASE UNCHANGED vars
      BY <3>1, AInvIs DEF vars, AnswerOf, PartsOf, Busy, HalfRead
    <3>2. CASE Next
      <4>1. PICK t \in Threads : (\E shape \in Repertoire[t] : Begin(t, shape)) \/ Lock(t) \/ Step(t) \/ Return(t)
        BY <3>2 DEF Next
      <4>2. Repertoire[t] \subseteq Shapes
        BY CApiAssumption
      <4> QED
        BY <4>1, <4>2, BeginAnswers, LockAnswers, StepAnswers, ReturnAnswers
    <3> QED
      BY <3>1, <3>2
  <2> QED
    BY <2>1, <2>2 DEF AInv, UnwrittenIsClear, AnswersAreWhole, PartsAgree, AnswerOf, PartsOf
<1>3. AInv => AnswersAreWholeOrAbsent
  <2> SUFFICES ASSUME AInv, NEW t \in Threads
               PROVE  /\ Ended(t, "none") /\ call[t].shape.gives # "nothing" /\ (call[t].shape.gives = "numbers" => call[t].told) =>
                           /\ Seen(call[t], out[t]) = Wanted(call[t])
                           /\ t \notin mixed => \A i, j \in DOMAIN call[t].read : call[t].read[i] = call[t].read[j]
                      /\ Ended(t, "some") =>
                           /\ out[t] = Cleared
                           /\ call[t].shape.does = "opens" => call[t].target \notin open
    BY DEF AnswersAreWholeOrAbsent
  <2>1. AnswerOf(t) /\ PartsOf(t)
    BY AInvIs
  <2>2. Ended(t, "none") => call[t].at = "done" /\ call[t].code = "none" /\ Busy(t)
    BY DEF Ended, Busy
  <2>3. Ended(t, "some") => call[t].at = "done" /\ call[t].code # "none" /\ Busy(t)
    BY DEF Ended, Busy
  <2>4. Ended(t, "some") /\ call[t].shape.does = "opens" => call[t].target \notin open
    BY <2>3 DEF AInv, IInv, TargetIsClosed
  <2> QED
    BY <2>1, <2>2, <2>3, <2>4 DEF AnswerOf, PartsOf, IsAnswer
<1> QED
  BY <1>1, <1>2, <1>3, PTL DEF Spec
=============================================================================
