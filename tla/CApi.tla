------------------------------- MODULE CApi -------------------------------
(***************************************************************************)
(* The C interface (lib/c): every function of it wraps C++ calls, and all  *)
(* of them do so in the same few shapes.  This module is about the shapes: *)
(* the null checks, the mutex and the error text of a handle, the codes,   *)
(* and the memory that the caller gives for the answer.  Which function    *)
(* has which shape is in module CApiTables.  The text of pkmn_strerror(),  *)
(* one for all threads, is whatever call was the last to end.              *)
(*                                                                         *)
(* A handle is a caller's struct (pkmn_pokemon, pkmn_pokedex, ...) whose   *)
(* p_internal holds a mutex, the last error and a shared pointer to a C++  *)
(* object.  Several handles may lead to one object, and here all of them   *)
(* do: "state" is what that object holds.  In state n every list, string   *)
(* or array that is asked for has n elements.                              *)
(***************************************************************************)
EXTENDS Integers, Sequences

CONSTANTS
  Threads, Handles,
  NoOne,          \* neither a thread nor a handle
  Shapes,         \* the shapes that functions have (CApiTables)
  Repertoire,     \* the shapes of the functions that each thread calls
  Thrown,         \* the exceptions that the C++ calls may end with
  Sizes,          \* bound: the lengths that an answer may have
  BufferLength,   \* elements of the caller's buffers
  CarefulCallers  \* do callers hand in cleared memory and unused structs?

ASSUME CApiAssumption ==
  /\ NoOne \notin Threads \cup Handles
  /\ \A shape \in Shapes :
       /\ shape.check \in {"none", "plain", "wrapper"}
       /\ shape.locks \in BOOLEAN /\ shape.pointers \in BOOLEAN
       /\ shape.locks => shape.check # "none"
       /\ shape.does \in {"reads", "changes", "opens", "frees", "clears", "adds"}
       /\ shape.gives \in {"nothing", "value", "entry", "parts", "list", "handles", "enums",
                           "string", "numbers"}
       /\ shape.does \in {"frees", "clears", "adds"} => ~shape.locks
       /\ shape.does = "changes" \/ shape.gives = "parts" => shape.locks
       /\ shape.gives # "nothing" => shape.does \in {"reads", "adds"}
       /\ shape.does = "adds" => shape.gives = "value"
  /\ Repertoire \in [Threads -> SUBSET Shapes]
  /\ Sizes \subseteq Nat /\ 0 \in Sizes /\ BufferLength \in Nat \ {0}
  /\ CarefulCallers \in BOOLEAN

VARIABLES
  state,        \* what the object holds
  open,         \* the handles that have a p_internal
  holder,       \* who holds the mutex of each handle
  lastError,    \* the last_error of each handle: whose call it tells of
  call,         \* what each thread is doing
  out,          \* the memory that each thread gives for an answer
  overtaken,    \* history: whose handle was used by another call since theirs
  mixed         \* history: between whose reads another handle changed the object

vars == <<state, open, holder, lastError, call, out, overtaken, mixed>>

Junk == -1  \* an element from behind the end of a list

-----------------------------------------------------------------------------
(* The exceptions: the class each is derived from, and the catch clauses   *)
(* in their order.  "internal" is a runtime_error whose text says so.      *)
Base ==
  [unimplemented_error |-> "runtime_error", feature_not_in_game_error |-> "runtime_error",
   feature_not_in_build_error |-> "runtime_error", invalid_argument |-> "logic_error",
   domain_error |-> "logic_error", length_error |-> "logic_error", out_of_range |-> "logic_error",
   range_error |-> "runtime_error", overflow_error |-> "runtime_error",
   underflow_error |-> "runtime_error", internal |-> "runtime_error",
   logic_error |-> "exception", runtime_error |-> "exception", bad_alloc |-> "exception",
   exception |-> "...", other |-> "..."]

Exceptions == DOMAIN Base

Catches ==
  <<"unimplemented_error", "feature_not_in_game_error", "feature_not_in_build_error",
    "invalid_argument", "domain_error", "length_error", "out_of_range", "logic_error",
    "range_error", "overflow_error", "underflow_error", "runtime_error", "exception", "...">>

(* Everything a clause may name to catch the exception. *)
Kinds(e) ==
  LET Above(c) == IF c \in Exceptions THEN Base[c] ELSE "..."
  IN  {e, Above(e), Above(Above(e)), "..."}

CaughtAs(e) ==
  LET i == CHOOSE i \in DOMAIN Catches :
             Catches[i] \in Kinds(e) /\ \A j \in 1..(i - 1) : Catches[j] \notin Kinds(e)
  IN  Catches[i]

(* The error code, by the name of its exception. *)
CodeOf(e) == IF CaughtAs(e) = "runtime_error" /\ e = "internal" THEN "internal" ELSE CaughtAs(e)

-----------------------------------------------------------------------------
Idle == [at |-> "idle"]
Cleared == [cells |-> [i \in 1..BufferLength |-> 0], length |-> 0]

AtMost(n, bound) == IF n < bound THEN n ELSE bound
Copies(n) == [i \in 1..n |-> n]

Parts(shape) == IF shape.gives = "parts" THEN 3 ELSE 1

(* What the conversions make of the caller's memory.  Structs are built    *)
(* aside and assigned as a whole, those of several getters, too.           *)
ValueGiven(n) == [cells |-> <<n>>, length |-> 1]
PartsGiven(read) == [cells |-> read, length |-> Len(read)]
ListGiven(n) == [cells |-> Copies(n), length |-> n]

\* An entry of the database, with the lists in it, and a list of new handles.
EntryGiven(n) == ValueGiven(n)
HandlesGiven(n) == ListGiven(n)

(* An empty list of enums, or map, is not assigned at all. *)
EnumsGiven(n, memory) == IF n = 0 THEN memory ELSE ListGiven(n)

Filled(n, behind) == [i \in 1..BufferLength |-> IF i <= n THEN n ELSE behind]
Told(n, c, memory) == IF c.told THEN n ELSE memory.length

\* Faulty variant of StringGiven: there is no zero behind a short string.
StringUnended(n, c, memory) ==
  [cells |-> IF n = 0 THEN memory.cells ELSE Filled(n, Junk), length |-> Told(n, c, memory)]

(* An empty string is not copied; another one fills the buffer with zeros  *)
(* behind its end.  The length is told if there is a pointer to it.        *)
StringGiven(n, c, memory) ==
  [cells |-> IF n = 0 THEN memory.cells ELSE Filled(n, 0), length |-> Told(n, c, memory)]

(* An array is copied as if it were as long as the buffer. *)
NumbersGiven(n, c, memory) ==
  [cells |-> IF n = 0 THEN memory.cells ELSE Filled(n, Junk), length |-> Told(n, c, memory)]

Written(c, memory) ==
  LET n == c.read[1]
  IN  CASE c.shape.gives = "value" -> ValueGiven(n)
        [] c.shape.gives = "entry" -> EntryGiven(n)
        [] c.shape.gives = "parts" -> PartsGiven(c.read)
        [] c.shape.gives = "list" -> ListGiven(n)
        [] c.shape.gives = "handles" -> HandlesGiven(n)
        [] c.shape.gives = "enums" -> EnumsGiven(n, memory)
        [] c.shape.gives = "string" -> StringGiven(n, c, memory)
        [] c.shape.gives = "numbers" -> NumbersGiven(n, c, memory)
        [] c.shape.gives = "nothing" -> memory

(* What a call leaves as the error text: that of its error, or "None". *)
Text(t) == IF call[t].code = "none" THEN NoOne ELSE t

Locks(t) == call[t].shape.locks
Silent(shape) == shape.does \in {"clears", "adds"}

(* A call in which the thread names the handle. *)
Uses(t, h) == call[t].at # "idle" /\ h \in {call[t].handle, call[t].target}

(* What callers see to: a handle is neither made nor freed while another   *)
(* call names it.                                                          *)
Unused(h) == \A u \in Threads : ~Uses(u, h)
BeingFreed(h) == \E u \in Threads : Uses(u, h) /\ call[u].shape.does = "frees"

Init ==
  /\ state = 0
  /\ open = {}
  /\ holder = [h \in Handles |-> NoOne]
  /\ lastError = [h \in Handles |-> NoOne]
  /\ call = [t \in Threads |-> Idle]
  /\ out = [t \in Threads |-> Cleared]
  /\ overtaken = {} /\ mixed = {}

-----------------------------------------------------------------------------
NewCall(place, shape, h, target, null, told) ==
  [at |-> place, shape |-> shape, handle |-> h, target |-> target, null |-> null, told |-> told,
   read |-> <<>>, code |-> "none"]

Go(t, place) == call' = [call EXCEPT ![t].at = place]
Fail(t, code) == call' = [call EXCEPT ![t].at = "leaving", ![t].code = code, ![t].read = <<>>]

(* The calls whose text the handle's one no longer is. *)
Overtake(t, h) == overtaken' = (overtaken \ {t}) \cup {u \in Threads \ {t} : call[u].at = "done" /\ call[u].handle = h}

(* PKMN_CHECK_NULL_PARAM and, for a handle without p_internal,             *)
(* PKMN_CHECK_NULL_WRAPPER_PARAM: nothing but the global text is written.  *)
Refuse(t, shape) ==
  /\ call[t].at = "idle"
  /\ shape.pointers \/ shape.check # "none"
  /\ call' = [call EXCEPT ![t] = [NewCall("done", shape, NoOne, NoOne, TRUE, FALSE) EXCEPT !.code = "null_pointer"]]
  /\ UNCHANGED <<state, open, holder, lastError, out, overtaken, mixed>>

(* A function without a handle, or one that reads objects behind handles   *)
(* without their mutex.  A struct that is to become a handle is not one.   *)
CallUnlocked(t, shape, h, told) ==
  /\ call[t].at = "idle" /\ ~shape.locks
  /\ shape.does = "opens" => h \notin open /\ Unused(h)
  /\ shape.does = "frees" => Unused(h)
  /\ shape.check = "wrapper" => h \in open /\ ~BeingFreed(h)
  /\ call' = [call EXCEPT ![t] = NewCall("working", shape, h, h, FALSE, told)]
  /\ mixed' = mixed \ {t}
  /\ UNCHANGED <<state, open, holder, lastError, out, overtaken>>

(* A function on a handle; a "plain" check leaves it to the caller that    *)
(* the handle has a p_internal.                                            *)
CallOnHandle(t, shape, h, target, null, told) ==
  /\ call[t].at = "idle" /\ shape.locks
  /\ h \in open
  /\ ~BeingFreed(h)
  /\ IF shape.does = "opens" THEN target \notin open /\ Unused(target) ELSE target = h
  /\ null => shape.pointers /\ told
  /\ call' = [call EXCEPT ![t] = NewCall("waiting", shape, h, target, null, told)]
  /\ mixed' = mixed \ {t}
  /\ UNCHANGED <<state, open, holder, lastError, out, overtaken>>

AfterLock(t) == IF call[t].null THEN Fail(t, "null_pointer") ELSE Go(t, "working")

\* Faulty variant of Lock: the mutex is not waited for.
LockAtOnce(t) ==
  /\ call[t].at = "waiting"
  /\ holder' = [holder EXCEPT ![call[t].handle] = t]
  /\ AfterLock(t)
  /\ Overtake(t, call[t].handle)
  /\ UNCHANGED <<state, open, lastError, out, mixed>>

(* boost::mutex::scoped_lock lock(handle->error_mutex), which a null       *)
(* pointer beside a good handle takes as well.                             *)
Lock(t) ==
  /\ call[t].at = "waiting"
  /\ holder[call[t].handle] = NoOne
  /\ holder' = [holder EXCEPT ![call[t].handle] = t]
  /\ AfterLock(t)
  /\ Overtake(t, call[t].handle)
  /\ UNCHANGED <<state, open, lastError, out, mixed>>

-----------------------------------------------------------------------------
(* The C++ call of a getter, or the next one of several.  A function with  *)
(* no handle asks the database or computes; its answer depends on its      *)
(* arguments.                                                              *)
Read(t) ==
  /\ call[t].at = "working" /\ call[t].shape.does = "reads"
  /\ Len(call[t].read) < Parts(call[t].shape)
  /\ \E answer \in IF call[t].shape.check = "none" THEN Sizes ELSE {state} :
       call' = [call EXCEPT ![t].read = Append(@, answer)]
  /\ UNCHANGED <<state, open, holder, lastError, out, overtaken, mixed>>

(* All parts are there: the memory is written. *)
Answer(t) ==
  /\ call[t].at = "working" /\ call[t].shape.does = "reads"
  /\ Len(call[t].read) = Parts(call[t].shape)
  /\ out' = [out EXCEPT ![t] = Written(call[t], @)]
  /\ Go(t, "leaving")
  /\ UNCHANGED <<state, open, holder, lastError, overtaken, mixed>>

HalfRead(t) == call[t].at = "working" /\ Len(call[t].read) \in 1..(Parts(call[t].shape) - 1)

(* The C++ call of a setter. *)
Change(t) ==
  /\ call[t].at = "working" /\ call[t].shape.does = "changes"
  /\ state' \in Sizes
  /\ Go(t, "leaving")
  /\ mixed' = mixed \cup {u \in Threads \ {t} : HalfRead(u) /\ call[u].handle # call[t].handle}
  /\ UNCHANGED <<open, holder, lastError, out, overtaken>>

(* init_common(): a new mutex, no error yet. *)
NewHandle(h) ==
  /\ open' = open \cup {h}
  /\ lastError' = [lastError EXCEPT ![h] = NoOne]

(* The init_*() of each class. *)
Open(t) ==
  /\ call[t].at = "working" /\ call[t].shape.does = "opens"
  /\ NewHandle(call[t].target)
  /\ Go(t, "leaving")
  /\ UNCHANGED <<state, holder, out, overtaken, mixed>>

(* *_free() of a handle, which may have been freed before. *)
Free(t) ==
  /\ call[t].at = "working" /\ call[t].shape.does = "frees"
  /\ open' = open \ {call[t].handle}
  /\ lastError' = [lastError EXCEPT ![call[t].handle] = NoOne]
  /\ Go(t, "leaving")
  /\ UNCHANGED <<state, holder, out, overtaken, mixed>>

(* *_free() of an answer, and the sums of Spinda's coordinates: there is   *)
(* nothing that could throw, and no text is written.                       *)
Silently(t) ==
  /\ call[t].at = "working" /\ Silent(call[t].shape)
  /\ \E sum \in IF call[t].shape.does = "adds" THEN Sizes ELSE {0} :
       /\ out' = [out EXCEPT ![t] = IF call[t].shape.does = "clears" THEN Cleared ELSE [cells |-> <<sum>>, length |-> 1]]
       /\ call' = [call EXCEPT ![t].at = "done", ![t].read = <<sum>>]
  /\ UNCHANGED <<state, open, holder, lastError, overtaken, mixed>>

(* A C++ call ends with an exception. *)
Throw(t) ==
  /\ call[t].at = "working" /\ call[t].shape.does \in {"reads", "changes", "opens"}
  /\ Len(call[t].read) < Parts(call[t].shape)
  /\ \E e \in Thrown : Fail(t, CodeOf(e))
  /\ UNCHANGED <<state, open, holder, lastError, out, overtaken, mixed>>

-----------------------------------------------------------------------------
\* Faulty variant of Leave: a failed call returns with the mutex.
LeaveLocked(t) ==
  /\ call[t].at = "leaving" /\ Locks(t)
  /\ lastError' = [lastError EXCEPT ![call[t].handle] = Text(t)]
  /\ holder' = IF call[t].code = "none" THEN [holder EXCEPT ![call[t].handle] = NoOne] ELSE holder
  /\ Go(t, "done")
  /\ UNCHANGED <<state, open, out, overtaken, mixed>>

(* pkmn_set_error(), handle->last_error = ..., and the mutex comes back. *)
Leave(t) ==
  /\ call[t].at = "leaving" /\ Locks(t)
  /\ lastError' = [lastError EXCEPT ![call[t].handle] = Text(t)]
  /\ holder' = [holder EXCEPT ![call[t].handle] = NoOne]
  /\ Go(t, "done")
  /\ UNCHANGED <<state, open, out, overtaken, mixed>>

LeaveUnlocked(t) ==
  /\ call[t].at = "leaving" /\ ~Locks(t)
  /\ Go(t, "done")
  /\ UNCHANGED <<state, open, holder, lastError, out, overtaken, mixed>>

(* The caller has looked at the result.  A careful one clears its memory   *)
(* before the next call.                                                   *)
Return(t) ==
  /\ call[t].at = "done"
  /\ call' = [call EXCEPT ![t] = Idle]
  /\ out' = IF CarefulCallers THEN [out EXCEPT ![t] = Cleared] ELSE out
  /\ overtaken' = overtaken \ {t} /\ mixed' = mixed \ {t}
  /\ UNCHANGED <<state, open, holder, lastError>>

Begin(t, shape) ==
  \/ Refuse(t, shape)
  \/ \E h \in IF shape.does \in {"opens", "frees"} \/ shape.check # "none" THEN Handles ELSE {NoOne} :
       \E told \in IF shape.gives \in {"string", "numbers"} THEN BOOLEAN ELSE {TRUE} :
         \/ CallUnlocked(t, shape, h, told)
         \/ \E target \in Handles, null \in BOOLEAN :
              CallOnHandle(t, shape, h, target, null, told)

Step(t) ==
  \/ Read(t) \/ Answer(t) \/ Change(t) \/ Open(t) \/ Free(t) \/ Silently(t) \/ Throw(t)
  \/ Leave(t) \/ LeaveUnlocked(t)

Next ==
  \E t \in Threads :
    \/ \E shape \in Repertoire[t] : Begin(t, shape)
    \/ Lock(t) \/ Step(t) \/ Return(t)

(* A call that has its mutex, or needs none, runs on. *)
Spec == Init /\ [][Next]_vars /\ \A t \in Threads : WF_vars(Step(t))
-----------------------------------------------------------------------------
Ended(t, code) == call[t].at = "done" /\ (call[t].code = "none") = (code = "none")

NoClauseIsHidden == \A e \in Exceptions : (\E i \in DOMAIN Catches : Catches[i] = e) => CaughtAs(e) = e

(* After a call that took the mutex of its handle, the handle's text tells *)
(* of that call, whatever other threads do with other handles, until the   *)
(* handle is used again.  And the code a caller sees is that of the        *)
(* exception's own class: no catch clause hides a later one.               *)
ErrorsFitTheCalls ==
  /\ \A t \in Threads :
       call[t].at = "done" /\ Locks(t) /\ call[t].handle # NoOne /\ t \notin overtaken => lastError[call[t].handle] = Text(t)
  /\ NoClauseIsHidden

(* What a caller reads from memory that was cleared before: the length is  *)
(* the one told, or, of a string, up to its first zero.                    *)
Seen(c, memory) ==
  LET cells == memory.cells
      Zeros == {i \in DOMAIN cells : cells[i] = 0}
  IN  CASE c.shape.gives \in {"value", "entry", "parts"} -> cells
        [] c.shape.gives \in {"list", "handles", "enums"} -> SubSeq(cells, 1, memory.length)
        [] c.shape.gives = "string" /\ ~c.told ->
             SubSeq(cells, 1, IF Zeros = {} THEN BufferLength ELSE (CHOOSE i \in Zeros : \A j \in Zeros : i <= j) - 1)
        [] OTHER -> SubSeq(cells, 1, AtMost(memory.length, BufferLength))

(* What the C++ call answered, as far as it fits into the memory. *)
Wanted(c) ==
  LET n == c.read[1]
  IN  CASE c.shape.gives \in {"value", "entry"} -> <<n>>
        [] c.shape.gives = "parts" -> c.read
        [] c.shape.gives \in {"list", "handles", "enums"} -> Copies(n)
        [] OTHER -> SubSeq(Copies(n), 1, AtMost(n, BufferLength))

(* A call that succeeds hands over all of the answer that fits, and the    *)
(* parts of a struct belong together unless another handle changed the     *)
(* object meanwhile; a call that fails leaves the caller's memory and the  *)
(* struct that was to become a handle as they were.                        *)
AnswersAreWholeOrAbsent ==
  \A t \in Threads :
    /\ Ended(t, "none") /\ call[t].shape.gives # "nothing" /\ (call[t].shape.gives = "numbers" => call[t].told) =>
         /\ Seen(call[t], out[t]) = Wanted(call[t])
         /\ t \notin mixed => \A i, j \in DOMAIN call[t].read : call[t].read[i] = call[t].read[j]
    /\ Ended(t, "some") =>
         /\ out[t] = Cleared
         /\ call[t].shape.does = "opens" => call[t].target \notin open

(* Every call that runs comes to its end and every mutex comes back, also  *)
(* after an exception: nobody waits forever for a handle that nobody uses. *)
MutexesComeBack ==
  /\ \A h \in Handles : holder[h] # NoOne ~> holder[h] = NoOne
  /\ \A t \in Threads : call[t].at \in {"working", "leaving"} ~> call[t].at = "done"
=============================================================================
