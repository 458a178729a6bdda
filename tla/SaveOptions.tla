---------------------------- MODULE SaveOptions ----------------------------
(***************************************************************************)
(* The options of a save (text speed, sound output, battle style, ...) as  *)
(* lib/game_save_gen1impl.cpp, game_save_gen2impl.cpp and                  *)
(* game_save_gbaimpl.cpp keep them: several of them share a byte, and a    *)
(* setter reads that byte, changes the bits of its option and writes the   *)
(* byte back, in one statement (|=, &=) or in two (&= ~mask, then |=).     *)
(* Between a read and its write, and between the two statements, other     *)
(* threads run.  Most setters and getters hold the mutex of the save; the  *)
(* ones of the battle style and of the battle scene do not.  save_as()     *)
(* holds it while it copies all the bytes.                                 *)
(*                                                                         *)
(* A byte is the set of its bits that are 1.  Which option is in which     *)
(* byte, at which bits, with or without the mutex, is in the constants;    *)
(* module OptionTables reads them off the three files.                     *)
(***************************************************************************)
EXTENDS Integers

CONSTANTS
  Callers, Options, Saves, SaveOf, Tells, Tried,  \* as in OptionRegisters
  Nobody,    \* holds the mutex when no caller does
  Bits,      \* the bits of a byte
  Bytes,     \* the bytes of the saves that hold options
  ByteOf,    \* option -> the byte it is in
  Mask,      \* option -> its bits of that byte
  Locked,    \* the options whose setter and getter take the mutex
  InTwo,     \* the options whose setter first clears the bits, then sets them
  Code,      \* option -> value its setter accepts -> the bits it stores
  Reads,     \* option -> bits found in the byte -> what its getter tells
  Starts,    \* what the bytes can be when a save is loaded
  MaxCalls   \* the number of calls that are made

ASSUME LayoutAssumption ==
  /\ SaveOf \in [Options -> Saves]
  /\ ByteOf \in [Options -> Bytes]
  /\ Mask \in [Options -> SUBSET Bits]
  /\ \A o, p \in Options : o # p /\ ByteOf[o] = ByteOf[p] => Mask[o] \cap Mask[p] = {}
  /\ Starts \subseteq [Bytes -> SUBSET Bits]

ASSUME CodesAssumption ==
  \A o \in Options :
    /\ DOMAIN Code[o] = DOMAIN Tells[o]
    /\ \A v \in DOMAIN Code[o] : Code[o][v] \subseteq Mask[o] /\ Reads[o][Code[o][v]] = Tells[o][v]

(* Whatever is set in two statements is set under the mutex. *)
ASSUME LockedAssumption == Locked \subseteq Options /\ InTwo \subseteq Locked

ASSUME NobodyAssumption == Nobody \notin Callers

ASSUME BoundAssumption == MaxCalls \in Nat

VARIABLES
  save,    \* the save the callers share
  bytes,   \* byte -> its bits that are 1
  owner,   \* the caller that holds the mutex, or Nobody
  call,    \* caller -> the call it is in, or NoCall
  pc,      \* caller -> where it is in that call
  loaded,  \* caller -> the byte it has read, in a register of the processor
  answer,  \* caller -> what the call has come to
  calls    \* the number of calls made so far

vars == <<save, bytes, owner, call, pc, loaded, answer, calls>>

(* What a getter tells of the bits that are there: a value of its table, or *)
(* its "sensible default" for bits that no value has. *)
Told(option) == Reads[option][bytes[ByteOf[option]] \cap Mask[option]]

(* A setter of two statements between them: the bits are cleared, and what *)
(* the option will be is known to its caller only. *)
HalfSet(caller, option) ==
  /\ pc[caller] \in {"load2", "store2"}
  /\ call[caller].option = option
  /\ option \in InTwo

Registered(option) ==
  IF \E caller \in Callers : HalfSet(caller, option)
    THEN LET caller == CHOOSE c \in Callers : HalfSet(c, option)
         IN  Tells[option][call[caller].value]
    ELSE Told(option)

Registers == INSTANCE OptionRegisters
               WITH register <- [option \in Options |-> Registered(option)]

NoCall == Registers!NoCall
GetCall(option) == Registers!GetCall(option)
SetCall(option, value) == Registers!SetCall(option, value)
SaveCall == Registers!SaveCall

-----------------------------------------------------------------------------
\* Faulty variant: getters read without the mutex.
TakesTheLockToWrite(c) == c.op = "save" \/ (c.op = "set" /\ c.option \in Locked)

TakesTheLock(c) == c.op = "save" \/ c.option \in Locked

(* Two calls that must not be made at the same time: a setter that does    *)
(* without the mutex, and one that writes the same byte or saves it.       *)
Disturbs(c, d) ==
  /\ c.op = "set" /\ c.option \notin Locked
  /\ \/ d.op = "save"
     \/ d.op = "set" /\ ByteOf[d.option] = ByteOf[c.option]

(* Callers are careful: the mutex does not help them here. *)
Careful(caller, c) ==
  \A other \in Callers \ {caller} : ~Disturbs(c, call[other]) /\ ~Disturbs(call[other], c)

Begin(caller, c) ==
  /\ call[caller] = NoCall
  /\ calls < MaxCalls
  /\ Careful(caller, c)
  /\ call' = [call EXCEPT ![caller] = c]
  /\ pc' = [pc EXCEPT ![caller] = "check"]
  /\ answer' = [answer EXCEPT ![caller] = Registers!Open]
  /\ calls' = calls + 1
  /\ UNCHANGED <<save, bytes, owner, loaded>>

BeginGet(caller, option) == SaveOf[option] = save /\ Begin(caller, GetCall(option))

BeginSet(caller, option, value) ==
  SaveOf[option] = save /\ Begin(caller, SetCall(option, value))

BeginSave(caller) == Begin(caller, SaveCall)

Goes(caller, place) == pc' = [pc EXCEPT ![caller] = place]

Answers(caller, a) == answer' = [answer EXCEPT ![caller] = a]

(* The value is looked up before the mutex is taken: a bad one is thrown   *)
(* back, with the save as it was. *)
RefusedCall(c) == c.op = "set" /\ c.value \notin DOMAIN Code[c.option]

Refuse(caller) ==
  /\ pc[caller] = "check" /\ RefusedCall(call[caller])
  /\ Goes(caller, "return")
  /\ Answers(caller, Registers!Refused)
  /\ UNCHANGED <<save, bytes, owner, call, loaded, calls>>

Work(c) ==
  IF c.op = "get" THEN "tell"
  ELSE IF c.op = "save" THEN "copy"
  ELSE IF c.option \in InTwo THEN "load1" ELSE "load2"

Enter(caller) ==
  /\ pc[caller] = "check" /\ ~RefusedCall(call[caller])
  /\ IF TakesTheLock(call[caller])
       THEN owner = Nobody /\ owner' = caller
       ELSE UNCHANGED owner
  /\ Goes(caller, Work(call[caller]))
  /\ UNCHANGED <<save, bytes, call, loaded, answer, calls>>

Load(caller, from, to) ==
  /\ pc[caller] = from
  /\ loaded' = [loaded EXCEPT ![caller] = bytes[ByteOf[call[caller].option]]]
  /\ Goes(caller, to)
  /\ UNCHANGED <<save, bytes, owner, call, answer, calls>>

Store(caller, byte, contents) ==
  /\ bytes' = [bytes EXCEPT ![byte] = contents]
  /\ Answers(caller, Registers!Done)
  /\ UNCHANGED <<save, owner, call, loaded, calls>>

LoadToClear(caller) == Load(caller, "load1", "store1")

(* *p &= ~MASK; *)
Clear(caller) ==
  /\ pc[caller] = "store1"
  /\ LET o == call[caller].option IN Store(caller, ByteOf[o], loaded[caller] \ Mask[o])
  /\ Goes(caller, "load2")

LoadToSet(caller) == Load(caller, "load2", "store2")

(* *p |= code; after the bits were cleared, and the only statement of the   *)
(* options of one bit (|= or &=) and of the ones that own a whole byte (=). *)
WithCode(option, value, byte) ==
  (IF option \in InTwo THEN byte ELSE byte \ Mask[option]) \cup Code[option][value]

Set(caller) ==
  /\ pc[caller] = "store2"
  /\ LET c == call[caller]
     IN  Store(caller, ByteOf[c.option], WithCode(c.option, c.value, loaded[caller]))
  /\ Goes(caller, "return")

Tell(caller) ==
  /\ pc[caller] = "tell"
  /\ Answers(caller, Registers!Telling(Told(call[caller].option)))
  /\ Goes(caller, "return")
  /\ UNCHANGED <<save, bytes, owner, call, loaded, calls>>

(* What a save that is made of the file later would tell. *)
OptionsIn(s) == Registers!OptionsIn(s)

Copy(caller) ==
  /\ pc[caller] = "copy"
  /\ Answers(caller, Registers!Holding([option \in OptionsIn(save) |-> Told(option)]))
  /\ Goes(caller, "return")
  /\ UNCHANGED <<save, bytes, owner, call, loaded, calls>>

\* Faulty variant: a getter leaves without letting the mutex go.
ReturnLocked(caller) ==
  /\ pc[caller] = "return"
  /\ owner' = IF owner = caller /\ call[caller].op # "get" THEN Nobody ELSE owner
  /\ call' = [call EXCEPT ![caller] = NoCall]
  /\ Goes(caller, "idle")
  /\ UNCHANGED <<save, bytes, loaded, answer, calls>>

(* The guard goes out of scope: whoever holds the mutex lets it go. *)
Return(caller) ==
  /\ pc[caller] = "return"
  /\ owner' = IF owner = caller THEN Nobody ELSE owner
  /\ call' = [call EXCEPT ![caller] = NoCall]
  /\ Goes(caller, "idle")
  /\ UNCHANGED <<save, bytes, loaded, answer, calls>>

Init ==
  /\ save \in Saves
  /\ bytes \in Starts
  /\ owner = Nobody
  /\ call = [caller \in Callers |-> NoCall]
  /\ pc = [caller \in Callers |-> "idle"]
  /\ loaded = [caller \in Callers |-> {}]
  /\ answer = [caller \in Callers |-> Registers!Done]
  /\ calls = 0

Begins(caller) ==
  \/ \E option \in Options :
       BeginGet(caller, option) \/ \E value \in Tried[option] : BeginSet(caller, option, value)
  \/ BeginSave(caller)

Step(caller) ==
  \/ Refuse(caller) \/ Enter(caller)
  \/ LoadToClear(caller) \/ Clear(caller) \/ LoadToSet(caller) \/ Set(caller)
  \/ Tell(caller) \/ Copy(caller)
  \/ Return(caller)

Next == \E caller \in Callers : Begins(caller) \/ Step(caller)

(* A thread in a call goes on; nobody has to make one. *)
Fairness == \A caller \in Callers : WF_vars(Step(caller))

Spec == Init /\ [][Next]_vars /\ Fairness

-----------------------------------------------------------------------------
IsCall(c) ==
  \/ c \in {NoCall, SaveCall}
  \/ c.op = "get" /\ c.option \in Options /\ c = GetCall(c.option)
  \/ /\ c.op = "set" /\ c.option \in Options /\ c.value \in Tried[c.option]
     /\ c = SetCall(c.option, c.value)

(* Where a caller can be in a call. *)
Places(c) ==
  IF c = NoCall THEN {"idle"}
  ELSE {"check", "return"} \cup
       IF c.op = "get" THEN {"tell"}
       ELSE IF c.op = "save" THEN {"copy"}
       ELSE IF c.option \in InTwo THEN {"load1", "store1", "load2", "store2"}
       ELSE {"load2", "store2"}

(* The variables have the values they are meant to have, and a caller is   *)
(* where its call can be. *)
TypeOK ==
  /\ save \in Saves
  /\ bytes \in [Bytes -> SUBSET Bits]
  /\ owner \in Callers \cup {Nobody}
  /\ DOMAIN call = Callers /\ \A caller \in Callers : IsCall(call[caller])
  /\ DOMAIN pc = Callers /\ \A caller \in Callers : pc[caller] \in Places(call[caller])
  /\ loaded \in [Callers -> SUBSET Bits]
  /\ calls \in 0..MaxCalls

(* A step changes no bit of a byte but the ones of an option that a caller *)
(* is setting: not the other options in the byte, and not the bits no      *)
(* option has, whatever the order of the reads and writes of the callers.  *)
Changed(byte) == (bytes[byte] \ bytes'[byte]) \cup (bytes'[byte] \ bytes[byte])

OnlyItsOwnBits ==
  [][\A byte \in Bytes :
       bytes'[byte] # bytes[byte] =>
         \E caller \in Callers :
           /\ call[caller].op = "set"
           /\ ByteOf[call[caller].option] = byte
           /\ Changed(byte) \subseteq Mask[call[caller].option]]_vars

(* Every option behaves like a register of its own: no setter undoes what  *)
(* another one has set in the same byte, a getter never tells the default  *)
(* of half-set bits, and a file never holds them. *)
ImplementsRegisters == Registers!Spec

(* Every call returns, for the mutex is let go on every path out of a call; *)
(* the callers that wait for it are as many as the calls that are made.    *)
CallsReturn == \A caller \in Callers : call[caller] # NoCall ~> call[caller] = NoCall
=============================================================================
