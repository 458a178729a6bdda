-------------------------- MODULE OptionRegisters --------------------------
(***************************************************************************)
(* What the option attributes of a save promise their callers              *)
(* (include/pkmn/types/class_with_attributes.hpp): every option is a       *)
(* register of its own, whatever byte it shares with others, and every     *)
(* call takes effect at one moment between its beginning and its return.   *)
(* A file that is saved holds all the registers of one moment.             *)
(***************************************************************************)
CONSTANTS
  Callers,  \* the threads of the program that uses the library
  Options,  \* the options of all the saves
  Saves,    \* the saves they are in
  SaveOf,   \* the save an option is in
  Tells,    \* option -> value it accepts -> what its getter tells from then on
  Tried     \* option -> the values callers try to set

VARIABLES
  register,  \* option -> what its getter tells
  call,      \* caller -> the call it has made, or NoCall
  answer     \* caller -> what its last call came to, or Open

vars == <<register, call, answer>>

NoCall == [op |-> "none"]
GetCall(option) == [op |-> "get", option |-> option]
SetCall(option, value) == [op |-> "set", option |-> option, value |-> value]
SaveCall == [op |-> "save"]

Open == [kind |-> "open"]
Done == [kind |-> "done"]
Refused == [kind |-> "refused"]
Telling(value) == [kind |-> "told", value |-> value]
Holding(values) == [kind |-> "held", value |-> values]

Begins(caller) ==
  /\ call[caller] = NoCall
  /\ answer' = [answer EXCEPT ![caller] = Open]
  /\ \/ call' = [call EXCEPT ![caller] = SaveCall]
     \/ \E option \in Options :
          \/ call' = [call EXCEPT ![caller] = GetCall(option)]
          \/ \E value \in Tried[option] : call' = [call EXCEPT ![caller] = SetCall(option, value)]
  /\ UNCHANGED register

Answers(caller, a) ==
  /\ answer[caller] = Open
  /\ answer' = [answer EXCEPT ![caller] = a]
  /\ UNCHANGED call

Accepted(c) == c.value \in DOMAIN Tells[c.option]

Sets(caller) ==
  LET c == call[caller] IN
  /\ c.op = "set" /\ Accepted(c)
  /\ Answers(caller, Done)
  /\ register' = [register EXCEPT ![c.option] = Tells[c.option][c.value]]

Refuses(caller) ==
  /\ call[caller].op = "set" /\ ~Accepted(call[caller])
  /\ Answers(caller, Refused)
  /\ UNCHANGED register

Gets(caller) ==
  /\ call[caller].op = "get"
  /\ Answers(caller, Telling(register[call[caller].option]))
  /\ UNCHANGED register

OptionsIn(save) == {option \in Options : SaveOf[option] = save}

Saved(caller, save) ==
  /\ call[caller].op = "save"
  /\ Answers(caller, Holding([option \in OptionsIn(save) |-> register[option]]))
  /\ UNCHANGED register

Returns(caller) ==
  /\ call[caller] # NoCall
  /\ answer[caller] # Open
  /\ call' = [call EXCEPT ![caller] = NoCall]
  /\ UNCHANGED <<register, answer>>

Init ==
  /\ call = [caller \in Callers |-> NoCall]
  /\ answer = [caller \in Callers |-> Done]

Next == \E caller \in Callers :
  \/ Begins(caller)
  \/ Sets(caller) \/ Refuses(caller) \/ Gets(caller)
  \/ \E save \in Saves : Saved(caller, save)
  \/ Returns(caller)

Spec == Init /\ [][Next]_vars
=============================================================================
