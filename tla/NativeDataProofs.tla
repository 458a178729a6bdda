------------------------- MODULE NativeDataProofs --------------------------
(***************************************************************************)
(* That native structures keep what is set in them, for any values of the  *)
(* constants: the options of a save, which share bytes, the trainer's      *)
(* card, and a Pokemon's awards and origin.                                *)
(*                                                                         *)
(* Options: for any layout of the option bytes in which the options of a   *)
(* byte have different bits and whatever takes two statements is locked,   *)
(* and for any number of careful callers, no step touches another option's *)
(* bits, and every option behaves like a register of its own.  A setter is *)
(* alone with its byte from its first read to its last write: against a    *)
(* setter that locks by the mutex, against one that does not by the care   *)
(* of the callers.  So what it has read is still there when it writes.     *)
(*                                                                         *)
(* Card and awards: a row of the tables of NativeRows tells what it stored *)
(* (Exact, Sound), and two rows that say different things have different   *)
(* cells or different bits of one (Apart).  From these two, which are      *)
(* shown row by row, it follows what a setter does and what it leaves.     *)
(*                                                                         *)
(* Origin: a getter may meet what no setter stored, for a file brings any  *)
(* structure and a trade copies bytes.  OriginInv says of which traits     *)
(* this cannot happen in which class, and a conversion is right because of *)
(* that.                                                                   *)
(***************************************************************************)
EXTENDS SaveOptions, PokemonOrigin, TrainerCard, Awards, TLAPS, WellFoundedInduction

Setting == {"load1", "store1", "load2", "store2"}
Working == Setting \cup {"tell", "copy"}

(* Who works under the mutex holds it. *)
HoldsTheMutex ==
  \A c \in Callers : pc[c] \in Working /\ TakesTheLock(call[c]) => owner = c

AllAreCareful == \A c, d \in Callers : c # d => ~Disturbs(call[c], call[d])

(* What a setter has read is what is there. *)
ReadIsCurrent ==
  \A c \in Callers :
    pc[c] \in {"store1", "store2"} => loaded[c] = bytes[ByteOf[call[c].option]]

(* Between the two statements the bits are clear. *)
ClearBetween ==
  \A c \in Callers :
    pc[c] \in {"load2", "store2"} /\ call[c].option \in InTwo =>
      bytes[ByteOf[call[c].option]] \cap Mask[call[c].option] = {}

SetsGoodValue ==
  \A c \in Callers : pc[c] \in Setting => call[c].value \in DOMAIN Code[call[c].option]

AnswersInTime ==
  /\ answer = [c \in Callers |-> answer[c]]
  /\ \A c \in Callers :
       /\ pc[c] \in {"check", "load1", "store1", "tell", "copy"} => answer[c] = Registers!Open
       /\ pc[c] \in {"load2", "store2"} =>
            answer[c] = IF call[c].option \in InTwo THEN Registers!Done ELSE Registers!Open
       /\ pc[c] = "return" => answer[c] # Registers!Open

IInv ==
  /\ TypeOK
  /\ call = [c \in Callers |-> call[c]] /\ pc = [c \in Callers |-> pc[c]]
  /\ HoldsTheMutex /\ AllAreCareful /\ ReadIsCurrent /\ ClearBetween /\ SetsGoodValue
  /\ AnswersInTime

-----------------------------------------------------------------------------
(* The different calls and answers, once and for all. *)
LEMMA Shapes ==
  /\ NoCall.op = "none" /\ SaveCall.op = "save"
  /\ \A o : GetCall(o).op = "get" /\ GetCall(o).option = o
  /\ \A o, v : SetCall(o, v).op = "set" /\ SetCall(o, v).option = o /\ SetCall(o, v).value = v
  /\ Registers!Done # Registers!Open /\ Registers!Refused # Registers!Open
  /\ \A v : Registers!Telling(v) # Registers!Open /\ Registers!Holding(v) # Registers!Open
<1>1. Registers!Open.kind = "open" /\ Registers!Done.kind = "done" /\ Registers!Refused.kind = "refused"
  BY DEF Registers!Open, Registers!Done, Registers!Refused
<1>2. \A v : Registers!Telling(v).kind = "told" /\ Registers!Holding(v).kind = "held"
  BY DEF Registers!Telling, Registers!Holding
<1> QED BY <1>1, <1>2 DEF NoCall, SaveCall, GetCall, SetCall,
      Registers!NoCall, Registers!SaveCall, Registers!GetCall, Registers!SetCall

(* Where a caller is tells what it is doing. *)
LEMMA PlaceTells ==
  ASSUME NEW c, IsCall(c), NEW p \in Places(c)
  PROVE  /\ c.op \in {"none", "get", "set", "save"}
         /\ c = NoCall <=> p = "idle"
         /\ c.op = "none" <=> c = NoCall
         /\ c.op = "save" => c = SaveCall
         /\ c.op \in {"get", "set"} => c.option \in Options
         /\ p = "tell" => c.op = "get"
         /\ p = "copy" => c.op = "save"
         /\ p \in Setting => c.op = "set"
         /\ p \in {"load1", "store1"} => c.option \in InTwo
<1>1. c.op \in {"none", "get", "set", "save"} /\ (c.op = "none" <=> c = NoCall)
      /\ (c.op = "save" => c = SaveCall) /\ (c.op \in {"get", "set"} => c.option \in Options)
  BY Shapes DEF IsCall
<1>2. CASE c = NoCall
  BY <1>1, <1>2, Shapes DEF Places, Setting
<1>3. CASE c.op = "get"
  BY <1>1, <1>3, Shapes DEF Places, Setting
<1>4. CASE c.op = "save"
  BY <1>1, <1>4, Shapes DEF Places, Setting
<1>5. CASE c.op = "set"
  BY <1>1, <1>5, Shapes DEF Places, Setting
<1> QED BY <1>1, <1>2, <1>3, <1>4, <1>5

LEMMA CallerHas ==
  ASSUME IInv, NEW c \in Callers
  PROVE  IsCall(call[c]) /\ pc[c] \in Places(call[c])
BY DEF IInv, TypeOK

(* A setter is alone with its byte. *)
LEMMA SetterIsAlone ==
  ASSUME IInv, NEW c \in Callers, NEW d \in Callers, c # d,
         pc[c] \in Setting, pc[d] \in Setting,
         ByteOf[call[c].option] = ByteOf[call[d].option]
  PROVE  FALSE
<1>1. call[c].op = "set" /\ call[d].op = "set"
  BY CallerHas, PlaceTells
<1>2. ~Disturbs(call[c], call[d]) /\ ~Disturbs(call[d], call[c])
  BY DEF IInv, AllAreCareful
<1>3. call[c].option \in Locked /\ call[d].option \in Locked
  BY <1>1, <1>2 DEF Disturbs
<1>4. owner = c /\ owner = d
  BY <1>3 DEF IInv, HoldsTheMutex, TakesTheLock, Working
<1> QED BY <1>4

-----------------------------------------------------------------------------
THEOREM InitIInv == Init => IInv
<1> SUFFICES ASSUME Init PROVE IInv
  OBVIOUS
<1>1. TypeOK
  BY LayoutAssumption, BoundAssumption, Shapes DEF Init, TypeOK, IsCall, Places
<1>2. AllAreCareful
  BY Shapes DEF Init, AllAreCareful, Disturbs
<1>3. HoldsTheMutex /\ ReadIsCurrent /\ ClearBetween /\ SetsGoodValue /\ AnswersInTime
  BY DEF Init, HoldsTheMutex, ReadIsCurrent, ClearBetween, SetsGoodValue, AnswersInTime,
         Working, Setting
<1> QED BY <1>1, <1>2, <1>3 DEF IInv, Init

LEMMA BeginIInv ==
  ASSUME IInv, NEW c \in Callers, NEW x, IsCall(x), x # NoCall, Begin(c, x)
  PROVE  IInv'
<1>1. pc[c] = "idle" /\ call[c] = NoCall
  BY CallerHas, PlaceTells DEF Begin
<1>2. /\ call' = [call EXCEPT ![c] = x] /\ pc' = [pc EXCEPT ![c] = "check"]
      /\ answer' = [answer EXCEPT ![c] = Registers!Open] /\ calls' = calls + 1 /\ calls < MaxCalls
      /\ UNCHANGED <<save, bytes, owner, loaded>>
  BY DEF Begin
<1>3. call' = [d \in Callers |-> call'[d]] /\ pc' = [d \in Callers |-> pc'[d]]
  BY <1>2 DEF IInv
<1>4. /\ \A d \in Callers : call'[d] = IF d = c THEN x ELSE call[d]
      /\ \A d \in Callers : pc'[d] = IF d = c THEN "check" ELSE pc[d]
  BY <1>2 DEF IInv
<1>5. TypeOK'
  <2>1. "check" \in Places(x)
    BY DEF Places
  <2>2. calls' \in 0..MaxCalls
    BY <1>2, BoundAssumption DEF IInv, TypeOK
  <2> QED BY <1>2, <1>3, <1>4, <2>1, <2>2 DEF IInv, TypeOK
<1>6. AllAreCareful'
  BY <1>4 DEF IInv, AllAreCareful, Begin, Careful
<1>7. HoldsTheMutex' /\ ReadIsCurrent' /\ ClearBetween' /\ SetsGoodValue'
  BY <1>2, <1>4 DEF IInv, HoldsTheMutex, ReadIsCurrent, ClearBetween, SetsGoodValue, Working, Setting
<1>8. AnswersInTime'
  BY <1>2, <1>4 DEF IInv, AnswersInTime
<1> QED BY <1>3, <1>5, <1>6, <1>7, <1>8 DEF IInv

(* The steps that change neither the bytes nor the calls. *)
LEMMA QuietIInv ==
  ASSUME IInv, NEW c \in Callers, NEW place \in Places(call[c]), NEW a,
         pc' = [pc EXCEPT ![c] = place], answer' = [answer EXCEPT ![c] = a],
         UNCHANGED <<save, bytes, call, loaded, calls>>,
         owner' \in Callers \cup {Nobody}, owner' = owner \/ (owner = Nobody /\ owner' = c),
         place \in Working /\ TakesTheLock(call[c]) => owner' = c,
         place \notin {"store1", "store2"},
         place \in {"load2"} => call[c].option \notin InTwo,
         place \in Setting => call[c].value \in DOMAIN Code[call[c].option],
         place = "return" => a # Registers!Open,
         place \in {"load1", "load2", "tell", "copy"} => a = Registers!Open,
         place # "check"
  PROVE  IInv'
<1>1. \A d \in Callers : pc'[d] = IF d = c THEN place ELSE pc[d]
  BY DEF IInv
<1>2. pc' = [d \in Callers |-> pc'[d]] /\ call' = [d \in Callers |-> call'[d]]
  BY DEF IInv
<1>3. TypeOK'
  BY <1>1, <1>2 DEF IInv, TypeOK
<1>4. HoldsTheMutex'
  <2> SUFFICES ASSUME NEW d \in Callers, d # c, pc[d] \in Working, TakesTheLock(call[d])
               PROVE  owner' = d
    BY <1>1 DEF HoldsTheMutex
  <2>1. owner = d
    BY DEF IInv, HoldsTheMutex
  <2> QED BY <2>1, NobodyAssumption
<1>5. AllAreCareful'
  BY DEF IInv, AllAreCareful
<1>6. ReadIsCurrent'
  BY <1>1 DEF IInv, ReadIsCurrent
<1>7. ClearBetween'
  BY <1>1 DEF IInv, ClearBetween
<1>8. SetsGoodValue'
  BY <1>1 DEF IInv, SetsGoodValue
<1>9. AnswersInTime'
  BY <1>1 DEF IInv, AnswersInTime, Setting, Places
<1> QED BY <1>2, <1>3, <1>4, <1>5, <1>6, <1>7, <1>8, <1>9 DEF IInv

LEMMA QuietStepsIInv ==
  ASSUME IInv, NEW c \in Callers, Refuse(c) \/ Enter(c) \/ Tell(c) \/ Copy(c)
  PROVE  IInv'
<1>0. IsCall(call[c]) /\ pc[c] \in Places(call[c]) /\ owner \in Callers \cup {Nobody}
  BY CallerHas DEF IInv, TypeOK
<1>00. [pc EXCEPT ![c] = pc[c]] = pc /\ [answer EXCEPT ![c] = answer[c]] = answer
  BY DEF IInv, AnswersInTime
<1>1. CASE Refuse(c)
  <2>1. "return" \in Places(call[c])
    BY <1>0, <1>1, PlaceTells DEF Refuse, Places
  <2> QED BY <1>0, <1>1, <2>1, QuietIInv, Shapes DEF Refuse, Goes, Answers, Working, Setting
<1>2. CASE Enter(c)
  <2> DEFINE w == Work(call[c])
  <2>1. call[c] # NoCall /\ call[c].op \in {"get", "set", "save"}
    BY <1>0, <1>2, PlaceTells DEF Enter
  <2>2. w \in Places(call[c])
    BY <2>1 DEF Work, Places
  <2>3. w \in {"load1", "load2", "tell", "copy"} /\ (w = "load2" => call[c].option \notin InTwo)
        /\ (w \in Setting => call[c].op = "set")
    BY <2>1 DEF Work, Setting
  <2>4. w \in Setting => call[c].value \in DOMAIN Code[call[c].option]
    BY <1>2, <2>3 DEF Enter, RefusedCall
  <2>5. answer[c] = Registers!Open
    BY <1>2 DEF Enter, IInv, AnswersInTime
  <2>6. /\ pc' = [pc EXCEPT ![c] = w] /\ answer' = [answer EXCEPT ![c] = answer[c]]
        /\ UNCHANGED <<save, bytes, call, loaded, calls>>
    BY <1>2, <1>00 DEF Enter, Goes
  <2>7. /\ owner' \in Callers \cup {Nobody} /\ (owner' = owner \/ (owner = Nobody /\ owner' = c))
        /\ (TakesTheLock(call[c]) => owner' = c)
    BY <1>0, <1>2 DEF Enter
  <2> HIDE DEF w
  <2> QED BY <2>2, <2>3, <2>4, <2>5, <2>6, <2>7, QuietIInv
<1>3. CASE Tell(c)
  <2>1. "return" \in Places(call[c])
    BY <1>0, <1>3, PlaceTells DEF Tell, Places
  <2>2. PICK a : a # Registers!Open /\ answer' = [answer EXCEPT ![c] = a]
    BY <1>3, Shapes DEF Tell, Answers
  <2>3. pc' = [pc EXCEPT ![c] = "return"] /\ UNCHANGED <<save, bytes, owner, call, loaded, calls>>
    BY <1>3 DEF Tell, Goes
  <2> QED BY <1>0, <2>1, <2>2, <2>3, QuietIInv DEF Working, Setting
<1>4. CASE Copy(c)
  <2>1. "return" \in Places(call[c])
    BY <1>0, <1>4, PlaceTells DEF Copy, Places
  <2>2. PICK a : a # Registers!Open /\ answer' = [answer EXCEPT ![c] = a]
    BY <1>4, Shapes DEF Copy, Answers
  <2>3. pc' = [pc EXCEPT ![c] = "return"] /\ UNCHANGED <<save, bytes, owner, call, loaded, calls>>
    BY <1>4 DEF Copy, Goes
  <2> QED BY <1>0, <2>1, <2>2, <2>3, QuietIInv DEF Working, Setting
<1> QED BY <1>1, <1>2, <1>3, <1>4

LEMMA LoadIInv ==
  ASSUME IInv, NEW c \in Callers, LoadToClear(c) \/ LoadToSet(c)
  PROVE  IInv'
<1>0. IsCall(call[c]) /\ pc[c] \in Places(call[c])
  BY CallerHas
<1>1. PICK from, to :
        /\ Load(c, from, to)
        /\ \/ from = "load1" /\ to = "store1"
           \/ from = "load2" /\ to = "store2"
  BY DEF LoadToClear, LoadToSet
<1>2. /\ pc[c] = from /\ UNCHANGED <<save, bytes, owner, call, answer, calls>>
      /\ \A d \in Callers : pc'[d] = IF d = c THEN to ELSE pc[d]
      /\ \A d \in Callers : loaded'[d] = IF d = c THEN bytes[ByteOf[call[c].option]] ELSE loaded[d]
      /\ pc' = [d \in Callers |-> pc'[d]] /\ loaded' = [d \in Callers |-> loaded'[d]]
  BY <1>1 DEF Load, Goes, IInv, TypeOK
<1>3. from \in Setting /\ to \in Setting /\ from \in Working
  BY <1>1 DEF Setting, Working
<1>4. call[c].op = "set" /\ call[c].option \in Options
  BY <1>0, <1>2, <1>3, PlaceTells
<1>5. to \in Places(call[c])
  BY <1>0, <1>1, <1>2, <1>4, PlaceTells DEF Places
<1>6. bytes[ByteOf[call[c].option]] \in SUBSET Bits
  BY <1>4, LayoutAssumption DEF IInv, TypeOK
<1>7. TypeOK'
  BY <1>2, <1>5, <1>6 DEF IInv, TypeOK
<1>8. HoldsTheMutex'
  BY <1>2, <1>3 DEF IInv, HoldsTheMutex
<1>9. AllAreCareful' /\ ReadIsCurrent'
  BY <1>2 DEF IInv, AllAreCareful, ReadIsCurrent
<1>10. ClearBetween'
  BY <1>0, <1>1, <1>2 DEF IInv, ClearBetween
<1>11. SetsGoodValue'
  BY <1>2, <1>3 DEF IInv, SetsGoodValue
<1>12. AnswersInTime'
  BY <1>1, <1>2 DEF IInv, AnswersInTime
<1> QED BY <1>2, <1>7, <1>8, <1>9, <1>10, <1>11, <1>12 DEF IInv

(* What the two stores write. *)
Written(c) ==
  IF pc[c] = "store1" THEN loaded[c] \ Mask[call[c].option]
                      ELSE WithCode(call[c].option, call[c].value, loaded[c])

LEMMA StoreSteps ==
  ASSUME IInv, NEW c \in Callers, Clear(c) \/ Set(c)
  PROVE  LET o == call[c].option IN
         /\ pc[c] \in {"store1", "store2"} /\ call[c].op = "set" /\ o \in Options
         /\ o \in InTwo => o \in Locked
         /\ pc[c] = "store1" => o \in InTwo
         /\ call[c].value \in DOMAIN Code[o] /\ Code[o][call[c].value] \subseteq Mask[o]
         /\ ByteOf[o] \in Bytes /\ Mask[o] \subseteq Bits
         /\ loaded[c] = bytes[ByteOf[o]] /\ loaded[c] \subseteq Bits
         /\ bytes' = [bytes EXCEPT ![ByteOf[o]] = Written(c)]
         /\ \A b \in Bytes : bytes'[b] = IF b = ByteOf[o] THEN Written(c) ELSE bytes[b]
         /\ pc' = [pc EXCEPT ![c] = IF pc[c] = "store1" THEN "load2" ELSE "return"]
         /\ answer' = [answer EXCEPT ![c] = Registers!Done]
         /\ UNCHANGED <<save, owner, call, loaded, calls>>
<1> DEFINE o == call[c].option
<1>1. IsCall(call[c]) /\ pc[c] \in Places(call[c])
  BY CallerHas
<1>2. pc[c] \in {"store1", "store2"} /\ pc[c] \in Setting
  BY DEF Clear, Set, Setting
<1>3. call[c].op = "set" /\ o \in Options /\ (pc[c] = "store1" => o \in InTwo)
  BY <1>1, <1>2, PlaceTells
<1>4. call[c].value \in DOMAIN Code[o] /\ Code[o][call[c].value] \subseteq Mask[o]
  BY <1>2, <1>3, CodesAssumption DEF IInv, SetsGoodValue
<1>5. ByteOf[o] \in Bytes /\ Mask[o] \subseteq Bits
  BY <1>3, LayoutAssumption
<1>6. loaded[c] = bytes[ByteOf[o]] /\ loaded[c] \subseteq Bits
  BY <1>2 DEF IInv, TypeOK, ReadIsCurrent
<1>7. /\ bytes' = [bytes EXCEPT ![ByteOf[o]] = Written(c)]
      /\ pc' = [pc EXCEPT ![c] = IF pc[c] = "store1" THEN "load2" ELSE "return"]
      /\ answer' = [answer EXCEPT ![c] = Registers!Done]
      /\ UNCHANGED <<save, owner, call, loaded, calls>>
  BY DEF Clear, Set, Store, Answers, Goes, Written
<1>8. \A b \in Bytes : bytes'[b] = IF b = ByteOf[o] THEN Written(c) ELSE bytes[b]
  BY <1>7 DEF IInv, TypeOK
<1> QED BY <1>2, <1>3, <1>4, <1>5, <1>6, <1>7, <1>8, LockedAssumption

LEMMA StoreIInv ==
  ASSUME IInv, NEW c \in Callers, Clear(c) \/ Set(c)
  PROVE  IInv'
<1> DEFINE o == call[c].option
           b == ByteOf[o]
           to == IF pc[c] = "store1" THEN "load2" ELSE "return"
<1>1. /\ pc[c] \in {"store1", "store2"} /\ call[c].op = "set" /\ o \in Options
      /\ pc[c] = "store1" => o \in InTwo
      /\ Code[o][call[c].value] \subseteq Mask[o]
      /\ b \in Bytes /\ Mask[o] \subseteq Bits
      /\ loaded[c] \subseteq Bits
      /\ bytes' = [bytes EXCEPT ![b] = Written(c)]
      /\ \A x \in Bytes : bytes'[x] = IF x = b THEN Written(c) ELSE bytes[x]
      /\ pc' = [pc EXCEPT ![c] = to]
      /\ answer' = [answer EXCEPT ![c] = Registers!Done]
      /\ UNCHANGED <<save, owner, call, loaded, calls>>
  BY StoreSteps
<1>2. \A d \in Callers : pc'[d] = IF d = c THEN to ELSE pc[d]
  BY <1>1 DEF IInv
<1>3. \A d \in Callers : answer'[d] = IF d = c THEN Registers!Done ELSE answer[d]
  BY <1>1 DEF IInv, AnswersInTime
<1>4. pc' = [d \in Callers |-> pc'[d]] /\ answer' = [d \in Callers |-> answer'[d]]
  BY <1>1 DEF IInv, AnswersInTime
<1>5. IsCall(call[c]) /\ pc[c] \in Places(call[c])
  BY CallerHas
<1>6. to \in Places(call[c])
  BY <1>1, <1>5, PlaceTells DEF Places
<1>7. Written(c) \in SUBSET Bits
  BY <1>1 DEF Written, WithCode
<1>8. ASSUME NEW d \in Callers, pc'[d] \in Setting, d # c
      PROVE  bytes'[ByteOf[call[d].option]] = bytes[ByteOf[call[d].option]]
  <2>1. pc[d] \in Setting /\ pc[c] \in Setting
    BY <1>1, <1>2, <1>8 DEF Setting
  <2>2. ByteOf[call[d].option] # b
    BY <1>8, <2>1, SetterIsAlone
  <2>3. call[d].option \in Options
    BY <2>1, CallerHas, PlaceTells
  <2>4. ByteOf[call[d].option] \in Bytes
    BY <2>3, LayoutAssumption
  <2> QED BY <1>1, <2>2, <2>4
<1>9. TypeOK'
  <2>1. bytes' \in [Bytes -> SUBSET Bits]
    BY <1>1, <1>7 DEF IInv, TypeOK
  <2> QED BY <1>1, <1>2, <1>4, <1>6, <2>1 DEF IInv, TypeOK
<1>10. HoldsTheMutex'
  BY <1>1, <1>2 DEF IInv, HoldsTheMutex, Working, Setting
<1>11. AllAreCareful'
  BY <1>1 DEF IInv, AllAreCareful
<1>12. ReadIsCurrent'
  BY <1>1, <1>2, <1>8 DEF IInv, ReadIsCurrent, Setting
<1>13. ClearBetween'
  <2> SUFFICES ASSUME NEW d \in Callers, pc'[d] \in {"load2", "store2"}, call[d].option \in InTwo
               PROVE  bytes'[ByteOf[call[d].option]] \cap Mask[call[d].option] = {}
    BY <1>1 DEF ClearBetween
  <2>1. CASE d = c
    BY <1>1, <1>2, <2>1 DEF Written
  <2>2. CASE d # c
    BY <1>2, <1>8, <2>2 DEF IInv, ClearBetween, Setting
  <2> QED BY <2>1, <2>2
<1>14. SetsGoodValue'
  BY <1>1, <1>2 DEF IInv, SetsGoodValue, Setting
<1>15. AnswersInTime'
  BY <1>1, <1>2, <1>3, <1>4, Shapes DEF IInv, AnswersInTime
<1> QED BY <1>1, <1>4, <1>9, <1>10, <1>11, <1>12, <1>13, <1>14, <1>15 DEF IInv

LEMMA ReturnIInv ==
  ASSUME IInv, NEW c \in Callers, Return(c)
  PROVE  IInv'
<1>1. /\ pc[c] = "return" /\ owner' = (IF owner = c THEN Nobody ELSE owner)
      /\ call' = [call EXCEPT ![c] = NoCall] /\ pc' = [pc EXCEPT ![c] = "idle"]
      /\ UNCHANGED <<save, bytes, loaded, answer, calls>>
  BY DEF Return, Goes
<1>2. /\ \A d \in Callers : call'[d] = IF d = c THEN NoCall ELSE call[d]
      /\ \A d \in Callers : pc'[d] = IF d = c THEN "idle" ELSE pc[d]
      /\ call' = [d \in Callers |-> call'[d]] /\ pc' = [d \in Callers |-> pc'[d]]
  BY <1>1 DEF IInv
<1>3. TypeOK'
  BY <1>1, <1>2 DEF IInv, TypeOK, IsCall, Places
<1>4. HoldsTheMutex'
  <2> SUFFICES ASSUME NEW d \in Callers, d # c, pc[d] \in Working, TakesTheLock(call[d])
               PROVE  owner' = d
    BY <1>2 DEF HoldsTheMutex, Working, Setting
  <2>1. owner = d
    BY DEF IInv, HoldsTheMutex
  <2> QED BY <1>1, <2>1
<1>5. AllAreCareful'
  BY <1>2, Shapes DEF IInv, AllAreCareful, Disturbs
<1>6. ReadIsCurrent' /\ ClearBetween' /\ SetsGoodValue'
  BY <1>1, <1>2 DEF IInv, ReadIsCurrent, ClearBetween, SetsGoodValue, Setting
<1>7. AnswersInTime'
  BY <1>1, <1>2 DEF IInv, AnswersInTime
<1> QED BY <1>2, <1>3, <1>4, <1>5, <1>6, <1>7 DEF IInv

THEOREM NextIInv == IInv /\ [Next]_vars => IInv'
<1> SUFFICES ASSUME IInv, [Next]_vars PROVE IInv'
  OBVIOUS
<1>1. CASE UNCHANGED vars
  BY <1>1 DEF vars, IInv, TypeOK, HoldsTheMutex, AllAreCareful, ReadIsCurrent, ClearBetween,
              SetsGoodValue, AnswersInTime
<1>2. CASE Next
  <2>1. PICK c \in Callers : Begins(c) \/ Step(c)
    BY <1>2 DEF Next
  <2>2. CASE Begins(c)
    <3>1. PICK x : IsCall(x) /\ x # NoCall /\ Begin(c, x)
      BY <2>2, Shapes DEF Begins, BeginGet, BeginSet, BeginSave, IsCall
    <3> QED BY <3>1, BeginIInv
  <2>3. CASE Step(c)
    BY <2>3, QuietStepsIInv, LoadIInv, StoreIInv, ReturnIInv DEF Step
  <2> QED BY <2>1, <2>2, <2>3
<1> QED BY <1>1, <1>2

(* Every variable has its values, and every caller is where its call can be. *)
THEOREM TypeTheorem == Spec => []TypeOK
<1>1. IInv => TypeOK
  BY DEF IInv
<1> QED BY <1>1, InitIInv, NextIInv, PTL DEF Spec

(* No step touches another option's bits, or bits that are no option's. *)
THEOREM OwnBitsTheorem == Spec => OnlyItsOwnBits
<1> DEFINE Own == \A byte \in Bytes :
             bytes'[byte] # bytes[byte] =>
               \E caller \in Callers :
                 /\ call[caller].op = "set"
                 /\ ByteOf[call[caller].option] = byte
                 /\ Changed(byte) \subseteq Mask[call[caller].option]
<1>1. IInv /\ [Next]_vars => [Own]_vars
  <2> SUFFICES ASSUME IInv, Next, NEW byte \in Bytes, bytes'[byte] # bytes[byte]
               PROVE  \E caller \in Callers :
                        /\ call[caller].op = "set"
                        /\ ByteOf[call[caller].option] = byte
                        /\ Changed(byte) \subseteq Mask[call[caller].option]
    OBVIOUS
  <2>1. PICK c \in Callers : Clear(c) \/ Set(c)
    BY DEF Next, Begins, Step, BeginGet, BeginSet, BeginSave, Begin, Refuse, Enter, Tell, Copy,
           LoadToClear, LoadToSet, Load, Return
  <2>2. /\ call[c].op = "set" /\ ByteOf[call[c].option] = byte /\ bytes'[byte] = Written(c)
        /\ Code[call[c].option][call[c].value] \subseteq Mask[call[c].option]
        /\ loaded[c] = bytes[byte]
    BY <2>1, StoreSteps
  <2>3. Changed(byte) \subseteq Mask[call[c].option]
    BY <2>2 DEF Changed, Written, WithCode
  <2> QED BY <2>2, <2>3
<1> QED BY <1>1, InitIInv, NextIInv, PTL DEF Spec, OnlyItsOwnBits

-----------------------------------------------------------------------------
(* What an option is registered as: what the only caller between its two   *)
(* statements will have set, or what the byte tells. *)
RegisteredAsMeant ==
  \A o \in Options :
    /\ \A c \in Callers : HalfSet(c, o) => Registered(o) = Tells[o][call[c].value]
    /\ (\A c \in Callers : ~HalfSet(c, o)) => Registered(o) = Told(o)

LEMMA RegisteredIs == IInv => RegisteredAsMeant
<1> SUFFICES ASSUME IInv, NEW o \in Options
             PROVE  /\ \A c \in Callers : HalfSet(c, o) => Registered(o) = Tells[o][call[c].value]
                    /\ (\A c \in Callers : ~HalfSet(c, o)) => Registered(o) = Told(o)
  BY DEF RegisteredAsMeant
<1>1. ASSUME NEW c \in Callers, HalfSet(c, o) PROVE Registered(o) = Tells[o][call[c].value]
  <2> DEFINE h == CHOOSE d \in Callers : HalfSet(d, o)
  <2>1. h \in Callers /\ HalfSet(h, o)
    BY <1>1
  <2>2. Registered(o) = Tells[o][call[h].value]
    BY <1>1 DEF Registered
  <2> HIDE DEF h
  <2>3. h = c
    BY <1>1, <2>1, SetterIsAlone DEF HalfSet, Setting
  <2> QED BY <2>2, <2>3
<1>2. (\A c \in Callers : ~HalfSet(c, o)) => Registered(o) = Told(o)
  BY DEF Registered
<1> QED BY <1>1, <1>2

LEMMA RegisteredIsNext == IInv' => RegisteredAsMeant'
BY RegisteredIs, PTL

(* A step that neither writes a byte nor enters or leaves the middle of a  *)
(* setter of two statements changes no register. *)
LEMMA RegistersStay ==
  ASSUME IInv, IInv', bytes' = bytes,
         \A c \in Callers, o \in Options : HalfSet(c, o)' <=> HalfSet(c, o),
         \A c \in Callers, o \in Options : HalfSet(c, o) => call'[c] = call[c]
  PROVE  [o \in Options |-> Registered(o)]' = [o \in Options |-> Registered(o)]
<1>1. RegisteredAsMeant /\ RegisteredAsMeant'
  BY RegisteredIs, RegisteredIsNext
<1>2. ASSUME NEW o \in Options PROVE Registered(o)' = Registered(o)
  <2>1. CASE \E c \in Callers : HalfSet(c, o)
    <3>1. PICK c \in Callers : HalfSet(c, o)
      BY <2>1
    <3>2. Registered(o) = Tells[o][call[c].value] /\ Registered(o)' = Tells[o][call'[c].value]
      BY <1>1, <3>1 DEF RegisteredAsMeant
    <3> QED BY <3>1, <3>2
  <2>2. CASE \A c \in Callers : ~HalfSet(c, o)
    <3>1. Registered(o) = Told(o) /\ Registered(o)' = Told(o)'
      BY <1>1, <2>2 DEF RegisteredAsMeant
    <3> QED BY <3>1 DEF Told
  <2> QED BY <2>1, <2>2
<1> QED BY <1>2

(* A store changes one register at most, to what is being set. *)
LEMMA StoreSets ==
  ASSUME IInv, IInv', NEW c \in Callers, Clear(c) \/ Set(c)
  PROVE  LET o == call[c].option IN
         /\ \A p \in Options \ {o} : Registered(p)' = Registered(p)
         /\ Registered(o)' = Tells[o][call[c].value]
         /\ pc[c] = "store2" /\ o \in InTwo => Registered(o) = Tells[o][call[c].value]
<1> DEFINE o == call[c].option
           v == call[c].value
<1>1. RegisteredAsMeant /\ RegisteredAsMeant'
  BY RegisteredIs, RegisteredIsNext
<1>2. /\ pc[c] \in {"store1", "store2"} /\ o \in Options /\ v \in DOMAIN Code[o]
      /\ pc[c] = "store1" => o \in InTwo
      /\ Code[o][v] \subseteq Mask[o]
      /\ ByteOf[o] \in Bytes /\ Mask[o] \subseteq Bits
      /\ loaded[c] = bytes[ByteOf[o]]
      /\ \A b \in Bytes : bytes'[b] = IF b = ByteOf[o] THEN Written(c) ELSE bytes[b]
      /\ call' = call
      /\ pc' = [pc EXCEPT ![c] = IF pc[c] = "store1" THEN "load2" ELSE "return"]
  BY StoreSteps
<1>3. \A d \in Callers : pc'[d] = IF d = c THEN IF pc[c] = "store1" THEN "load2" ELSE "return" ELSE pc[d]
  BY <1>2 DEF IInv
<1>4. \A p \in Options \ {o} : \A d \in Callers : HalfSet(d, p)' <=> HalfSet(d, p)
  BY <1>2, <1>3 DEF HalfSet
<1>5. \A d \in Callers : HalfSet(d, o) => d = c
  BY <1>2, SetterIsAlone DEF HalfSet, Setting
<1>6. ASSUME NEW p \in Options, p # o PROVE Registered(p)' = Registered(p)
  <2>1. CASE \E d \in Callers : HalfSet(d, p)
    <3>1. PICK d \in Callers : HalfSet(d, p)
      BY <2>1
    <3>2. HalfSet(d, p)'
      BY <1>4, <1>6, <3>1
    <3>3. Registered(p) = Tells[p][call[d].value] /\ Registered(p)' = Tells[p][call'[d].value]
      BY <1>1, <3>1, <3>2 DEF RegisteredAsMeant
    <3> QED BY <1>2, <3>3
  <2>2. CASE \A d \in Callers : ~HalfSet(d, p)
    <3>1. Registered(p) = Told(p) /\ Registered(p)' = Told(p)'
      BY <1>1, <1>4, <1>6, <2>2 DEF RegisteredAsMeant
    <3>2. ByteOf[p] \in Bytes /\ (ByteOf[p] = ByteOf[o] => Mask[p] \cap Mask[o] = {})
      BY <1>2, <1>6, LayoutAssumption
    <3>3. bytes'[ByteOf[p]] \cap Mask[p] = bytes[ByteOf[p]] \cap Mask[p]
      BY <1>2, <3>2 DEF Written, WithCode
    <3> QED BY <3>1, <3>3 DEF Told
  <2> QED BY <2>1, <2>2
<1>7. Registered(o)' = Tells[o][v]
  <2>1. CASE pc[c] = "store1"
    <3>1. HalfSet(c, o)'
      BY <1>2, <1>3, <2>1 DEF HalfSet
    <3> QED BY <1>1, <1>2, <3>1 DEF RegisteredAsMeant
  <2>2. CASE pc[c] = "store2"
    <3>1. \A d \in Callers : ~HalfSet(d, o)'
      <4>1. ~HalfSet(c, o)'
        BY <1>3, <2>2 DEF HalfSet
      <4>2. ASSUME NEW d \in Callers, d # c, HalfSet(d, o)' PROVE HalfSet(d, o)
        BY <1>2, <1>3, <4>2 DEF HalfSet
      <4> QED BY <1>5, <4>1, <4>2
    <3>2. Registered(o)' = Told(o)'
      BY <1>1, <1>2, <3>1 DEF RegisteredAsMeant
    <3>3. o \in InTwo => loaded[c] \cap Mask[o] = {}
      BY <1>2, <2>2 DEF IInv, ClearBetween
    <3>4. bytes'[ByteOf[o]] \cap Mask[o] = Code[o][v]
      BY <1>2, <2>2, <3>3 DEF Written, WithCode
    <3>5. Reads[o][Code[o][v]] = Tells[o][v]
      BY <1>2, CodesAssumption
    <3> QED BY <1>2, <3>2, <3>4, <3>5 DEF Told
  <2> QED BY <1>2, <2>1, <2>2
<1>8. pc[c] = "store2" /\ o \in InTwo => Registered(o) = Tells[o][v]
  BY <1>1, <1>2 DEF RegisteredAsMeant, HalfSet
<1> QED BY <1>6, <1>7, <1>8

(* Every step is a step of the registers, or none. *)
LEMMA BeginIsABeginning ==
  ASSUME IInv, IInv', NEW c \in Callers, Begins(c)
  PROVE  Registers!Begins(c)
<1>1. PICK x : Begin(c, x) /\ (\/ x = SaveCall
                              \/ \E o \in Options : \/ x = GetCall(o)
                                                    \/ \E v \in Tried[o] : x = SetCall(o, v))
  BY DEF Begins, BeginGet, BeginSet, BeginSave
<1>2. /\ call[c] = NoCall /\ call' = [call EXCEPT ![c] = x] /\ pc' = [pc EXCEPT ![c] = "check"]
      /\ answer' = [answer EXCEPT ![c] = Registers!Open] /\ bytes' = bytes
  BY <1>1 DEF Begin
<1>3. pc[c] = "idle"
  BY <1>2, CallerHas, PlaceTells
<1>4. [o \in Options |-> Registered(o)]' = [o \in Options |-> Registered(o)]
  <2>1. \A d \in Callers, o \in Options : HalfSet(d, o)' <=> HalfSet(d, o)
    BY <1>2, <1>3 DEF HalfSet, IInv
  <2>2. \A d \in Callers, o \in Options : HalfSet(d, o) => call'[d] = call[d]
    BY <1>2, <1>3 DEF HalfSet, IInv
  <2> QED BY <1>2, <2>1, <2>2, RegistersStay
<1> QED BY <1>1, <1>2, <1>4 DEF Registers!Begins, NoCall, SaveCall, GetCall, SetCall

LEMMA QuietRegisters ==
  ASSUME IInv, IInv', NEW c \in Callers,
         \/ Refuse(c) \/ Enter(c) \/ LoadToClear(c) \/ LoadToSet(c) \/ Tell(c) \/ Copy(c)
         \/ Return(c)
  PROVE  [o \in Options |-> Registered(o)]' = [o \in Options |-> Registered(o)]
<1>0. IsCall(call[c]) /\ pc[c] \in Places(call[c])
  BY CallerHas
<1>1. bytes' = bytes
  BY DEF Refuse, Enter, LoadToClear, LoadToSet, Load, Tell, Copy, Return
<1>2. \A d \in Callers, o \in Options : HalfSet(d, o) => call'[d] = call[d]
  BY DEF HalfSet, IInv, Refuse, Enter, LoadToClear, LoadToSet, Load, Tell, Copy, Return
<1>3. ASSUME NEW d \in Callers, NEW o \in Options PROVE HalfSet(d, o)' <=> HalfSet(d, o)
  <2>1. CASE d # c
    <3>1. pc'[d] = pc[d] /\ call'[d] = call[d]
      BY <2>1 DEF IInv, Goes, Refuse, Enter, LoadToClear, LoadToSet, Load, Tell, Copy, Return
    <3> QED BY <3>1 DEF HalfSet
  <2>2. CASE d = c /\ (Refuse(c) \/ Tell(c) \/ Copy(c) \/ Return(c) \/ LoadToClear(c))
    <3>1. /\ pc[c] \notin {"load2", "store2"}
          /\ pc'[c] \notin {"load2", "store2"}
      BY <2>2 DEF IInv, Goes, Refuse, LoadToClear, Load, Tell, Copy, Return
    <3> QED BY <2>2, <3>1 DEF HalfSet
  <2>3. CASE d = c /\ LoadToSet(c)
    BY <2>3 DEF HalfSet, LoadToSet, Load, Goes, IInv
  <2>4. CASE d = c /\ Enter(c)
    <3>1. pc[c] = "check" /\ pc'[c] = Work(call[c]) /\ call' = call
      BY <2>4 DEF Enter, Goes, IInv
    <3>2. Work(call[c]) \in {"load2", "store2"} => call[c].option \notin InTwo
      BY DEF Work
    <3> QED BY <2>4, <3>1, <3>2 DEF HalfSet
  <2> QED BY <2>1, <2>2, <2>3, <2>4
<1> QED BY <1>1, <1>2, <1>3, RegistersStay

LEMMA StepOfRegisters ==
  ASSUME IInv, IInv', NEW c \in Callers, Step(c)
  PROVE  Registers!Next \/ UNCHANGED Registers!vars
<1> DEFINE R == [o \in Options |-> Registered(o)]
<1>0. IsCall(call[c]) /\ pc[c] \in Places(call[c])
  BY CallerHas
<1>1. CASE Refuse(c)
  <2>1. call[c].op = "set" /\ call[c].option \in Options /\ answer[c] = Registers!Open
    BY <1>0, <1>1, PlaceTells DEF Refuse, RefusedCall, IInv, AnswersInTime
  <2>2. ~Registers!Accepted(call[c])
    BY <1>1, <2>1, CodesAssumption DEF Refuse, RefusedCall, Registers!Accepted
  <2>3. R' = R
    BY <1>1, QuietRegisters
  <2>4. Registers!Refuses(c)
    BY <1>1, <2>1, <2>2, <2>3 DEF Refuse, Answers, Registers!Refuses, Registers!Answers
  <2> QED BY <2>4 DEF Registers!Next
<1>2. CASE Enter(c) \/ LoadToClear(c) \/ LoadToSet(c)
  <2>1. R' = R
    BY <1>2, QuietRegisters
  <2> QED BY <1>2, <2>1 DEF Enter, LoadToClear, LoadToSet, Load, Registers!vars
<1>3. CASE Clear(c) \/ Set(c)
  <2> DEFINE o == call[c].option
             v == call[c].value
  <2>1. /\ \A p \in Options \ {o} : Registered(p)' = Registered(p)
        /\ Registered(o)' = Tells[o][v]
        /\ pc[c] = "store2" /\ o \in InTwo => Registered(o) = Tells[o][v]
    BY <1>3, StoreSets
  <2>2. /\ pc[c] \in {"store1", "store2"} /\ call[c].op = "set" /\ o \in Options
        /\ pc[c] = "store1" => o \in InTwo
        /\ v \in DOMAIN Code[o]
        /\ answer' = [answer EXCEPT ![c] = Registers!Done]
        /\ call' = call
    BY <1>3, StoreSteps
  <2>3. R' = [R EXCEPT ![o] = Tells[o][v]]
    BY <2>1, <2>2
  <2>4. CASE answer[c] = Registers!Open
    <3>1. Registers!Accepted(call[c])
      BY <2>2, CodesAssumption DEF Registers!Accepted
    <3>2. Registers!Sets(c)
      BY <2>2, <2>3, <2>4, <3>1 DEF Registers!Sets, Registers!Answers
    <3> QED BY <3>2 DEF Registers!Next
  <2>5. CASE answer[c] # Registers!Open
    <3>1. pc[c] = "store2" /\ o \in InTwo /\ answer[c] = Registers!Done
      BY <2>2, <2>5 DEF IInv, AnswersInTime
    <3>2. answer' = answer
      BY <2>2, <3>1 DEF IInv, AnswersInTime
    <3>3. Registered(o)' = Registered(o)
      BY <2>1, <3>1
    <3>4. R' = R
      BY <2>1, <2>2, <3>3
    <3> QED BY <2>2, <3>2, <3>4 DEF Registers!vars
  <2> QED BY <2>4, <2>5
<1>4. CASE Tell(c)
  <2>1. call[c].op = "get" /\ call[c].option \in Options /\ answer[c] = Registers!Open
    BY <1>0, <1>4, PlaceTells DEF Tell, IInv, AnswersInTime
  <2>2. R' = R
    BY <1>4, QuietRegisters
  <2>3. \A d \in Callers : ~HalfSet(d, call[c].option)
    <3> SUFFICES ASSUME NEW d \in Callers, HalfSet(d, call[c].option) PROVE FALSE
      OBVIOUS
    <3>1. call[d].option = call[c].option /\ call[c].option \in Locked /\ pc[d] \in Working
      BY LockedAssumption DEF HalfSet, Working, Setting
    <3>2. owner = d /\ owner = c
      BY <1>4, <3>1 DEF IInv, HoldsTheMutex, TakesTheLock, Working, Tell
    <3> QED BY <1>4, <3>2 DEF HalfSet, Tell
  <2>4. R[call[c].option] = Told(call[c].option)
    BY <2>1, <2>3, RegisteredIs DEF RegisteredAsMeant
  <2>5. Registers!Gets(c)
    BY <1>4, <2>1, <2>2, <2>4 DEF Tell, Answers, Registers!Gets, Registers!Answers
  <2> QED BY <2>5 DEF Registers!Next
<1>5. CASE Copy(c)
  <2>1. call[c].op = "save" /\ answer[c] = Registers!Open /\ save \in Saves
    BY <1>0, <1>5, PlaceTells DEF Copy, IInv, AnswersInTime, TypeOK
  <2>2. R' = R
    BY <1>5, QuietRegisters
  <2>3. ASSUME NEW o \in Options, NEW d \in Callers, HalfSet(d, o) PROVE FALSE
    <3>1. call[d].option \in Locked /\ pc[d] \in Working
      BY <2>3, LockedAssumption DEF HalfSet, Working, Setting
    <3>2. owner = d /\ owner = c
      BY <1>5, <2>1, <3>1 DEF IInv, HoldsTheMutex, TakesTheLock, Working, Copy
    <3> QED BY <1>5, <2>3, <3>2 DEF HalfSet, Copy
  <2>4. \A o \in Options : R[o] = Told(o)
    BY <2>3, RegisteredIs DEF RegisteredAsMeant
  <2>5. [o \in OptionsIn(save) |-> Told(o)] = [o \in Registers!OptionsIn(save) |-> R[o]]
    BY <2>4 DEF OptionsIn, Registers!OptionsIn
  <2>6. Registers!Saved(c, save)
    BY <1>5, <2>1, <2>2, <2>5 DEF Copy, Answers, Registers!Saved, Registers!Answers
  <2> QED BY <2>1, <2>6 DEF Registers!Next
<1>6. CASE Return(c)
  <2>1. call[c] # NoCall /\ answer[c] # Registers!Open
    BY <1>0, <1>6, PlaceTells DEF Return, IInv, AnswersInTime
  <2>2. R' = R
    BY <1>6, QuietRegisters
  <2>3. Registers!Returns(c)
    BY <1>6, <2>1, <2>2 DEF Return, Registers!Returns, NoCall
  <2> QED BY <2>3 DEF Registers!Next
<1> QED BY <1>1, <1>2, <1>3, <1>4, <1>5, <1>6 DEF Step

(* The options of a save are registers: each keeps what was set until it   *)
(* is set again, in every order of the reads and the writes. *)
THEOREM RegistersTheorem == Spec => ImplementsRegisters
<1>1. Init => Registers!Init
  BY DEF Init, Registers!Init, NoCall
<1>2. IInv /\ IInv' /\ [Next]_vars => [Registers!Next]_(Registers!vars)
  <2> SUFFICES ASSUME IInv, IInv', [Next]_vars
               PROVE  Registers!Next \/ UNCHANGED Registers!vars
    OBVIOUS
  <2>1. CASE UNCHANGED vars
    <3>1. [o \in Options |-> Registered(o)]' = [o \in Options |-> Registered(o)]
      BY <2>1, RegistersStay DEF vars, HalfSet
    <3> QED BY <2>1, <3>1 DEF vars, Registers!vars
  <2>2. CASE Next
    <3>1. PICK c \in Callers : Begins(c) \/ Step(c)
      BY <2>2 DEF Next
    <3>2. CASE Begins(c)
      BY <3>1, <3>2, BeginIsABeginning DEF Registers!Next
    <3>3. CASE Step(c)
      BY <3>1, <3>3, StepOfRegisters
    <3> QED BY <3>1, <3>2, <3>3
  <2> QED BY <2>1, <2>2
<1> QED BY <1>1, <1>2, InitIInv, NextIInv, PTL DEF Spec, ImplementsRegisters, Registers!Spec

-----------------------------------------------------------------------------
(* A row takes some values and tells them again. *)
Exact(row, values) ==
  /\ values \subseteq DOMAIN row.code
  /\ \A v \in values :
       /\ row.code[v] \in DOMAIN row.told
       /\ row.told[row.code[v]] = v
       /\ row.mask # {} => row.code[v] \subseteq row.mask

(* Two rows have different cells, or different bits of one. *)
Apart(r, s) ==
  r.cell = s.cell => r.mask # {} /\ s.mask # {} /\ r.mask \cap s.mask = {}

LEMMA InverseIsExact ==
  ASSUME NEW numbers, NEW v \in DOMAIN numbers,
         \A w \in DOMAIN numbers : numbers[w] = numbers[v] => w = v
  PROVE  numbers[v] \in DOMAIN Inverse(numbers) /\ Inverse(numbers)[numbers[v]] = v
<1>1. DOMAIN Inverse(numbers) = {numbers[w] : w \in DOMAIN numbers}
  BY DEF Inverse
<1>2. numbers[v] \in {numbers[w] : w \in DOMAIN numbers}
  OBVIOUS
<1>3. Inverse(numbers)[numbers[v]] = CHOOSE w \in DOMAIN numbers : numbers[w] = numbers[v]
  BY <1>2 DEF Inverse
<1>4. QED
  BY <1>1, <1>2, <1>3

LEMMA StoredCells ==
  ASSUME NEW data, NEW row, NEW v
  PROVE  DOMAIN Stored(data, row, v) = DOMAIN data
BY DEF Stored

(* What was coded is told. *)
LEMMA CodedIsTold ==
  ASSUME NEW data, NEW row, NEW V, Exact(row, V), NEW v \in V,
         (IF row.mask = {} THEN data[row.cell] ELSE data[row.cell] \cap row.mask) = row.code[v]
  PROVE  ToldOf(row, data) = v
BY DEF ToldOf, Exact

LEMMA StoredIsTold ==
  ASSUME NEW data, NEW row, row.cell \in DOMAIN data,
         NEW V, Exact(row, V), NEW v \in V
  PROVE  ToldOf(row, Stored(data, row, v)) = v
<1>1. CASE row.mask = {}
  BY <1>1 DEF ToldOf, Stored, Exact
<1>2. CASE row.mask # {}
  <2>1. Stored(data, row, v)[row.cell] = (data[row.cell] \ row.mask) \cup row.code[v]
    BY <1>2 DEF Stored
  <2>2. Stored(data, row, v)[row.cell] \cap row.mask = row.code[v]
    BY <2>1, <1>2 DEF Exact
  <2>3. QED
    BY <2>2, <1>2 DEF ToldOf, Exact
<1>3. QED
  BY <1>1, <1>2

LEMMA OthersStay ==
  ASSUME NEW data, NEW row, row.cell \in DOMAIN data,
         NEW V, Exact(row, V), NEW v \in V, NEW other, other.cell \in DOMAIN data, Apart(row, other)
  PROVE  ToldOf(other, Stored(data, row, v)) = ToldOf(other, data)
<1>1. CASE other.cell # row.cell
  <2>1. Stored(data, row, v)[other.cell] = data[other.cell]
    BY <1>1 DEF Stored
  <2>2. QED
    BY <2>1 DEF ToldOf
<1>2. CASE other.cell = row.cell
  <2>1. Stored(data, row, v)[row.cell] = (data[row.cell] \ row.mask) \cup row.code[v]
    BY <1>2 DEF Stored, Apart
  <2>2. Stored(data, row, v)[other.cell] \cap other.mask = data[other.cell] \cap other.mask
    BY <2>1, <1>2 DEF Exact, Apart
  <2>3. QED
    BY <2>2, <1>2 DEF ToldOf, Apart
<1>3. QED
  BY <1>1, <1>2

(* The sets of bits. *)
LEMMA UpIsOneToOne ==
  ASSUME NEW low \in Int, NEW a \in SUBSET Int, NEW b \in SUBSET Int, Up(a, low) = Up(b, low)
  PROVE  a = b
<1>1. \A i \in Int : i \in a <=> i + low \in Up(a, low)
  BY DEF Up
<1>2. \A i \in Int : i \in b <=> i + low \in Up(b, low)
  BY DEF Up
<1>3. QED
  BY <1>1, <1>2

LEMMA UpIsWithin ==
  ASSUME NEW low \in Int, NEW size \in Nat, NEW a \in SUBSET (0..size-1)
  PROVE  Up(a, low) \subseteq low..low+size-1
BY DEF Up

LEMMA OneBit == BitsOf(0) = {} /\ BitsOf(1) = {0}
BY DEF BitsOf, Weight

LEMMA ThreeBits ==
  ASSUME NEW n \in 0..7
  PROVE  /\ BitsOf(n) \subseteq 0..2
         /\ 0 \in BitsOf(n) <=> n % 2 = 1
         /\ 1 \in BitsOf(n) <=> (n \div 2) % 2 = 1
         /\ 2 \in BitsOf(n) <=> (n \div 4) % 2 = 1
BY DEF BitsOf, Weight

LEMMA CellIsExact ==
  ASSUME NEW cell, NEW values
  PROVE  /\ Exact(Cell(cell, values), values)
         /\ Cell(cell, values).cell = cell /\ Cell(cell, values).mask = {}
         /\ \A v \in values : Cell(cell, values).code[v] = v
BY DEF Exact, Cell, Row, Same

LEMMA BitIsRow ==
  ASSUME NEW cell, NEW bit \in Int
  PROVE  /\ Exact(Bit(cell, bit), BOOLEAN)
         /\ Bit(cell, bit).cell = cell /\ Bit(cell, bit).mask = {bit}
         /\ Bit(cell, bit).code[FALSE] = {}
<1> DEFINE bits == InWord(YesNo, bit)
           row == Row(cell, bit..bit+1-1, bits, Inverse(bits), Refused)
<1>1. Bit(cell, bit) = row
  BY DEF Bit, Part
<1>2. DOMAIN bits = BOOLEAN /\ bits[TRUE] = {bit} /\ bits[FALSE] = {}
  <2>1. Up(BitsOf(1), bit) = {bit} /\ Up(BitsOf(0), bit) = {}
    BY OneBit DEF Up
  <2>2. DOMAIN YesNo = BOOLEAN /\ YesNo[TRUE] = 1 /\ YesNo[FALSE] = 0
    BY DEF YesNo
  <2>3. QED
    BY <2>1, <2>2 DEF InWord
<1>3. \A v, w \in BOOLEAN : bits[w] = bits[v] => w = v
  <2> HIDE DEF bits
  <2>1. bits[TRUE] # bits[FALSE]
    BY <1>2
  <2>2. SUFFICES ASSUME NEW v \in BOOLEAN, NEW w \in BOOLEAN, bits[w] = bits[v] PROVE w = v
    OBVIOUS
  <2>3. CASE v = TRUE /\ w = FALSE
    BY <2>1, <2>2, <2>3
  <2>4. CASE v = FALSE /\ w = TRUE
    BY <2>1, <2>2, <2>4
  <2>5. CASE v = TRUE /\ w = TRUE
    BY <2>5
  <2>6. CASE v = FALSE /\ w = FALSE
    BY <2>6
  <2>7. QED
    BY <2>3, <2>4, <2>5, <2>6
<1>4. \A v \in BOOLEAN : bits[v] \in DOMAIN Inverse(bits) /\ Inverse(bits)[bits[v]] = v
  <2> HIDE DEF bits
  <2>1. QED
    BY <1>2, <1>3, InverseIsExact
<1>5. row.mask = {bit}
  BY DEF Row
<1>6. \A v \in BOOLEAN : bits[v] \subseteq {bit}
  <2> HIDE DEF bits
  <2>1. bits[TRUE] \subseteq {bit} /\ bits[FALSE] \subseteq {bit}
    BY <1>2
  <2>2. QED
    BY <2>1
<1>7. QED
  <2> HIDE DEF bits
  <2>1. Exact(row, BOOLEAN)
    BY <1>2, <1>4, <1>5, <1>6 DEF Exact, Row
  <2>2. row.code = bits
    BY DEF Row
  <2>3. row.code[FALSE] = {}
    BY <1>2, <2>2
  <2>4. row.cell = cell
    BY DEF Row
  <2> HIDE DEF row
  <2>5. QED
    BY <1>1, <1>5, <2>1, <2>3, <2>4, Zenon

LEMMA BitIsExact ==
  ASSUME NEW cell, NEW bit \in Int
  PROVE  /\ Exact(Bit(cell, bit), BOOLEAN)
         /\ Bit(cell, bit).cell = cell /\ Bit(cell, bit).mask = {bit}
BY BitIsRow, Zenon

LEMMA BitOfFalse == \A cell : \A bit \in Int : Bit(cell, bit).code[FALSE] = {}
BY BitIsRow, Zenon

LEMMA ThreeBitsAreExact ==
  ASSUME NEW cell, NEW low \in Int
  PROVE  /\ Exact(Number(cell, low, 3, 0..7), 0..7)
         /\ Number(cell, low, 3, 0..7).cell = cell /\ Number(cell, low, 3, 0..7).mask = low..low+2
         /\ Number(cell, low, 3, 0..7).code[0] = {}
<1> DEFINE bits == [n \in 0..7 |-> Up(BitsOf(n), low)]
           row == Row(cell, low..low+2, bits, Inverse(bits), Refused)
<1>1. Number(cell, low, 3, 0..7) = row
  <2>1. Weight[3 + 1] - 1 = 7 /\ low + 3 - 1 = low + 2
    BY DEF Weight
  <2>2. InWord(Same(0..7), low) = bits
    BY DEF InWord, Same
  <2> HIDE DEF bits
  <2>3. QED
    BY <2>1, <2>2 DEF Number
<1>2. \A n \in 0..7 : bits[n] \subseteq low..low+2
  <2>1. TAKE n \in 0..7
  <2>2. BitsOf(n) \in SUBSET (0..3-1)
    BY ThreeBits
  <2>3. Up(BitsOf(n), low) \subseteq low..low+3-1
    BY <2>2, UpIsWithin, 3 \in Nat
  <2>4. QED
    BY <2>3
<1>3. \A n, k \in 0..7 : bits[n] = bits[k] => n = k
  <2>1. SUFFICES ASSUME NEW n \in 0..7, NEW k \in 0..7, BitsOf(n) = BitsOf(k) PROVE n = k
    <3>1. \A n \in 0..7 : BitsOf(n) \in SUBSET Int
      BY ThreeBits
    <3>2. QED
      BY <3>1, UpIsOneToOne
  <2>2. n % 2 = k % 2 /\ (n \div 2) % 2 = (k \div 2) % 2 /\ (n \div 4) % 2 = (k \div 4) % 2
    BY <2>1, ThreeBits, n % 2 \in 0..1, k % 2 \in 0..1, (n \div 2) % 2 \in 0..1, (k \div 2) % 2 \in 0..1,
       (n \div 4) % 2 \in 0..1, (k \div 4) % 2 \in 0..1
  <2>3. QED
    BY <2>2
<1>4. \A v \in 0..7 : bits[v] \in DOMAIN Inverse(bits) /\ Inverse(bits)[bits[v]] = v
  <2>1. DOMAIN bits = 0..7
    OBVIOUS
  <2> HIDE DEF bits
  <2>2. QED
    BY <2>1, <1>3, InverseIsExact
<1>5. DOMAIN bits = 0..7 /\ bits[0] = {}
  BY OneBit DEF Up
<1>6. QED
  <2> HIDE DEF bits
  <2>1. QED
    BY <1>1, <1>2, <1>4, <1>5 DEF Exact, Row

-----------------------------------------------------------------------------
AwardNames == InOrder(Contests) \cup InOrder(Specials) \cup {"obedient"} \cup InOrder(Marks) \cup ContestStats

LEMMA TheNames ==
  /\ InOrder(Contests) = {"Cool", "Beauty", "Cute", "Smart", "Tough"}
  /\ InOrder(Specials) = {"Champion", "Winning", "Victory", "Artist", "Effort", "Marine", "Land", "Sky",
                          "Country", "National", "Earth", "World"}
  /\ InOrder(Marks) = {"CIRCLE", "TRIANGLE", "SQUARE", "HEART"}
<1>1. DOMAIN Contests = 1..5 /\ DOMAIN Specials = 1..12 /\ DOMAIN Marks = 1..4
  BY DEF Contests, Specials, Marks
<1>2. \A x : x \in InOrder(Contests) <=> \E i \in 1..5 : x = Contests[i]
  BY <1>1 DEF InOrder
<1>3. \A x : x \in InOrder(Specials) <=> \E i \in 1..12 : x = Specials[i]
  BY <1>1 DEF InOrder
<1>4. \A x : x \in InOrder(Marks) <=> \E i \in 1..4 : x = Marks[i]
  BY <1>1 DEF InOrder
<1>5. InOrder(Contests) = {"Cool", "Beauty", "Cute", "Smart", "Tough"}
  BY <1>2 DEF Contests
<1>6. InOrder(Specials) = {"Champion", "Winning", "Victory", "Artist", "Effort", "Marine", "Land", "Sky",
                           "Country", "National", "Earth", "World"}
  BY <1>3 DEF Specials
<1>7. InOrder(Marks) = {"CIRCLE", "TRIANGLE", "SQUARE", "HEART"}
  BY <1>4 DEF Marks
<1>8. QED
  BY <1>5, <1>6, <1>7

(* A name has one place. *)
LEMMA PlaceOfName ==
  ASSUME NEW names, NEW name \in InOrder(names)
  PROVE  Place(names, name) \in DOMAIN names /\ names[Place(names, name)] = name
BY DEF InOrder, Place

LEMMA PlaceOfContest == \A c \in InOrder(Contests) : Place(Contests, c) \in 1..5 /\ Contests[Place(Contests, c)] = c
BY PlaceOfName DEF Contests

LEMMA PlaceOfSpecial == \A r \in InOrder(Specials) : Place(Specials, r) \in 1..12 /\ Specials[Place(Specials, r)] = r
BY PlaceOfName DEF Specials

LEMMA PlaceOfMark == \A m \in InOrder(Marks) : Place(Marks, m) \in 1..4 /\ Marks[Place(Marks, m)] = m
BY PlaceOfName DEF Marks

(* The lowest bit of a contest. *)
LowestBit(c) == 3 * (Place(Contests, c) - 1)

LEMMA LowestBitType ==
  /\ \A c \in InOrder(Contests) : LowestBit(c) \in {0, 3, 6, 9, 12}
  /\ \A c, d \in InOrder(Contests) : LowestBit(c) = LowestBit(d) => c = d
BY PlaceOfContest DEF LowestBit

LEMMA GBARowsAre ==
  /\ DOMAIN AwardRows["gba"] = AwardNames
  /\ \A c \in InOrder(Contests) :
       AwardRows["gba"][c] = Number("ribbons_obedience", LowestBit(c), 3, 0..7)
  /\ \A r \in InOrder(Specials) : AwardRows["gba"][r] = Bit("ribbons_obedience", 14 + Place(Specials, r))
  /\ AwardRows["gba"]["obedient"] = Bit("ribbons_obedience", 31)
  /\ \A m \in InOrder(Marks) : AwardRows["gba"][m] = Bit("markings", Place(Marks, m) - 1)
  /\ \A s \in ContestStats : AwardRows["gba"][s] = Cell(s, 0..255)
<1>1. AwardRows["gba"] = GBARibbons ++ GBAObedience ++ GBAMarks ++ GBAContest
  BY DEF AwardRows
<1>2. /\ DOMAIN GBARibbons = InOrder(Contests) \cup InOrder(Specials)
      /\ \A c \in InOrder(Contests) : GBARibbons[c] = Number("ribbons_obedience", LowestBit(c), 3, 0..7)
      /\ \A r \in InOrder(Specials) : GBARibbons[r] = Bit("ribbons_obedience", 14 + Place(Specials, r))
  BY TheNames DEF GBARibbons, ++, LowestBit
<1>3. DOMAIN GBAObedience = {"obedient"} /\ GBAObedience["obedient"] = Bit("ribbons_obedience", 31)
  BY DEF GBAObedience
<1>4. DOMAIN GBAMarks = InOrder(Marks) /\ \A m \in InOrder(Marks) : GBAMarks[m] = Bit("markings", Place(Marks, m) - 1)
  BY DEF GBAMarks
<1>5. DOMAIN GBAContest = ContestStats /\ \A s \in ContestStats : GBAContest[s] = Cell(s, 0..255)
  BY DEF GBAContest
<1>6. QED
  BY <1>1, <1>2, <1>3, <1>4, <1>5, TheNames DEF ++, AwardNames, ContestStats

LEMMA GCNRowsAre ==
  /\ DOMAIN AwardRows["gcn"] = AwardNames
  /\ \A c \in InOrder(Contests) : AwardRows["gcn"][c] = Cell(c, 0..4)
  /\ \A r \in InOrder(Specials) : AwardRows["gcn"][r] = Cell(r, BOOLEAN)
  /\ AwardRows["gcn"]["obedient"] = Cell("obedient", BOOLEAN)
  /\ \A m \in InOrder(Marks) : AwardRows["gcn"][m] = Cell(m, BOOLEAN)
  /\ \A s \in ContestStats : AwardRows["gcn"][s] = Cell(s, 0..255)
<1>1. AwardRows["gcn"] = GCNRibbons ++ GCNObedience ++ GCNMarks ++ GCNContest
  BY DEF AwardRows
<1>2. /\ DOMAIN GCNRibbons = InOrder(Contests) \cup InOrder(Specials)
      /\ \A c \in InOrder(Contests) : GCNRibbons[c] = Cell(c, 0..4)
      /\ \A r \in InOrder(Specials) : GCNRibbons[r] = Cell(r, BOOLEAN)
  BY TheNames DEF GCNRibbons, ++
<1>3. DOMAIN GCNObedience = {"obedient"} /\ GCNObedience["obedient"] = Cell("obedient", BOOLEAN)
  BY DEF GCNObedience
<1>4. DOMAIN GCNMarks = InOrder(Marks) /\ \A m \in InOrder(Marks) : GCNMarks[m] = Cell(m, BOOLEAN)
  BY DEF GCNMarks
<1>5. DOMAIN GCNContest = ContestStats /\ \A s \in ContestStats : GCNContest[s] = Cell(s, 0..255)
  BY DEF GCNContest
<1>6. QED
  BY <1>1, <1>2, <1>3, <1>4, <1>5, TheNames DEF ++, AwardNames, ContestStats

(* What an award can be. *)
Values(name) ==
  IF name \in InOrder(Contests) THEN 0..4 ELSE IF name \in ContestStats THEN 0..255 ELSE BOOLEAN

AwardCells(on) == {AwardRows[on][n].cell : n \in AwardNames}

LEMMA RowsAreExact ==
  ASSUME NEW on \in {"gba", "gcn"}, NEW n \in AwardNames
  PROVE  Exact(AwardRows[on][n], Values(n))
<1>1. \A row : Exact(row, 0..7) => Exact(row, 0..4)
  BY DEF Exact
<1>2. CASE n \in InOrder(Contests)
  <2>1. Values(n) = 0..4
    BY <1>2 DEF Values
  <2>2. LowestBit(n) \in Int
    BY <1>2, LowestBitType
  <2>3. Exact(AwardRows["gba"][n], 0..7)
    BY <1>2, <2>2, GBARowsAre, ThreeBitsAreExact
  <2>4. Exact(AwardRows["gcn"][n], 0..4)
    BY <1>2, GCNRowsAre, CellIsExact
  <2>5. QED
    BY <1>1, <2>1, <2>3, <2>4
<1>3. CASE n \in ContestStats
  <2>1. Values(n) = 0..255
    BY <1>3, TheNames DEF Values, ContestStats
  <2>2. AwardRows[on][n] = Cell(n, 0..255)
    BY <1>3, GBARowsAre, GCNRowsAre
  <2>3. QED
    BY <2>1, <2>2, CellIsExact
<1>4. CASE n \notin InOrder(Contests) /\ n \notin ContestStats
  <2>1. Values(n) = BOOLEAN
    BY <1>4 DEF Values
  <2>2. AwardRows["gcn"][n] = Cell(n, BOOLEAN)
    BY <1>4, GCNRowsAre DEF AwardNames
  <2>3. \E cell, bit : bit \in Int /\ AwardRows["gba"][n] = Bit(cell, bit)
    <3>1. CASE n \in InOrder(Specials)
      BY <3>1, GBARowsAre, PlaceOfSpecial
    <3>2. CASE n \in InOrder(Marks)
      BY <3>2, GBARowsAre, PlaceOfMark
    <3>3. CASE n = "obedient"
      BY <3>3, GBARowsAre
    <3>4. QED
      BY <3>1, <3>2, <3>3, <1>4 DEF AwardNames
  <2>4. QED
    BY <2>1, <2>2, <2>3, CellIsExact, BitIsExact
<1>5. QED
  BY <1>2, <1>3, <1>4

LEMMA GBAPlaces ==
  /\ \A c \in InOrder(Contests) : /\ AwardRows["gba"][c].cell = "ribbons_obedience"
                                  /\ AwardRows["gba"][c].mask = LowestBit(c)..LowestBit(c)+2
  /\ \A r \in InOrder(Specials) : /\ AwardRows["gba"][r].cell = "ribbons_obedience"
                                  /\ AwardRows["gba"][r].mask = {14 + Place(Specials, r)}
  /\ AwardRows["gba"]["obedient"].cell = "ribbons_obedience" /\ AwardRows["gba"]["obedient"].mask = {31}
  /\ \A m \in InOrder(Marks) : /\ AwardRows["gba"][m].cell = "markings"
                               /\ AwardRows["gba"][m].mask = {Place(Marks, m) - 1}
  /\ \A s \in ContestStats : AwardRows["gba"][s].cell = s /\ AwardRows["gba"][s].mask = {}
<1>1. \A c \in InOrder(Contests) : /\ AwardRows["gba"][c].cell = "ribbons_obedience"
                                   /\ AwardRows["gba"][c].mask = LowestBit(c)..LowestBit(c)+2
  <2>1. TAKE c \in InOrder(Contests)
  <2>2. LowestBit(c) \in Int
    BY LowestBitType
  <2>3. QED
    BY <2>2, GBARowsAre, ThreeBitsAreExact
<1>2. \A r \in InOrder(Specials) : /\ AwardRows["gba"][r].cell = "ribbons_obedience"
                                   /\ AwardRows["gba"][r].mask = {14 + Place(Specials, r)}
  BY GBARowsAre, BitIsExact, PlaceOfSpecial
<1>3. AwardRows["gba"]["obedient"].cell = "ribbons_obedience" /\ AwardRows["gba"]["obedient"].mask = {31}
  BY GBARowsAre, BitIsExact
<1>4. \A m \in InOrder(Marks) : /\ AwardRows["gba"][m].cell = "markings"
                                /\ AwardRows["gba"][m].mask = {Place(Marks, m) - 1}
  BY GBARowsAre, BitIsExact, PlaceOfMark
<1>5. \A s \in ContestStats : AwardRows["gba"][s].cell = s /\ AwardRows["gba"][s].mask = {}
  BY GBARowsAre, CellIsExact
<1>6. QED
  BY <1>1, <1>2, <1>3, <1>4, <1>5

LEMMA GCNPlaces == \A n \in AwardNames : AwardRows["gcn"][n].cell = n
BY GCNRowsAre, CellIsExact DEF AwardNames

LEMMA RowsAreApart ==
  ASSUME NEW on \in {"gba", "gcn"}, NEW n \in AwardNames, NEW m \in AwardNames, n # m
  PROVE  Apart(AwardRows[on][n], AwardRows[on][m])
<1>1. CASE on = "gcn"
  BY <1>1, GCNPlaces DEF Apart
<1>2. CASE on = "gba"
  <2> DEFINE row(x) == AwardRows["gba"][x]
             word == InOrder(Contests) \cup InOrder(Specials) \cup {"obedient"}
  <2>1. SUFFICES ASSUME row(n).cell = row(m).cell
                 PROVE  row(n).mask # {} /\ row(m).mask # {} /\ row(n).mask \cap row(m).mask = {}
    BY <1>2 DEF Apart
  <2>2. CASE n \in ContestStats \/ m \in ContestStats
    BY <2>1, <2>2, GBAPlaces DEF AwardNames, ContestStats
  <2>3. CASE n \in InOrder(Marks) /\ m \in InOrder(Marks)
    <3>1. Place(Marks, n) # Place(Marks, m)
      BY <2>3, PlaceOfMark
    <3>2. PICK p \in 1..4, q \in 1..4 : p # q /\ row(n).mask = {p - 1} /\ row(m).mask = {q - 1}
      BY <3>1, <2>3, PlaceOfMark, GBAPlaces
    <3> HIDE DEF row
    <3>3. QED
      BY <3>2
  <2>4. CASE n \in word /\ m \in word
    <3>1. \A c \in InOrder(Contests) : row(c).mask \subseteq 0..14 /\ row(c).mask # {}
      <4>1. TAKE c \in InOrder(Contests)
      <4>2. row(c).mask = LowestBit(c)..LowestBit(c)+2 /\ LowestBit(c) \in {0, 3, 6, 9, 12}
        BY LowestBitType, GBAPlaces
      <4> HIDE DEF row
      <4>3. LowestBit(c) \in row(c).mask
        BY <4>2
      <4>4. QED
        BY <4>2, <4>3
    <3>2. \A r \in InOrder(Specials) : row(r).mask \subseteq 15..26 /\ row(r).mask # {}
      <4>1. TAKE r \in InOrder(Specials)
      <4>2. PICK p \in 1..12 : row(r).mask = {14 + p}
        BY PlaceOfSpecial, GBAPlaces
      <4> HIDE DEF row
      <4>3. QED
        BY <4>2
    <3>3. row("obedient").mask = {31}
      BY GBAPlaces
    <3>4. CASE n \in InOrder(Contests) /\ m \in InOrder(Contests)
      <4>1. /\ LowestBit(n) \in {0, 3, 6, 9, 12} /\ LowestBit(m) \in {0, 3, 6, 9, 12}
            /\ LowestBit(n) # LowestBit(m)
        BY <3>4, LowestBitType
      <4>2. row(n).mask = LowestBit(n)..LowestBit(n)+2 /\ row(m).mask = LowestBit(m)..LowestBit(m)+2
        BY <3>4, GBAPlaces
      <4> HIDE DEF row
      <4>3. row(n).mask \cap row(m).mask = {}
        BY <4>1, <4>2
      <4>4. QED
        BY <4>3, <3>1, <3>4
    <3>5. CASE n \in InOrder(Specials) /\ m \in InOrder(Specials)
      <4>1. Place(Specials, n) # Place(Specials, m)
        BY <3>5, PlaceOfSpecial
      <4>2. row(n).mask = {14 + Place(Specials, n)} /\ row(m).mask = {14 + Place(Specials, m)}
        BY <3>5, GBAPlaces
      <4>3. Place(Specials, n) \in Int /\ Place(Specials, m) \in Int
        BY <3>5, PlaceOfSpecial
      <4> HIDE DEF row
      <4>4. QED
        BY <4>1, <4>2, <4>3
    <3> HIDE DEF row
    <3>6. QED
      BY <3>1, <3>2, <3>3, <3>4, <3>5, <2>4
  <2>5. QED
    BY <2>1, <2>2, <2>3, <2>4, GBAPlaces DEF AwardNames
<1>3. QED
  BY <1>1, <1>2

-----------------------------------------------------------------------------
(* A setter changes one award, and what is gathered from one structure is  *)
(* what it told.                                                           *)
LEMMA WithTells ==
  ASSUME NEW on \in {"gba", "gcn"}, NEW data, DOMAIN data = AwardCells(on),
         NEW name \in AwardNames, NEW value \in Values(name)
  PROVE  /\ DOMAIN With(on, data, name, value) = AwardCells(on)
         /\ Award(on, With(on, data, name, value), name) = value
         /\ \A n \in AwardNames \ {name} : Award(on, With(on, data, name, value), n) = Award(on, data, n)
<1> DEFINE row(n) == AwardRows[on][n]
<1>1. \A n \in AwardNames : row(n).cell \in DOMAIN data
  BY DEF AwardCells
<1>2. Exact(row(name), Values(name))
  BY RowsAreExact
<1>3. \A n \in AwardNames \ {name} : Apart(row(name), row(n))
  BY RowsAreApart
<1>4. DOMAIN With(on, data, name, value) = AwardCells(on)
  BY StoredCells DEF With
<1> HIDE DEF row
<1>5. ToldOf(row(name), Stored(data, row(name), value)) = value
  BY <1>1, <1>2, StoredIsTold
<1>6. \A n \in AwardNames \ {name} : ToldOf(row(n), Stored(data, row(name), value)) = ToldOf(row(n), data)
  BY <1>1, <1>2, <1>3, OthersStay
<1>7. QED
  BY <1>4, <1>5, <1>6 DEF Award, With, row

LEMMA RowNames ==
  ASSUME NEW on \in {"gba", "gcn"}
  PROVE  DOMAIN AwardRows[on] = AwardNames
BY GBARowsAre, GCNRowsAre

LEMMA BlankCells ==
  ASSUME NEW on \in {"gba", "gcn"}
  PROVE  DOMAIN Blank[on] = AwardCells(on)
<1>1. CASE on = "gba"
  <2>1. DOMAIN Blank["gba"] = {"ribbons_obedience", "markings"} \cup ContestStats
    BY DEF Blank, ++
  <2>2. AwardCells("gba") \subseteq {"ribbons_obedience", "markings"} \cup ContestStats
    BY GBAPlaces DEF AwardCells, AwardNames
  <2>3. {"obedient", "HEART"} \cup ContestStats \subseteq AwardNames
    BY TheNames DEF AwardNames
  <2>4. {"ribbons_obedience", "markings"} \cup ContestStats \subseteq AwardCells("gba")
    BY <2>3, GBAPlaces, TheNames DEF AwardCells
  <2>5. QED
    BY <1>1, <2>1, <2>2, <2>4
<1>2. CASE on = "gcn"
  <2>1. DOMAIN Blank["gcn"] = AwardNames
    BY DEF Blank, ++, AwardNames
  <2>2. AwardCells("gcn") = AwardNames
    BY GCNPlaces DEF AwardCells
  <2>3. QED
    BY <1>2, <2>1, <2>2
<1>3. QED
  BY <1>1, <1>2

LEMMA GatheredTells ==
  ASSUME NEW to \in {"gba", "gcn"}, NEW told, \A n \in AwardNames : told[n] \in Values(n)
  PROVE  /\ DOMAIN Gathered(to, told) = AwardCells(to)
         /\ \A n \in AwardNames : Award(to, Gathered(to, told), n) = told[n]
<1> DEFINE row(n) == AwardRows[to][n]
           rows(cell) == {n \in AwardNames : row(n).cell = cell}
           codes(cell) == {row(n).code[told[n]] : n \in rows(cell)}
<1>1. DOMAIN Gathered(to, told) = AwardCells(to)
  BY BlankCells DEF Gathered
<1>2. \A cell \in AwardCells(to) :
        Gathered(to, told)[cell] =
          IF \E n \in rows(cell) : row(n).mask # {} THEN UNION codes(cell) ELSE CHOOSE code \in codes(cell) : TRUE
  <2>1. TAKE cell \in AwardCells(to)
  <2> DEFINE rows0 == {n \in DOMAIN AwardRows[to] : AwardRows[to][n].cell = cell}
             codes0 == {AwardRows[to][n].code[told[n]] : n \in rows0}
  <2>2. rows0 = rows(cell)
    BY RowNames
  <2>3. codes0 = codes(cell)
    BY <2>2
  <2>4. Gathered(to, told)[cell] =
          IF \E n \in rows0 : AwardRows[to][n].mask # {} THEN UNION codes0 ELSE CHOOSE code \in codes0 : TRUE
    BY BlankCells DEF Gathered
  <2> HIDE DEF rows0, codes0, rows, codes
  <2>5. QED
    BY <2>2, <2>3, <2>4
<1>3. ASSUME NEW n \in AwardNames
      PROVE  Award(to, Gathered(to, told), n) = told[n]
  <2> DEFINE cell == row(n).cell
  <2>1. cell \in AwardCells(to)
    BY DEF AwardCells
  <2>2. Exact(row(n), Values(n))
    BY RowsAreExact
  <2>3. \A m \in rows(cell) : m # n => Apart(row(m), row(n)) /\ Exact(row(m), Values(m))
    BY RowsAreApart, RowsAreExact
  <2>4. n \in rows(cell) /\ row(n).code[told[n]] \in codes(cell)
    OBVIOUS
  <2> HIDE DEF row
  <2>5. CASE row(n).mask = {}
    <3>1. rows(cell) = {n}
      BY <2>3, <2>4, <2>5 DEF Apart
    <3>2. codes(cell) = {row(n).code[told[n]]}
      BY <3>1
    <3>3. Gathered(to, told)[cell] = row(n).code[told[n]]
      BY <1>2, <2>1, <2>5, <3>1, <3>2
    <3>4. QED
      BY <3>3, <2>2, <2>5, CodedIsTold DEF Award, row
  <2>6. CASE row(n).mask # {}
    <3>1. Gathered(to, told)[cell] = UNION codes(cell)
      BY <1>2, <2>1, <2>4, <2>6
    <3>2. row(n).code[told[n]] \subseteq row(n).mask
      BY <2>2, <2>6 DEF Exact
    <3>3. \A m \in rows(cell) : m # n => row(m).code[told[m]] \cap row(n).mask = {}
      BY <2>3 DEF Apart, Exact
    <3>4. (UNION codes(cell)) \cap row(n).mask = row(n).code[told[n]]
      <4>1. \A x \in UNION codes(cell) : \E m \in rows(cell) : x \in row(m).code[told[m]]
        OBVIOUS
      <4>2. row(n).code[told[n]] \subseteq UNION codes(cell)
        BY <2>4
      <4> HIDE DEF codes, rows
      <4>3. QED
        BY <4>1, <4>2, <3>2, <3>3
    <3>5. QED
      BY <3>1, <3>4, <2>2, <2>6, CodedIsTold DEF Award, row
  <2>7. QED
    BY <2>5, <2>6
<1>4. QED
  BY <1>1, <1>3

(* A new Pokemon has no award. *)
Nothing(name) == IF name \in InOrder(Contests) \cup ContestStats THEN 0 ELSE FALSE

LEMMA BlankTells ==
  ASSUME NEW on \in {"gba", "gcn"}, NEW n \in AwardNames
  PROVE  Award(on, Blank[on], n) = Nothing(n) /\ Nothing(n) \in Values(n)
<1> DEFINE row == AwardRows[on][n]
<1>1. Nothing(n) \in Values(n)
  <2>1. CASE n \in InOrder(Contests)
    BY <2>1 DEF Nothing, Values
  <2>2. CASE n \in ContestStats /\ n \notin InOrder(Contests)
    BY <2>2 DEF Nothing, Values
  <2>3. CASE n \notin ContestStats /\ n \notin InOrder(Contests)
    <3>1. Nothing(n) = FALSE /\ Values(n) = BOOLEAN
      BY <2>3 DEF Nothing, Values
    <3>2. QED
      BY <3>1
  <2>4. QED
    BY <2>1, <2>2, <2>3
<1>2. Exact(row, Values(n))
  BY RowsAreExact
<1>3. CASE on = "gba"
  <2>1. /\ Blank["gba"]["ribbons_obedience"] = {} /\ Blank["gba"]["markings"] = {}
        /\ \A s \in ContestStats : Blank["gba"][s] = 0
    BY DEF Blank, ++, ContestStats
  <2>2. CASE n \in ContestStats
    <3>1. row.mask = {} /\ row.cell = n /\ row.code[0] = 0 /\ Nothing(n) = 0
      BY <1>3, <2>2, GBARowsAre, CellIsExact DEF Nothing
    <3> HIDE DEF row
    <3>2. ToldOf(row, Blank[on]) = Nothing(n)
      BY <1>1, <1>2, <1>3, <2>1, <2>2, <3>1, CodedIsTold
    <3>3. QED
      BY <3>2, <1>1 DEF Award, row
  <2>3. CASE n \notin ContestStats
    <3>1. row.cell \in {"ribbons_obedience", "markings"}
      BY <1>3, <2>3, GBAPlaces DEF AwardNames
    <3>2. CASE n \in InOrder(Contests)
      <4>1. LowestBit(n) \in Int
        BY <3>2, LowestBitType
      <4>2. row.code[0] = {} /\ Nothing(n) = 0
        BY <1>3, <3>2, <4>1, GBARowsAre, ThreeBitsAreExact DEF Nothing
      <4> HIDE DEF row
      <4>3. Blank[on][row.cell] = {} /\ row.code[Nothing(n)] = {}
        BY <1>3, <2>1, <3>1, <4>2
      <4>4. (IF row.mask = {} THEN Blank[on][row.cell] ELSE Blank[on][row.cell] \cap row.mask) = row.code[Nothing(n)]
        BY <4>3
      <4>5. ToldOf(row, Blank[on]) = Nothing(n)
        BY <1>1, <1>2, <4>4, CodedIsTold
      <4>6. QED
        BY <4>5, <1>1 DEF Award, row
    <3>3. CASE n \notin InOrder(Contests)
      <4>1. \E cell, bit : bit \in Int /\ row = Bit(cell, bit)
        <5>1. CASE n \in InOrder(Specials)
          BY <1>3, <5>1, GBARowsAre, PlaceOfSpecial
        <5>2. CASE n \in InOrder(Marks)
          BY <1>3, <5>2, GBARowsAre, PlaceOfMark
        <5>3. CASE n = "obedient"
          BY <1>3, <5>3, GBARowsAre
        <5>4. QED
          BY <5>1, <5>2, <5>3, <2>3, <3>3 DEF AwardNames
      <4>2. row.code[FALSE] = {} /\ Nothing(n) = FALSE
        <5>1. row.code[FALSE] = {}
          <6> HIDE DEF row
          <6>1. QED
            BY <4>1, BitOfFalse, Zenon
        <5>2. QED
          BY <5>1, <2>3, <3>3 DEF Nothing
      <4> HIDE DEF row
      <4>3. Blank[on][row.cell] = {} /\ row.code[Nothing(n)] = {}
        BY <1>3, <2>1, <3>1, <4>2
      <4>4. (IF row.mask = {} THEN Blank[on][row.cell] ELSE Blank[on][row.cell] \cap row.mask) = row.code[Nothing(n)]
        BY <4>3
      <4>5. ToldOf(row, Blank[on]) = Nothing(n)
        BY <1>1, <1>2, <4>4, CodedIsTold
      <4>6. QED
        BY <4>5, <1>1 DEF Award, row
    <3>4. QED
      BY <3>2, <3>3
  <2>4. QED
    BY <2>2, <2>3
<1>4. CASE on = "gcn"
  <2>1. Blank["gcn"][n] = Nothing(n)
    BY TheNames DEF Blank, ++, ContestStats, Nothing, AwardNames
  <2>2. row.mask = {} /\ row.cell = n /\ row.code[Nothing(n)] = Nothing(n)
    <3>1. CASE n \in InOrder(Contests)
      <4>1. row = Cell(n, 0..4) /\ Nothing(n) = 0
        BY <1>4, <3>1, GCNRowsAre DEF Nothing
      <4> HIDE DEF row
      <4>2. QED
        BY <4>1, CellIsExact
    <3>2. CASE n \in ContestStats
      <4>1. row = Cell(n, 0..255) /\ Nothing(n) = 0
        BY <1>4, <3>2, GCNRowsAre DEF Nothing
      <4> HIDE DEF row
      <4>2. QED
        BY <4>1, CellIsExact
    <3>3. CASE n \notin InOrder(Contests) /\ n \notin ContestStats
      <4>1. row = Cell(n, BOOLEAN) /\ Nothing(n) = FALSE
        BY <1>4, <3>3, GCNRowsAre DEF Nothing, AwardNames
      <4>2. FALSE \in BOOLEAN
        OBVIOUS
      <4> HIDE DEF row
      <4>3. row.mask = {} /\ row.cell = n /\ row.code[FALSE] = FALSE
        BY <4>1, <4>2, CellIsExact, Zenon
      <4>4. QED
        BY <4>1, <4>3, Zenon
    <3>4. QED
      BY <3>1, <3>2, <3>3
  <2> HIDE DEF row
  <2>3. ToldOf(row, Blank[on]) = Nothing(n)
    BY <1>1, <1>2, <1>4, <2>1, <2>2, CodedIsTold
  <2>4. QED
    BY <2>3, <1>1 DEF Award, row
<1>5. QED
  BY <1>3, <1>4

-----------------------------------------------------------------------------
AwardsInv ==
  /\ console \in {"gba", "gcn"}
  /\ DOMAIN awards = AwardCells(console)
  /\ \A n \in AwardNames : Award(console, awards, n) \in Values(n)
  /\ MapsAreCurrent

LEMMA SomeNames ==
  /\ InOrder(Contests) \subseteq AwardNames /\ InOrder(Specials) \subseteq AwardNames
  /\ InOrder(Marks) \subseteq AwardNames /\ ContestStats \subseteq AwardNames /\ "obedient" \in AwardNames
  /\ \A c \in InOrder(Contests) : Values(c) = 0..4 /\ c \notin InOrder(Specials) \cup InOrder(Marks) \cup ContestStats
  /\ \A r \in InOrder(Specials) : Values(r) = BOOLEAN /\ r \notin InOrder(Marks) \cup ContestStats
  /\ \A m \in InOrder(Marks) : Values(m) = BOOLEAN /\ m \notin ContestStats
  /\ \A s \in ContestStats : Values(s) = 0..255
  /\ Values("obedient") = BOOLEAN
  /\ "obedient" \notin InOrder(Contests) \cup InOrder(Specials) \cup InOrder(Marks) \cup ContestStats
BY TheNames DEF AwardNames, Values, ContestStats

(* The maps are a matter of what the structure tells. *)
LEMMA MapsFollow ==
  ASSUME NEW a, NEW b, NEW x, NEW y, \A n \in AwardNames : Award(a, x, n) = Award(b, y, n)
  PROVE  RibbonsOf(a, x) = RibbonsOf(b, y) /\ MarksOf(a, x) = MarksOf(b, y) /\ ContestOf(a, x) = ContestOf(b, y)
BY SomeNames DEF RibbonsOf, MarksOf, ContestOf

LEMMA RibbonsFollow ==
  ASSUME NEW a, NEW b, NEW x, NEW y,
         \A n \in InOrder(Contests) \cup InOrder(Specials) : Award(a, x, n) = Award(b, y, n)
  PROVE  RibbonsOf(a, x) = RibbonsOf(b, y)
BY DEF RibbonsOf

LEMMA NothingInMaps ==
  ASSUME NEW a, NEW x, \A n \in AwardNames \ {"obedient"} : Award(a, x, n) = Nothing(n)
  PROVE  RibbonsOf(a, x) = {} /\ MarksOf(a, x) = {} /\ ContestOf(a, x) = [s \in ContestStats |-> 0]
<1>1. \A c \in InOrder(Contests) : Award(a, x, c) = 0
  BY SomeNames DEF Nothing
<1>2. \A s \in ContestStats : Award(a, x, s) = 0
  BY SomeNames DEF Nothing
<1>3. \A n \in InOrder(Specials) \cup InOrder(Marks) : ~Award(a, x, n)
  BY SomeNames DEF Nothing
<1>4. RibbonsOf(a, x) = {}
  BY <1>1, <1>3 DEF RibbonsOf, Levels
<1>5. MarksOf(a, x) = {}
  BY <1>3 DEF MarksOf
<1>6. QED
  BY <1>2, <1>4, <1>5 DEF ContestOf

LEMMA AwardsBegin == AwardsInit => AwardsInv
<1>1. SUFFICES ASSUME AwardsInit PROVE AwardsInv
  OBVIOUS
<1>2. console \in {"gba", "gcn"}
  BY <1>1 DEF AwardsInit
<1>3. PICK obedient \in BOOLEAN : awards = With(console, Blank[console], "obedient", obedient)
  BY <1>1 DEF AwardsInit
<1>4. DOMAIN Blank[console] = AwardCells(console)
  BY <1>2, BlankCells
<1>5. obedient \in Values("obedient") /\ "obedient" \in AwardNames
  BY SomeNames
<1>6. /\ DOMAIN awards = AwardCells(console)
      /\ Award(console, awards, "obedient") = obedient
      /\ \A n \in AwardNames \ {"obedient"} : Award(console, awards, n) = Award(console, Blank[console], n)
  BY <1>2, <1>3, <1>4, <1>5, WithTells
<1>7. \A n \in AwardNames \ {"obedient"} : Award(console, awards, n) = Nothing(n) /\ Nothing(n) \in Values(n)
  BY <1>2, <1>6, BlankTells
<1>8. MapsAreCurrent
  BY <1>1, <1>7, NothingInMaps DEF AwardsInit, MapsAreCurrent
<1>9. \A n \in AwardNames : Award(console, awards, n) \in Values(n)
  BY <1>5, <1>6, <1>7
<1>10. QED
  BY <1>2, <1>6, <1>8, <1>9 DEF AwardsInv

(* A setter of one award. *)
LEMMA OneAwardSet ==
  ASSUME AwardsInv, NEW name \in AwardNames, NEW value \in Values(name),
         awards' = With(console, awards, name, value), console' = console
  PROVE  /\ DOMAIN awards' = AwardCells(console')
         /\ Award(console', awards', name) = value
         /\ \A n \in AwardNames \ {name} : Award(console', awards', n) = Award(console, awards, n)
         /\ \A n \in AwardNames : Award(console', awards', n) \in Values(n)
<1>1. /\ DOMAIN awards' = AwardCells(console)
      /\ Award(console, awards', name) = value
      /\ \A n \in AwardNames \ {name} : Award(console, awards', n) = Award(console, awards, n)
  BY WithTells DEF AwardsInv
<1>2. QED
  BY <1>1 DEF AwardsInv

(* The rank of a contest after a ribbon was given or taken. *)
LevelSet(c, rank, value) ==
  IF console = "gba" THEN GBALevel(c, rank, value) ELSE GCNLevel(rank, value)

LEMMA LevelSetType ==
  ASSUME AwardsInv, NEW c \in InOrder(Contests), NEW rank \in Levels, NEW value \in BOOLEAN
  PROVE  /\ LevelSet(c, rank, value) \in Values(c)
         /\ value => rank <= LevelSet(c, rank, value)
         /\ ~value => LevelSet(c, rank, value) < rank
         /\ console = "gba" => IF value THEN Award(console, awards, c) <= LevelSet(c, rank, value)
                                        ELSE LevelSet(c, rank, value) <= Award(console, awards, c)
<1>1. Values(c) = 0..4 /\ Award(console, awards, c) \in 0..4
  BY SomeNames DEF AwardsInv
<1>2. QED
  BY <1>1 DEF LevelSet, GBALevel, GCNLevel, Higher, Lower, Levels

LEMMA RibbonSet ==
  ASSUME AwardsInv, NEW ribbon \in RibbonInputs, NEW value \in BOOLEAN, SetRibbon(ribbon, value)
  PROVE  \/ /\ ribbon[1] \in InOrder(Contests) /\ ribbon[2] \in Levels
            /\ Award(console', awards', ribbon[1]) = LevelSet(ribbon[1], ribbon[2], value)
            /\ \A n \in AwardNames \ {ribbon[1]} : Award(console', awards', n) = Award(console, awards, n)
            /\ AwardsInv'
         \/ /\ ribbon[1] \in InOrder(Specials) /\ ribbon[2] = 0
            /\ Award(console', awards', ribbon[1]) = value
            /\ \A n \in AwardNames \ {ribbon[1]} : Award(console', awards', n) = Award(console, awards, n)
            /\ AwardsInv'
<1> DEFINE name == ribbon[1]
<1>1. /\ console' = console /\ marks' = marks /\ contest' = contest /\ ribbons' = RibbonsOf(console', awards')
  BY DEF SetRibbon
<1>2. ASSUME NEW new \in Values(name), name \in InOrder(Contests) \cup InOrder(Specials),
             awards' = With(console, awards, name, new)
      PROVE  /\ Award(console', awards', name) = new
             /\ \A n \in AwardNames \ {name} : Award(console', awards', n) = Award(console, awards, n)
             /\ AwardsInv'
  <2>1. name \in AwardNames
    BY <1>2, SomeNames
  <2>2. /\ DOMAIN awards' = AwardCells(console')
        /\ Award(console', awards', name) = new
        /\ \A n \in AwardNames \ {name} : Award(console', awards', n) = Award(console, awards, n)
        /\ \A n \in AwardNames : Award(console', awards', n) \in Values(n)
    BY <1>1, <1>2, <2>1, OneAwardSet
  <2>3. \A n \in InOrder(Marks) \cup ContestStats : n # name /\ n \in AwardNames
    BY <1>2, SomeNames
  <2>4. MarksOf(console', awards') = marks' /\ ContestOf(console', awards') = contest'
    BY <1>1, <2>2, <2>3 DEF AwardsInv, MapsAreCurrent, MarksOf, ContestOf
  <2>5. QED
    BY <1>1, <2>2, <2>4 DEF AwardsInv, MapsAreCurrent
<1>3. CASE name \in InOrder(Contests)
  <2>1. ribbon[2] \in Levels /\ awards' = With(console, awards, name, LevelSet(name, ribbon[2], value))
    BY <1>3 DEF SetRibbon, SetContestRibbon, LevelSet
  <2>2. LevelSet(name, ribbon[2], value) \in Values(name)
    BY <1>3, <2>1, LevelSetType
  <2>3. QED
    BY <1>2, <1>3, <2>1, <2>2
<1>4. CASE name \notin InOrder(Contests)
  <2>1. name \in InOrder(Specials) /\ awards' = With(console, awards, name, value)
    BY <1>4 DEF SetRibbon, SetSpecialRibbon
  <2>2. value \in Values(name) /\ ribbon[2] = 0
    BY <2>1, SomeNames, AwardsAssumption
  <2>3. QED
    BY <1>2, <2>1, <2>2
<1>5. QED
  BY <1>3, <1>4

LEMMA MarkSet ==
  ASSUME AwardsInv, NEW mark, NEW value \in BOOLEAN, SetMarking(mark, value)
  PROVE  AwardsInv'
<1>1. mark \in AwardNames /\ value \in Values(mark)
  BY SomeNames DEF SetMarking
<1>2. /\ DOMAIN awards' = AwardCells(console')
      /\ Award(console', awards', mark) = value
      /\ \A n \in AwardNames \ {mark} : Award(console', awards', n) = Award(console, awards, n)
      /\ \A n \in AwardNames : Award(console', awards', n) \in Values(n)
  BY <1>1, OneAwardSet DEF SetMarking
<1>3. \A n \in InOrder(Contests) \cup InOrder(Specials) \cup ContestStats : n # mark /\ n \in AwardNames
  BY SomeNames DEF SetMarking
<1>4. RibbonsOf(console', awards') = ribbons'
  BY <1>2, <1>3, RibbonsFollow DEF AwardsInv, MapsAreCurrent, SetMarking
<1>5. ContestOf(console', awards') = contest'
  BY <1>2, <1>3 DEF AwardsInv, MapsAreCurrent, SetMarking, ContestOf
<1>6. MarksOf(console', awards') = marks'
  <2>1. mark \in InOrder(Marks) /\ marks = MarksOf(console, awards)
        /\ marks' = IF value THEN marks \cup {mark} ELSE marks \ {mark}
    BY DEF AwardsInv, MapsAreCurrent, SetMarking
  <2>2. \A m \in InOrder(Marks) \ {mark} : Award(console', awards', m) = Award(console, awards, m)
    BY <1>2, SomeNames
  <2>3. CASE value
    BY <1>2, <2>1, <2>2, <2>3 DEF MarksOf
  <2>4. CASE ~value
    BY <1>2, <2>1, <2>2, <2>4 DEF MarksOf
  <2>5. QED
    BY <2>3, <2>4
<1>7. QED
  BY <1>2, <1>4, <1>5, <1>6 DEF AwardsInv, MapsAreCurrent, SetMarking

LEMMA ContestStatSet ==
  ASSUME AwardsInv, NEW stat, NEW value, SetContestStat(stat, value)
  PROVE  AwardsInv'
<1>1. stat \in AwardNames /\ value \in Values(stat)
  BY SomeNames DEF SetContestStat
<1>2. /\ DOMAIN awards' = AwardCells(console')
      /\ Award(console', awards', stat) = value
      /\ \A n \in AwardNames \ {stat} : Award(console', awards', n) = Award(console, awards, n)
      /\ \A n \in AwardNames : Award(console', awards', n) \in Values(n)
  BY <1>1, OneAwardSet DEF SetContestStat
<1>3. \A n \in InOrder(Contests) \cup InOrder(Specials) \cup InOrder(Marks) : n # stat /\ n \in AwardNames
  BY SomeNames DEF SetContestStat
<1>4. RibbonsOf(console', awards') = ribbons'
  BY <1>2, <1>3, RibbonsFollow DEF AwardsInv, MapsAreCurrent, SetContestStat
<1>5. MarksOf(console', awards') = marks'
  BY <1>2, <1>3 DEF AwardsInv, MapsAreCurrent, SetContestStat, MarksOf
<1>6. ContestOf(console', awards') = contest'
  BY <1>2, SomeNames DEF AwardsInv, MapsAreCurrent, SetContestStat, ContestOf
<1>7. QED
  BY <1>2, <1>4, <1>5, <1>6 DEF AwardsInv, MapsAreCurrent, SetContestStat

LEMMA ObedienceSet ==
  ASSUME AwardsInv, NEW value \in BOOLEAN, SetObedient(value)
  PROVE  AwardsInv' /\ Award(console', awards', "obedient") = value
<1>1. "obedient" \in AwardNames /\ value \in Values("obedient")
  BY SomeNames
<1>2. /\ DOMAIN awards' = AwardCells(console')
      /\ Award(console', awards', "obedient") = value
      /\ \A n \in AwardNames \ {"obedient"} : Award(console', awards', n) = Award(console, awards, n)
      /\ \A n \in AwardNames : Award(console', awards', n) \in Values(n)
  BY <1>1, OneAwardSet DEF SetObedient
<1>3. \A n \in InOrder(Contests) \cup InOrder(Specials) \cup InOrder(Marks) \cup ContestStats :
        n # "obedient" /\ n \in AwardNames
  BY SomeNames
<1>4. RibbonsOf(console', awards') = ribbons'
  BY <1>2, <1>3, RibbonsFollow DEF AwardsInv, MapsAreCurrent, SetObedient
<1>5. MarksOf(console', awards') = marks'
  BY <1>2, <1>3 DEF AwardsInv, MapsAreCurrent, SetObedient, MarksOf
<1>6. ContestOf(console', awards') = contest'
  BY <1>2, <1>3 DEF AwardsInv, MapsAreCurrent, SetObedient, ContestOf
<1>7. QED
  BY <1>2, <1>4, <1>5, <1>6 DEF AwardsInv, MapsAreCurrent, SetObedient

LEMMA AwardsTraded ==
  ASSUME AwardsInv, NEW to \in {"gba", "gcn"}, TradeAwards(to)
  PROVE  /\ AwardsInv'
         /\ \A n \in AwardNames : Award(console', awards', n) = Award(console, awards, n)
<1> DEFINE told == [n \in AwardNames |-> Award(console, awards, n)]
<1>1. /\ console' = to /\ awards' = IF to = console THEN awards ELSE AwardsAcross(to)
      /\ MapsAreCurrent'
  BY DEF TradeAwards, Over, MapsAreCurrent
<1>2. AwardsAcross(to) = Gathered(to, told)
  BY RowNames DEF AwardsAcross
<1>3. \A n \in AwardNames : told[n] = Award(console, awards, n) /\ told[n] \in Values(n)
  BY DEF AwardsInv
<1> HIDE DEF told
<1>4. DOMAIN awards' = AwardCells(to) /\ \A n \in AwardNames : Award(to, awards', n) = Award(console, awards, n)
  BY <1>1, <1>2, <1>3, GatheredTells DEF AwardsInv
<1>5. QED
  BY <1>1, <1>4 DEF AwardsInv

LEMMA AwardsStep == AwardsInv /\ [AwardsNext]_awardVars => AwardsInv'
<1>1. SUFFICES ASSUME AwardsInv, [AwardsNext]_awardVars PROVE AwardsInv'
  OBVIOUS
<1>2. ASSUME NEW ribbon \in RibbonInputs, NEW value \in BOOLEAN, SetRibbon(ribbon, value) PROVE AwardsInv'
  BY <1>1, <1>2, RibbonSet
<1>3. ASSUME NEW mark \in MarkInputs, NEW value \in BOOLEAN, SetMarking(mark, value) PROVE AwardsInv'
  BY <1>1, <1>3, MarkSet
<1>4. ASSUME NEW input \in ContestInputs, SetContestStat(input[1], input[2]) PROVE AwardsInv'
  BY <1>1, <1>4, ContestStatSet
<1>5. ASSUME NEW value \in BOOLEAN, SetObedient(value) PROVE AwardsInv'
  BY <1>1, <1>5, ObedienceSet
<1>6. ASSUME NEW to \in {"gba", "gcn"}, TradeAwards(to) PROVE AwardsInv'
  BY <1>1, <1>6, AwardsTraded
<1>7. CASE UNCHANGED awardVars
  BY <1>1, <1>7 DEF awardVars, AwardsInv, MapsAreCurrent
<1>8. QED
  BY <1>1, <1>2, <1>3, <1>4, <1>5, <1>6, <1>7 DEF AwardsNext

(* What a set of ribbons says of the structure it was made from. *)
LEMMA RibbonsSay ==
  ASSUME NEW on, NEW data
  PROVE  /\ \A c \in InOrder(Contests), l \in Levels :
              <<c, l>> \in RibbonsOf(on, data) <=> l <= Award(on, data, c)
         /\ \A r \in InOrder(Specials) : <<r, 0>> \in RibbonsOf(on, data) <=> Award(on, data, r)
         /\ \A x \in RibbonsOf(on, data) :
              \/ x[1] \in InOrder(Contests) /\ x[2] \in Levels /\ x = <<x[1], x[2]>>
              \/ x[1] \in InOrder(Specials) /\ x = <<x[1], 0>>
<1>1. \A c \in InOrder(Contests) : c \notin InOrder(Specials)
  BY SomeNames
<1>2. \A c \in InOrder(Contests), l \in Levels : <<c, l>> \in RibbonsOf(on, data) <=> l <= Award(on, data, c)
  BY <1>1 DEF RibbonsOf
<1>3. \A r \in InOrder(Specials) : <<r, 0>> \in RibbonsOf(on, data) <=> Award(on, data, r)
  BY <1>1 DEF RibbonsOf
<1>4. \A x \in RibbonsOf(on, data) :
        \/ x[1] \in InOrder(Contests) /\ x[2] \in Levels /\ x = <<x[1], x[2]>>
        \/ x[1] \in InOrder(Specials) /\ x = <<x[1], 0>>
  BY DEF RibbonsOf
<1>5. QED
  BY <1>2, <1>3, <1>4

LEMMA RibbonsExact == AwardsInv => RibbonsAreExact
<1>1. SUFFICES ASSUME AwardsInv, NEW ribbon \in RibbonInputs, NEW value \in BOOLEAN, SetRibbon(ribbon, value)
               PROVE  /\ (ribbon \in ribbons') = value
                      /\ \A other \in ribbons \cup ribbons' :
                           other[1] # ribbon[1] => other \in ribbons \cap ribbons'
                      /\ \A l \in Levels : ribbon[2] > 0 /\ <<ribbon[1], l>> \in ribbons' =>
                           \A k \in 1..l : <<ribbon[1], k>> \in ribbons'
                      /\ console = "gba" => IF value THEN ribbons \subseteq ribbons' ELSE ribbons' \subseteq ribbons
                      /\ Obedient' = Obedient
  BY DEF RibbonsAreExact
<1> DEFINE name == ribbon[1]
           now(n) == Award(console, awards, n)
           then(n) == Award(console', awards', n)
<1>2. /\ ribbon = <<name, ribbon[2]>>
      /\ \/ /\ name \in InOrder(Contests) /\ ribbon[2] \in Levels
            /\ then(name) = LevelSet(name, ribbon[2], value)
         \/ name \in InOrder(Specials) /\ ribbon[2] = 0 /\ then(name) = value
      /\ \A n \in AwardNames \ {name} : then(n) = now(n)
      /\ AwardsInv'
  BY <1>1, RibbonSet, AwardsAssumption
<1>3. ribbons = RibbonsOf(console, awards) /\ ribbons' = RibbonsOf(console', awards') /\ console' = console
  BY <1>1, <1>2 DEF AwardsInv, MapsAreCurrent, SetRibbon
<1>4. /\ \A c \in InOrder(Contests), l \in Levels : <<c, l>> \in ribbons <=> l <= now(c)
      /\ \A r \in InOrder(Specials) : <<r, 0>> \in ribbons <=> now(r)
      /\ \A x \in ribbons : \/ x[1] \in InOrder(Contests) /\ x[2] \in Levels /\ x = <<x[1], x[2]>>
                            \/ x[1] \in InOrder(Specials) /\ x = <<x[1], 0>>
  BY <1>3, RibbonsSay
<1>5. /\ \A c \in InOrder(Contests), l \in Levels : <<c, l>> \in ribbons' <=> l <= then(c)
      /\ \A r \in InOrder(Specials) : <<r, 0>> \in ribbons' <=> then(r)
      /\ \A x \in ribbons' : \/ x[1] \in InOrder(Contests) /\ x[2] \in Levels /\ x = <<x[1], x[2]>>
                             \/ x[1] \in InOrder(Specials) /\ x = <<x[1], 0>>
  BY <1>3, RibbonsSay
<1>6. Obedient' = Obedient
  <2>1. "obedient" \in AwardNames \ {name}
    BY <1>2, SomeNames
  <2>2. QED
    BY <1>2, <2>1 DEF Obedient
<1>7. /\ \A c \in InOrder(Contests) : now(c) \in 0..4 /\ then(c) \in 0..4
      /\ \A r \in InOrder(Specials) : now(r) \in BOOLEAN /\ then(r) \in BOOLEAN
  BY <1>1, <1>2, SomeNames DEF AwardsInv
<1>8. \A n \in InOrder(Contests) \cup InOrder(Specials) : n # name => then(n) = now(n)
  BY <1>2, SomeNames
<1> HIDE DEF name, now, then
<1>9. ASSUME NEW other \in ribbons \cup ribbons', other[1] # name PROVE other \in ribbons \cap ribbons'
  <2>1. CASE other[1] \in InOrder(Contests)
    <3>1. other[2] \in Levels /\ other = <<other[1], other[2]>>
      BY <2>1, <1>4, <1>5, SomeNames
    <3>2. then(other[1]) = now(other[1])
      BY <1>8, <1>9, <2>1
    <3>3. QED
      BY <3>1, <3>2, <2>1, <1>4, <1>5, <1>9
  <2>2. CASE other[1] \notin InOrder(Contests)
    <3>1. other[1] \in InOrder(Specials) /\ other = <<other[1], 0>>
      BY <2>2, <1>4, <1>5
    <3>2. then(other[1]) = now(other[1])
      BY <1>8, <1>9, <3>1
    <3>3. QED
      BY <3>1, <3>2, <1>4, <1>5, <1>9
  <2>3. QED
    BY <2>1, <2>2
<1>10. CASE name \in InOrder(Contests)
  <2> DEFINE rank == ribbon[2]
  <2>1. rank \in Levels /\ then(name) = LevelSet(name, rank, value) /\ ribbon = <<name, rank>>
    BY <1>2, <1>10, SomeNames
  <2>2. /\ value => rank <= then(name)
        /\ ~value => then(name) < rank
        /\ console = "gba" => IF value THEN now(name) <= then(name) ELSE then(name) <= now(name)
    BY <1>1, <1>10, <2>1, LevelSetType DEF now
  <2> HIDE DEF rank
  <2>3. ribbon \in ribbons' <=> rank <= then(name)
    BY <1>5, <1>10, <2>1
  <2>4. rank <= then(name) <=> value
    BY <1>7, <1>10, <2>1, <2>2 DEF Levels
  <2>5. (ribbon \in ribbons') = value
    BY <2>3, <2>4
  <2>6. ASSUME NEW l \in Levels, <<name, l>> \in ribbons', NEW k \in 1..l PROVE <<name, k>> \in ribbons'
    <3>1. l <= then(name)
      BY <1>5, <1>10, <2>6
    <3>2. k \in Levels /\ k <= l
      BY <2>6 DEF Levels
    <3>3. k <= then(name)
      BY <3>1, <3>2, <1>7, <1>10 DEF Levels
    <3>4. QED
      BY <3>2, <3>3, <1>5, <1>10
  <2>7. ASSUME console = "gba", value PROVE ribbons \subseteq ribbons'
    <3>1. SUFFICES ASSUME NEW x \in ribbons PROVE x \in ribbons'
      OBVIOUS
    <3>2. CASE x[1] = name
      <4>1. x[2] \in Levels /\ x = <<name, x[2]>> /\ x[2] <= now(name)
        BY <3>1, <3>2, <1>4, <1>10, SomeNames
      <4>2. x[2] <= then(name)
        BY <4>1, <2>2, <2>7, <1>7, <1>10 DEF Levels
      <4>3. QED
        BY <4>1, <4>2, <1>5, <1>10
    <3>3. CASE x[1] # name
      BY <3>1, <3>3, <1>9
    <3>4. QED
      BY <3>2, <3>3
  <2>8. ASSUME console = "gba", ~value PROVE ribbons' \subseteq ribbons
    <3>1. SUFFICES ASSUME NEW x \in ribbons' PROVE x \in ribbons
      OBVIOUS
    <3>2. CASE x[1] = name
      <4>1. x[2] \in Levels /\ x = <<name, x[2]>> /\ x[2] <= then(name)
        BY <3>1, <3>2, <1>5, <1>10, SomeNames
      <4>2. x[2] <= now(name)
        BY <4>1, <2>2, <2>8, <1>7, <1>10 DEF Levels
      <4>3. QED
        BY <4>1, <4>2, <1>4, <1>10
    <3>3. CASE x[1] # name
      BY <3>1, <3>3, <1>9
    <3>4. QED
      BY <3>2, <3>3
  <2>9. QED
    BY <1>6, <1>9, <2>5, <2>6, <2>7, <2>8 DEF name
<1>11. CASE name \in InOrder(Specials)
  <2>1. ribbon[2] = 0 /\ then(name) = value /\ ribbon = <<name, 0>>
    BY <1>2, <1>11, SomeNames
  <2>2. ribbon \in ribbons' <=> value
    BY <1>5, <1>11, <2>1
  <2>3. (ribbon \in ribbons') = value
    BY <2>2
  <2>4. ASSUME value, NEW x \in ribbons PROVE x \in ribbons'
    <3>1. CASE x[1] = name
      <4>1. x = ribbon
        BY <3>1, <2>1, <2>4, <1>4, <1>11, SomeNames
      <4>2. QED
        BY <4>1, <2>2, <2>4
    <3>2. CASE x[1] # name
      BY <2>4, <3>2, <1>9
    <3>3. QED
      BY <3>1, <3>2
  <2>5. ASSUME ~value, NEW x \in ribbons' PROVE x \in ribbons
    <3>1. CASE x[1] = name
      <4>1. x = ribbon
        BY <3>1, <2>1, <2>5, <1>5, <1>11, SomeNames
      <4>2. QED
        BY <4>1, <2>2, <2>5
    <3>2. CASE x[1] # name
      BY <2>5, <3>2, <1>9
    <3>3. QED
      BY <3>1, <3>2
  <2>6. QED
    BY <1>6, <1>9, <2>1, <2>3, <2>4, <2>5 DEF name
<1>12. QED
  BY <1>2, <1>10, <1>11

LEMMA ObedienceApart == AwardsInv => ObedienceIsApart
<1>1. SUFFICES ASSUME AwardsInv, NEW value \in BOOLEAN, SetObedient(value)
               PROVE  Obedient' = value /\ UNCHANGED ribbons
  BY DEF ObedienceIsApart
<1>2. QED
  BY <1>1, ObedienceSet DEF SetObedient, Obedient

LEMMA AwardsSurvive == AwardsInv => TradesKeepAwards
<1>1. SUFFICES ASSUME AwardsInv, NEW to \in {"gba", "gcn"}, TradeAwards(to)
               PROVE  ribbons' = ribbons /\ marks' = marks /\ contest' = contest /\ Obedient' = Obedient
  BY DEF TradesKeepAwards
<1>2. AwardsInv' /\ \A n \in AwardNames : Award(console', awards', n) = Award(console, awards, n)
  BY <1>1, AwardsTraded
<1>3. /\ RibbonsOf(console', awards') = RibbonsOf(console, awards)
      /\ MarksOf(console', awards') = MarksOf(console, awards)
      /\ ContestOf(console', awards') = ContestOf(console, awards)
  BY <1>2, MapsFollow
<1>4. Obedient' = Obedient
  BY <1>2, SomeNames DEF Obedient
<1>5. QED
  BY <1>1, <1>2, <1>3, <1>4 DEF AwardsInv, MapsAreCurrent

(* Awards are what was given, in one word as in many cells, for any        *)
(* ribbons, markings and contest stats that callers set.                   *)
THEOREM AwardsTheorem == AwardsSpec => AwardsAreKept
<1>1. AwardsInv /\ [AwardsNext]_awardVars =>
        MapsAreCurrent' /\ RibbonsAreExact /\ ObedienceIsApart /\ TradesKeepAwards
  BY AwardsStep, RibbonsExact, ObedienceApart, AwardsSurvive DEF AwardsInv
<1>2. AwardsInv /\ [AwardsNext]_awardVars =>
        [MapsAreCurrent' /\ RibbonsAreExact /\ ObedienceIsApart /\ TradesKeepAwards]_awardVars
  BY <1>1
<1>3. QED
  BY <1>2, AwardsBegin, AwardsStep, PTL DEF AwardsSpec, AwardsAreKept

-----------------------------------------------------------------------------
(* What is told of rows side by side. *)
LEMMA Joined ==
  ASSUME NEW f, NEW g
  PROVE  /\ DOMAIN (f ++ g) = DOMAIN f \cup DOMAIN g
         /\ \A x \in DOMAIN f : (f ++ g)[x] = f[x]
         /\ \A x \in DOMAIN g \ DOMAIN f : (f ++ g)[x] = g[x]
BY DEF ++

Sound(row) == Exact(row, DOMAIN row.code)

LEMMA PlainIsSound ==
  ASSUME NEW cell, NEW values
  PROVE  /\ Sound(Cell(cell, values))
         /\ Cell(cell, values).cell = cell /\ Cell(cell, values).mask = {}
         /\ DOMAIN Cell(cell, values).code = values /\ DOMAIN Cell(cell, values).told = values
BY DEF Sound, Exact, Cell, Row, Same

LEMMA TextIsSound ==
  ASSUME NEW cell, NEW limit
  PROVE  Sound(Text(cell, limit)) /\ Text(cell, limit).cell = cell /\ Text(cell, limit).mask = {}
BY DEF Sound, Exact, Text, Row, Same

LEMMA CodedIsSound ==
  ASSUME NEW cell, NEW numbers, NEW default,
         \A v, w \in DOMAIN numbers : numbers[v] = numbers[w] => v = w
  PROVE  Sound(Coded(cell, numbers, default))
<1>1. \A v \in DOMAIN numbers : numbers[v] \in DOMAIN Inverse(numbers) /\ Inverse(numbers)[numbers[v]] = v
  BY InverseIsExact
<1>2. QED
  BY <1>1 DEF Sound, Exact, Coded, Row

LEMMA FixedIsSound ==
  ASSUME NEW value
  PROVE  /\ Sound(Fixed(value)) /\ Fixed(value).cell = "none" /\ Fixed(value).mask = {}
         /\ DOMAIN Fixed(value).code = {} /\ DOMAIN Fixed(value).told = {} /\ Fixed(value).default = value
BY DEF Sound, Exact, Fixed, Row, Same

LEMMA BitIsSound ==
  ASSUME NEW cell, NEW bit \in Int
  PROVE  Sound(Bit(cell, bit)) /\ Bit(cell, bit).cell = cell /\ Bit(cell, bit).mask = {bit}
<1>1. DOMAIN Bit(cell, bit).code = BOOLEAN
  <2>1. DOMAIN YesNo = BOOLEAN
    BY DEF YesNo
  <2>2. QED
    BY <2>1 DEF Bit, Part, Row, InWord
<1>2. QED
  BY <1>1, BitIsExact DEF Sound

LEMMA GenderByteIsSound ==
  ASSUME NEW cell, NEW settable \in SUBSET {"MALE", "FEMALE"}
  PROVE  /\ Sound(GenderByte(cell, settable))
         /\ GenderByte(cell, settable).cell = cell /\ GenderByte(cell, settable).mask = {}
<1> DEFINE code == [g \in settable |-> IF g = "MALE" THEN 0 ELSE 1]
           told == [n \in 0..255 |-> IF n = 0 THEN "MALE" ELSE "FEMALE"]
<1>1. GenderByte(cell, settable) = Row(cell, {}, code, told, Refused)
  BY DEF GenderByte
<1>2. DOMAIN code = settable /\ \A g \in settable : code[g] \in DOMAIN told /\ told[code[g]] = g
  OBVIOUS
<1> HIDE DEF code, told
<1> DEFINE row == Row(cell, {}, code, told, Refused)
<1>3. row.code = code /\ row.told = told /\ row.mask = {} /\ row.cell = cell
  BY DEF Row
<1> HIDE DEF row
<1>4. Sound(row)
  BY <1>2, <1>3 DEF Sound, Exact
<1>5. QED
  BY <1>1, <1>3, <1>4 DEF row

(* Numbers of the right size are their digits. *)
LEMMA MaxMoneyType == MaxMoney \in Nat /\ MaxCoins \in Nat /\ MaxCoins <= MaxMoney
BY DEF MaxMoney, MaxCoins

LEMMA DecimalDigits ==
  ASSUME NEW n \in Nat, n <= MaxMoney
  PROVE  n = (n % 10) + 10 * ((n \div 10) % 10) + 100 * ((n \div 100) % 10) + 1000 * ((n \div 1000) % 10)
               + 10000 * ((n \div 10000) % 10) + 100000 * ((n \div 100000) % 10)
<1>1. n = 10 * (n \div 10) + (n % 10)
  OBVIOUS
<1>2. n \div 10 = 10 * (n \div 100) + ((n \div 10) % 10)
  OBVIOUS
<1>3. n \div 100 = 10 * (n \div 1000) + ((n \div 100) % 10)
  OBVIOUS
<1>4. n \div 1000 = 10 * (n \div 10000) + ((n \div 1000) % 10)
  OBVIOUS
<1>5. n \div 10000 = 10 * (n \div 100000) + ((n \div 10000) % 10)
  OBVIOUS
<1>6. n \div 100000 = (n \div 100000) % 10
  BY DEF MaxMoney
<1>7. QED
  BY <1>1, <1>2, <1>3, <1>4, <1>5, <1>6

LEMMA ByteDigits ==
  ASSUME NEW n \in Nat, n <= MaxMoney
  PROVE  n = (n % 256) + 256 * ((n \div 256) % 256) + 65536 * ((n \div 65536) % 256)
BY DEF MaxMoney

LEMMA CoinDigits ==
  ASSUME NEW n \in Nat, n <= MaxCoins
  PROVE  n \div 10000 = 0 /\ n \div 100000 = 0
BY DEF MaxCoins

LEMMA MoneyIsSound ==
  ASSUME NEW cell
  PROVE  /\ Sound(Decimal(cell, 3, MaxMoney)) /\ Sound(Decimal(cell, 2, MaxCoins)) /\ Sound(Base256(cell, 3, MaxMoney))
         /\ Decimal(cell, 3, MaxMoney).cell = cell /\ Decimal(cell, 2, MaxCoins).cell = cell
         /\ Base256(cell, 3, MaxMoney).cell = cell
<1>1. \A n, k \in 0..MaxMoney : Digits(n, Tens, 2 * 3) = Digits(k, Tens, 2 * 3) => n = k
  <2>1. TAKE n, k \in 0..MaxMoney
  <2>2. HAVE Digits(n, Tens, 2 * 3) = Digits(k, Tens, 2 * 3)
  <2>3. \A i \in 1..6 : (n \div Tens[i]) % 10 = (k \div Tens[i]) % 10
    BY <2>2 DEF Digits, Tens
  <2>10. n \in Nat /\ k \in Nat /\ n <= MaxMoney /\ k <= MaxMoney
    BY MaxMoneyType
  <2>4. /\ n % 10 = k % 10 /\ (n \div 10) % 10 = (k \div 10) % 10 /\ (n \div 100) % 10 = (k \div 100) % 10
        /\ (n \div 1000) % 10 = (k \div 1000) % 10 /\ (n \div 10000) % 10 = (k \div 10000) % 10
        /\ (n \div 100000) % 10 = (k \div 100000) % 10
    BY <2>3, <2>10 DEF Tens
  <2>5. QED
    BY <2>4, <2>10, DecimalDigits
<1>2. \A n, k \in 0..MaxCoins : Digits(n, Tens, 2 * 2) = Digits(k, Tens, 2 * 2) => n = k
  <2>1. TAKE n, k \in 0..MaxCoins
  <2>2. HAVE Digits(n, Tens, 2 * 2) = Digits(k, Tens, 2 * 2)
  <2>3. \A i \in 1..4 : (n \div Tens[i]) % 10 = (k \div Tens[i]) % 10
    BY <2>2 DEF Digits, Tens
  <2>10. n \in Nat /\ k \in Nat /\ n <= MaxMoney /\ k <= MaxMoney /\ n <= MaxCoins /\ k <= MaxCoins
    BY MaxMoneyType
  <2>4. /\ n % 10 = k % 10 /\ (n \div 10) % 10 = (k \div 10) % 10 /\ (n \div 100) % 10 = (k \div 100) % 10
        /\ (n \div 1000) % 10 = (k \div 1000) % 10
    BY <2>3, <2>10 DEF Tens
  <2>5. n \div 10000 = 0 /\ k \div 10000 = 0 /\ n \div 100000 = 0 /\ k \div 100000 = 0
    BY <2>10, CoinDigits
  <2>6. QED
    BY <2>4, <2>5, <2>10, DecimalDigits
<1>3. \A n, k \in 0..MaxMoney : Digits(n, Places256, 3) = Digits(k, Places256, 3) => n = k
  <2>1. TAKE n, k \in 0..MaxMoney
  <2>2. HAVE Digits(n, Places256, 3) = Digits(k, Places256, 3)
  <2>3. \A i \in 1..3 : (n \div Places256[i]) % 256 = (k \div Places256[i]) % 256
    BY <2>2 DEF Digits, Places256
  <2>10. n \in Nat /\ k \in Nat /\ n <= MaxMoney /\ k <= MaxMoney
    BY MaxMoneyType
  <2>4. n % 256 = k % 256 /\ (n \div 256) % 256 = (k \div 256) % 256 /\ (n \div 65536) % 256 = (k \div 65536) % 256
    BY <2>3, <2>10 DEF Places256
  <2>5. QED
    BY <2>4, <2>10, ByteDigits
<1>4. Within(MaxMoney) \subseteq 0..MaxMoney /\ Within(MaxCoins) \subseteq 0..MaxCoins
  BY DEF Within
<1> DEFINE six == [n \in Within(MaxMoney) |-> Digits(n, Tens, 2 * 3)]
           four == [n \in Within(MaxCoins) |-> Digits(n, Tens, 2 * 2)]
           three == [n \in Within(MaxMoney) |-> Digits(n, Places256, 3)]
<1>5. \A v, w \in DOMAIN six : six[v] = six[w] => v = w
  BY <1>1, <1>4
<1>6. \A v, w \in DOMAIN four : four[v] = four[w] => v = w
  BY <1>2, <1>4
<1>7. \A v, w \in DOMAIN three : three[v] = three[w] => v = w
  BY <1>3, <1>4
<1>8. /\ Decimal(cell, 3, MaxMoney) = Coded(cell, six, Refused) /\ Decimal(cell, 2, MaxCoins) = Coded(cell, four, Refused)
      /\ Base256(cell, 3, MaxMoney) = Coded(cell, three, Refused)
  BY DEF Decimal, Base256
<1> HIDE DEF six, four, three
<1>9. \A numbers : Coded(cell, numbers, Refused).cell = cell
  BY DEF Coded, Row
<1>10. QED
  BY <1>5, <1>6, <1>7, <1>8, <1>9, CodedIsSound

-----------------------------------------------------------------------------
(* A trainer ID and its halves. *)
LEMMA HalvesType == \A ids : \A h \in Halves(ids) : h \in SUBSET (0..15) /\ h \in SUBSET Int
<1>1. \A id : Low(id) \in SUBSET (0..15) /\ High(id) \in SUBSET (0..15)
  BY DEF Low, High
<1>2. QED
  BY <1>1 DEF Halves

WholeIDs(ids) == {Whole(h, k) : h, k \in Halves(ids)}

LEMMA WholeHasHalves ==
  ASSUME NEW ids, NEW h \in Halves(ids), NEW k \in Halves(ids)
  PROVE  Whole(h, k) \cap (0..15) = h /\ Whole(h, k) \cap (16..31) = Up(k, 16)
<1>1. h \in SUBSET (0..15) /\ k \in SUBSET (0..15)
  BY HalvesType
<1>2. Up(k, 16) \subseteq 16..31
  BY <1>1 DEF Up
<1>3. (0..15) \cap (16..31) = {}
  OBVIOUS
<1> HIDE DEF Up
<1>4. (h \cup Up(k, 16)) \cap (0..15) = h
  <2>1. \A i \in Up(k, 16) : i \notin 0..15
    BY <1>2, <1>3
  <2> HIDE DEF Up
  <2>2. QED
    BY <1>1, <2>1
<1>5. (h \cup Up(k, 16)) \cap (16..31) = Up(k, 16)
  <2>1. \A i \in h : i \notin 16..31
    BY <1>1, <1>3
  <2>2. QED
    BY <1>2, <2>1
<1>6. QED
  BY <1>4, <1>5 DEF Whole

LEMMA IDPartsAre ==
  ASSUME NEW cell, NEW ids
  PROVE  LET r == IDParts(cell, ids)
         IN /\ DOMAIN r = {"publicId", "secretId", "trainerId"}
            /\ \A f \in DOMAIN r : Sound(r[f]) /\ r[f].cell = cell
            /\ r["publicId"].mask = 0..15 /\ r["secretId"].mask = 16..31 /\ r["trainerId"].mask = {}
            /\ DOMAIN r["publicId"].code = Halves(ids) /\ DOMAIN r["secretId"].code = Halves(ids)
            /\ DOMAIN r["trainerId"].code = WholeIDs(ids)
            /\ \A h \in Halves(ids) : r["publicId"].code[h] = h /\ r["secretId"].code[h] = Up(h, 16)
            /\ \A id \in WholeIDs(ids) : r["trainerId"].code[id] = id
<1> DEFINE r == IDParts(cell, ids)
           H == Halves(ids)
           same == Same(H)
           upper == [h \in H |-> Up(h, 16)]
<1>1. /\ DOMAIN r = {"publicId", "secretId", "trainerId"}
      /\ r["publicId"] = Row(cell, 0..15, same, same, Refused)
      /\ r["secretId"] = Row(cell, 16..31, upper, Inverse(upper), Refused)
      /\ r["trainerId"] = Cell(cell, WholeIDs(ids))
  BY DEF IDParts, WholeIDs
<1>2. \A h \in H : h \in SUBSET (0..15) /\ h \in SUBSET Int
  BY HalvesType
<1>3. DOMAIN same = H /\ \A h \in H : same[h] = h
  BY DEF Same
<1>4. DOMAIN upper = H /\ \A h \in H : upper[h] = Up(h, 16) /\ upper[h] \subseteq 16..31
  BY <1>2 DEF Up
<1>5. \A h, k \in H : upper[h] = upper[k] => h = k
  BY <1>2, <1>4, UpIsOneToOne, 16 \in Int
<1>6. \A h \in H : upper[h] \in DOMAIN Inverse(upper) /\ Inverse(upper)[upper[h]] = h
  <2> HIDE DEF upper, H
  <2>1. QED
    BY <1>4, <1>5, InverseIsExact
<1> HIDE DEF r, H, same, upper
<1>7. Sound(r["publicId"]) /\ r["publicId"].cell = cell /\ r["publicId"].mask = 0..15 /\ r["publicId"].code = same
  BY <1>1, <1>2, <1>3 DEF Sound, Exact, Row
<1>8. Sound(r["secretId"]) /\ r["secretId"].cell = cell /\ r["secretId"].mask = 16..31 /\ r["secretId"].code = upper
  BY <1>1, <1>4, <1>6 DEF Sound, Exact, Row
<1>9. /\ Sound(r["trainerId"]) /\ r["trainerId"].cell = cell /\ r["trainerId"].mask = {}
      /\ DOMAIN r["trainerId"].code = WholeIDs(ids)
      /\ \A id \in WholeIDs(ids) : r["trainerId"].code[id] = id
  BY <1>1, PlainIsSound, CellIsExact
<1>10. QED
  BY <1>1, <1>3, <1>4, <1>7, <1>8, <1>9 DEF r, H

(* ... one is read where the other is written. *)
LEMMA IDsAreRead ==
  ASSUME NEW cell, NEW ids, NEW data, data[cell] \in WholeIDs(ids)
  PROVE  LET r == IDParts(cell, ids)
         IN ToldOf(r["trainerId"], data) = ToldOf(r["publicId"], data) \cup Up(ToldOf(r["secretId"], data), 16)
<1> DEFINE r == IDParts(cell, ids)
<1>1. PICK h \in Halves(ids), k \in Halves(ids) : data[cell] = Whole(h, k)
  BY DEF WholeIDs
<1>2. /\ Sound(r["publicId"]) /\ Sound(r["secretId"]) /\ Sound(r["trainerId"])
      /\ r["publicId"].cell = cell /\ r["secretId"].cell = cell /\ r["trainerId"].cell = cell
      /\ r["publicId"].mask = 0..15 /\ r["secretId"].mask = 16..31 /\ r["trainerId"].mask = {}
      /\ h \in DOMAIN r["publicId"].code /\ k \in DOMAIN r["secretId"].code
      /\ data[cell] \in DOMAIN r["trainerId"].code
      /\ r["publicId"].code[h] = h /\ r["secretId"].code[k] = Up(k, 16) /\ r["trainerId"].code[data[cell]] = data[cell]
  BY <1>1, IDPartsAre
<1> HIDE DEF r
<1>3. 0..15 # {} /\ 16..31 # {}
  <2>1. 0 \in 0..15 /\ 16 \in 16..31
    OBVIOUS
  <2>2. QED
    BY <2>1
<1>4. data[cell] \cap (0..15) = h /\ data[cell] \cap (16..31) = Up(k, 16)
  BY <1>1, WholeHasHalves
<1>5. ToldOf(r["publicId"], data) = h
  <2> DEFINE row == r["publicId"]
  <2>1. (IF row.mask = {} THEN data[row.cell] ELSE data[row.cell] \cap row.mask) = row.code[h]
    BY <1>2, <1>3, <1>4
  <2>2. Exact(row, DOMAIN row.code) /\ h \in DOMAIN row.code
    BY <1>2 DEF Sound
  <2> HIDE DEF row
  <2>3. ToldOf(row, data) = h
    BY <2>1, <2>2, CodedIsTold
  <2>4. QED
    BY <2>3 DEF row
<1>6. ToldOf(r["secretId"], data) = k
  <2> DEFINE row == r["secretId"]
  <2>1. (IF row.mask = {} THEN data[row.cell] ELSE data[row.cell] \cap row.mask) = row.code[k]
    BY <1>2, <1>3, <1>4
  <2>2. Exact(row, DOMAIN row.code) /\ k \in DOMAIN row.code
    BY <1>2 DEF Sound
  <2> HIDE DEF row
  <2>3. ToldOf(row, data) = k
    BY <2>1, <2>2, CodedIsTold
  <2>4. QED
    BY <2>3 DEF row
<1>7. ToldOf(r["trainerId"], data) = data[cell]
  <2> DEFINE row == r["trainerId"]
  <2>1. (IF row.mask = {} THEN data[row.cell] ELSE data[row.cell] \cap row.mask) = row.code[data[cell]]
    BY <1>2
  <2>2. Exact(row, DOMAIN row.code) /\ data[cell] \in DOMAIN row.code
    BY <1>2 DEF Sound
  <2> HIDE DEF row
  <2>3. ToldOf(row, data) = data[cell]
    BY <2>1, <2>2, CodedIsTold
  <2>4. QED
    BY <2>3 DEF row
<1>8. QED
  BY <1>1, <1>5, <1>6, <1>7 DEF Whole, r

LEMMA IDsAreStored ==
  ASSUME NEW cell, NEW ids, NEW data, cell \in DOMAIN data, data[cell] \in WholeIDs(ids),
         NEW f \in {"publicId", "secretId", "trainerId"}, NEW v \in DOMAIN IDParts(cell, ids)[f].code
  PROVE  Stored(data, IDParts(cell, ids)[f], v)[cell] \in WholeIDs(ids)
<1> DEFINE r == IDParts(cell, ids)
<1>1. PICK h \in Halves(ids), k \in Halves(ids) : data[cell] = Whole(h, k)
  BY DEF WholeIDs
<1>2. h \in SUBSET (0..15) /\ Up(k, 16) \subseteq 16..31
  <2>1. k \in SUBSET (0..15) /\ h \in SUBSET (0..15)
    BY HalvesType
  <2>2. QED
    BY <2>1 DEF Up
<1>3. 0..15 # {} /\ 16..31 # {} /\ (0..15) \cap (16..31) = {}
  <2>1. 0 \in 0..15 /\ 16 \in 16..31
    OBVIOUS
  <2>2. QED
    BY <2>1
<1>4. CASE f = "publicId"
  <2>1. v \in Halves(ids) /\ r[f].code[v] = v /\ r[f].mask = 0..15 /\ r[f].cell = cell
    BY <1>4, IDPartsAre
  <2> HIDE DEF r
  <2>2. Stored(data, r[f], v)[cell] = (data[cell] \ (0..15)) \cup v
    BY <2>1, <1>3 DEF Stored
  <2>3. Stored(data, r[f], v)[cell] = Whole(v, k)
    BY <2>2, <1>1, <1>2, <1>3 DEF Whole
  <2>4. QED
    BY <2>1, <2>3 DEF WholeIDs, r
<1>5. CASE f = "secretId"
  <2>1. v \in Halves(ids) /\ r[f].code[v] = Up(v, 16) /\ r[f].mask = 16..31 /\ r[f].cell = cell
    BY <1>5, IDPartsAre
  <2> HIDE DEF r
  <2>2. Stored(data, r[f], v)[cell] = (data[cell] \ (16..31)) \cup Up(v, 16)
    BY <2>1, <1>3 DEF Stored
  <2>3. Stored(data, r[f], v)[cell] = Whole(h, v)
    BY <2>2, <1>1, <1>2, <1>3 DEF Whole
  <2>4. QED
    BY <2>1, <2>3 DEF WholeIDs, r
<1>6. CASE f = "trainerId"
  <2>1. v \in WholeIDs(ids) /\ r[f].code[v] = v /\ r[f].mask = {} /\ r[f].cell = cell
    BY <1>6, IDPartsAre
  <2> HIDE DEF r
  <2>2. Stored(data, r[f], v)[cell] = v
    BY <2>1 DEF Stored
  <2>3. QED
    BY <2>1, <2>2 DEF r
<1>7. QED
  BY <1>4, <1>5, <1>6

-----------------------------------------------------------------------------
LEMMA TimeRows ==
  ASSUME NEW max
  PROVE  /\ DOMAIN Time(max) = TimeParts
         /\ Time(max)["hours"] = Plain("hours", max)
         /\ \A part \in TimeParts \ {"hours"} : Time(max)[part] = Plain(part, 59)
BY DEF Time, TimeParts, ++

(* Tables side by side, of which the first that has an entry counts. *)
Two(F, a, b) ==
  /\ DOMAIN F = DOMAIN a \cup DOMAIN b
  /\ \A x \in DOMAIN a : F[x] = a[x]
  /\ \A x \in DOMAIN b \ (DOMAIN a) : F[x] = b[x]

Three(F, a, b, c) ==
  /\ DOMAIN F = DOMAIN a \cup DOMAIN b \cup DOMAIN c
  /\ \A x \in DOMAIN a : F[x] = a[x]
  /\ \A x \in DOMAIN b \ (DOMAIN a) : F[x] = b[x]
  /\ \A x \in DOMAIN c \ (DOMAIN a \cup DOMAIN b) : F[x] = c[x]

Five(F, a, b, c, d, e) ==
  /\ DOMAIN F = DOMAIN a \cup DOMAIN b \cup DOMAIN c \cup DOMAIN d \cup DOMAIN e
  /\ \A x \in DOMAIN a : F[x] = a[x]
  /\ \A x \in DOMAIN b \ (DOMAIN a) : F[x] = b[x]
  /\ \A x \in DOMAIN c \ (DOMAIN a \cup DOMAIN b) : F[x] = c[x]
  /\ \A x \in DOMAIN d \ (DOMAIN a \cup DOMAIN b \cup DOMAIN c) : F[x] = d[x]
  /\ \A x \in DOMAIN e \ (DOMAIN a \cup DOMAIN b \cup DOMAIN c \cup DOMAIN d) : F[x] = e[x]

Seven(F, a, b, c, d, e, g, h) ==
  /\ DOMAIN F = DOMAIN a \cup DOMAIN b \cup DOMAIN c \cup DOMAIN d \cup DOMAIN e \cup DOMAIN g \cup DOMAIN h
  /\ \A x \in DOMAIN a : F[x] = a[x]
  /\ \A x \in DOMAIN b \ (DOMAIN a) : F[x] = b[x]
  /\ \A x \in DOMAIN c \ (DOMAIN a \cup DOMAIN b) : F[x] = c[x]
  /\ \A x \in DOMAIN d \ (DOMAIN a \cup DOMAIN b \cup DOMAIN c) : F[x] = d[x]
  /\ \A x \in DOMAIN e \ (DOMAIN a \cup DOMAIN b \cup DOMAIN c \cup DOMAIN d) : F[x] = e[x]
  /\ \A x \in DOMAIN g \ (DOMAIN a \cup DOMAIN b \cup DOMAIN c \cup DOMAIN d \cup DOMAIN e) : F[x] = g[x]
  /\ \A x \in DOMAIN h \ (DOMAIN a \cup DOMAIN b \cup DOMAIN c \cup DOMAIN d \cup DOMAIN e \cup DOMAIN g) : F[x] = h[x]

LEMMA TwoJoined == \A f, g : Two(f ++ g, f, g)
BY Joined DEF Two

LEMMA ThreeJoined == \A a, b, c : Three(a ++ b ++ c, a, b, c)
<1> SUFFICES ASSUME NEW a, NEW b, NEW c PROVE Three(a ++ b ++ c, a, b, c)
  OBVIOUS
<1> DEFINE ab == a ++ b
           F == ab ++ c
<1>1. Two(ab, a, b) /\ Two(F, ab, c)
  BY TwoJoined
<1> HIDE DEF ab, F
<1>2. Three(F, a, b, c)
  BY <1>1 DEF Two, Three
<1>3. QED
  BY <1>2 DEF ab, F

LEMMA FiveJoined == \A a, b, c, d, e : Five(a ++ b ++ c ++ d ++ e, a, b, c, d, e)
<1> SUFFICES ASSUME NEW a, NEW b, NEW c, NEW d, NEW e PROVE Five(a ++ b ++ c ++ d ++ e, a, b, c, d, e)
  OBVIOUS
<1> DEFINE abc == a ++ b ++ c
           abcd == abc ++ d
           F == abcd ++ e
<1>1. Three(abc, a, b, c) /\ Two(abcd, abc, d) /\ Two(F, abcd, e)
  BY TwoJoined, ThreeJoined
<1> HIDE DEF abc, abcd, F
<1>2. Five(F, a, b, c, d, e)
  BY <1>1 DEF Two, Three, Five
<1>3. QED
  BY <1>2 DEF abc, abcd, F

LEMMA SevenJoined == \A a, b, c, d, e, g, h : Seven(a ++ b ++ c ++ d ++ e ++ g ++ h, a, b, c, d, e, g, h)
<1> SUFFICES ASSUME NEW a, NEW b, NEW c, NEW d, NEW e, NEW g, NEW h
    PROVE Seven(a ++ b ++ c ++ d ++ e ++ g ++ h, a, b, c, d, e, g, h)
  OBVIOUS
<1> DEFINE five == a ++ b ++ c ++ d ++ e
           six == five ++ g
           F == six ++ h
<1>1. Five(five, a, b, c, d, e) /\ Two(six, five, g) /\ Two(F, six, h)
  BY TwoJoined, FiveJoined
<1> HIDE DEF five, six, F
<1>2. Seven(F, a, b, c, d, e, g, h)
  BY <1>1 DEF Two, Five, Seven
<1>3. QED
  BY <1>2 DEF five, six, F

LEMMA IDRows ==
  ASSUME NEW cell, NEW ids
  PROVE  /\ DOMAIN GBID(cell, ids) = {"publicId", "secretId", "trainerId"}
         /\ GBID(cell, ids)["publicId"] = Cell(cell, {Low(id) : id \in ids})
         /\ GBID(cell, ids)["trainerId"] = Cell(cell, {Low(id) : id \in ids})
         /\ GBID(cell, ids)["secretId"] = Absent
BY DEF GBID

(* The byte of the gender, told as the rival's name. *)
RivalByte == Row("p_gender", {}, Same({}), [n \in 0..255 |-> IF n = 0 THEN "MAY" ELSE "BRENDAN"], Refused)

LEMMA Gen1Rows ==
  /\ DOMAIN Gen1Fields = {"hours", "minutes", "seconds", "frames", "name", "publicId", "secretId", "trainerId", "gender", "rivalName", "money", "casinoCoins"}
  /\ Gen1Fields["hours"] = Plain("hours", 65535)
  /\ Gen1Fields["minutes"] = Plain("minutes", 59)
  /\ Gen1Fields["seconds"] = Plain("seconds", 59)
  /\ Gen1Fields["frames"] = Fixed(0)
  /\ Gen1Fields["name"] = Text("p_name", 7)
  /\ Gen1Fields["publicId"] = Cell("p_id", {Low(id) : id \in TrainerIDs})
  /\ Gen1Fields["secretId"] = Absent
  /\ Gen1Fields["trainerId"] = Cell("p_id", {Low(id) : id \in TrainerIDs})
  /\ Gen1Fields["gender"] = Fixed("MALE")
  /\ Gen1Fields["rivalName"] = Text("p_rival_name", 7)
  /\ Gen1Fields["money"] = Decimal("p_money", 3, MaxMoney)
  /\ Gen1Fields["casinoCoins"] = Decimal("p_casino_coins", 2, MaxCoins)
<1>1. /\ DOMAIN Gen1Time = {"hours", "minutes", "seconds", "frames"}
      /\ Gen1Time["hours"] = Plain("hours", 65535)
      /\ Gen1Time["minutes"] = Plain("minutes", 59)
      /\ Gen1Time["seconds"] = Plain("seconds", 59)
      /\ Gen1Time["frames"] = Fixed(0)
  <2> DEFINE one == [frames |-> Fixed(0)]
  <2>1. DOMAIN one = {"frames"} /\ one["frames"] = Fixed(0)
    OBVIOUS
  <2>2. Two(Gen1Time, one, Time(65535))
    BY TwoJoined DEF Gen1Time
  <2> HIDE DEF one
  <2>3. QED
    BY <2>1, <2>2, TimeRows DEF Two, TimeParts
<1>2. /\ DOMAIN Gen1TrainerName = {"name"}
      /\ Gen1TrainerName["name"] = Text("p_name", 7)
  BY DEF Gen1TrainerName
<1>3. /\ DOMAIN Gen1IDs = {"publicId", "secretId", "trainerId", "gender"}
      /\ Gen1IDs["publicId"] = Cell("p_id", {Low(id) : id \in TrainerIDs})
      /\ Gen1IDs["secretId"] = Absent
      /\ Gen1IDs["trainerId"] = Cell("p_id", {Low(id) : id \in TrainerIDs})
      /\ Gen1IDs["gender"] = Fixed("MALE")
  <2> DEFINE one == [gender |-> Fixed("MALE")]
  <2>1. DOMAIN one = {"gender"} /\ one["gender"] = Fixed("MALE")
    OBVIOUS
  <2>2. Two(Gen1IDs, GBID("p_id", TrainerIDs), one)
    BY TwoJoined DEF Gen1IDs
  <2> HIDE DEF one
  <2>3. QED
    BY <2>1, <2>2, IDRows DEF Two
<1>4. /\ DOMAIN Gen1Rival = {"rivalName"}
      /\ Gen1Rival["rivalName"] = Text("p_rival_name", 7)
  BY DEF Gen1Rival
<1>5. /\ DOMAIN Gen1Money = {"money"}
      /\ Gen1Money["money"] = Decimal("p_money", 3, MaxMoney)
  BY DEF Gen1Money
<1>6. /\ DOMAIN Gen1Attributes = {"casinoCoins"}
      /\ Gen1Attributes["casinoCoins"] = Decimal("p_casino_coins", 2, MaxCoins)
  BY DEF Gen1Attributes, Gen1Coins
<1> DEFINE five == Gen1Time ++ Gen1TrainerName ++ Gen1IDs ++ Gen1Rival ++ Gen1Money
<1>7. Five(five, Gen1Time, Gen1TrainerName, Gen1IDs, Gen1Rival, Gen1Money)
  BY FiveJoined
<1>8. Two(Gen1Fields, five, Gen1Attributes)
  BY TwoJoined DEF Gen1Fields
<1> HIDE DEF five
<1>9. /\ DOMAIN five = {"hours", "minutes", "seconds", "frames", "name", "publicId", "secretId", "trainerId", "gender", "rivalName", "money"}
      /\ \A x \in DOMAIN Gen1Time : five[x] = Gen1Time[x]
      /\ \A x \in DOMAIN Gen1TrainerName : five[x] = Gen1TrainerName[x]
      /\ \A x \in DOMAIN Gen1IDs : five[x] = Gen1IDs[x]
      /\ \A x \in DOMAIN Gen1Rival : five[x] = Gen1Rival[x]
      /\ \A x \in DOMAIN Gen1Money : five[x] = Gen1Money[x]
  BY <1>1, <1>2, <1>3, <1>4, <1>5, <1>7 DEF Five
<1>10. /\ DOMAIN Gen1Fields = DOMAIN five \cup DOMAIN Gen1Attributes
       /\ \A x \in DOMAIN five : Gen1Fields[x] = five[x]
       /\ \A x \in DOMAIN Gen1Attributes : Gen1Fields[x] = Gen1Attributes[x]
  BY <1>6, <1>8, <1>9 DEF Two
<1>11. QED
  BY <1>1, <1>2, <1>3, <1>4, <1>5, <1>6, <1>9, <1>10

(* The rows of Generation II; the one of the gender differs. *)
IsGen2(F, gender) ==
  /\ DOMAIN F = {"hours", "minutes", "seconds", "frames", "name", "publicId", "secretId", "trainerId", "gender", "rivalName", "money", "daylightSavings", "moneyWithMom", "casinoCoins"}
  /\ F["hours"] = Plain("hours", 255)
  /\ F["minutes"] = Plain("minutes", 59)
  /\ F["seconds"] = Plain("seconds", 59)
  /\ F["frames"] = Plain("frames", 59)
  /\ F["name"] = Text("p_name", 7)
  /\ F["publicId"] = Cell("p_id", {Low(id) : id \in TrainerIDs})
  /\ F["secretId"] = Absent
  /\ F["trainerId"] = Cell("p_id", {Low(id) : id \in TrainerIDs})
  /\ F["gender"] = gender
  /\ F["rivalName"] = Text("p_rival_name", 7)
  /\ F["money"] = Base256("p_money", 3, MaxMoney)
  /\ F["daylightSavings"] = Bit("p_daylight_savings", 7)
  /\ F["moneyWithMom"] = Decimal("p_money_with_mom", 3, MaxMoney)
  /\ F["casinoCoins"] = Decimal("p_casino_coins", 2, MaxCoins)

LEMMA Gen2Rows ==
  ASSUME NEW type
  PROVE  IsGen2(Gen2Fields(type), Gen2Gender(type)["gender"])
<1>1. /\ DOMAIN Gen2Time = {"hours", "minutes", "seconds", "frames"}
      /\ Gen2Time["hours"] = Plain("hours", 255)
      /\ Gen2Time["minutes"] = Plain("minutes", 59)
      /\ Gen2Time["seconds"] = Plain("seconds", 59)
      /\ Gen2Time["frames"] = Plain("frames", 59)
  BY TimeRows DEF Gen2Time, TimeParts
<1>2. /\ DOMAIN Gen2TrainerName = {"name"}
      /\ Gen2TrainerName["name"] = Text("p_name", 7)
  BY DEF Gen2TrainerName
<1>3. /\ DOMAIN Gen2IDs = {"publicId", "secretId", "trainerId"}
      /\ Gen2IDs["publicId"] = Cell("p_id", {Low(id) : id \in TrainerIDs})
      /\ Gen2IDs["secretId"] = Absent
      /\ Gen2IDs["trainerId"] = Cell("p_id", {Low(id) : id \in TrainerIDs})
  BY IDRows DEF Gen2IDs
<1>4. /\ DOMAIN Gen2Gender(type) = {"gender"}
      /\ Gen2Gender(type)["gender"] = Gen2Gender(type)["gender"]
  BY DEF Gen2Gender
<1>5. /\ DOMAIN Gen2Rival = {"rivalName"}
      /\ Gen2Rival["rivalName"] = Text("p_rival_name", 7)
  BY DEF Gen2Rival
<1>6. /\ DOMAIN Gen2Money = {"money"}
      /\ Gen2Money["money"] = Base256("p_money", 3, MaxMoney)
  BY DEF Gen2Money
<1>7. /\ DOMAIN Gen2Attributes = {"daylightSavings", "moneyWithMom", "casinoCoins"}
      /\ Gen2Attributes["daylightSavings"] = Bit("p_daylight_savings", 7)
      /\ Gen2Attributes["moneyWithMom"] = Decimal("p_money_with_mom", 3, MaxMoney)
      /\ Gen2Attributes["casinoCoins"] = Decimal("p_casino_coins", 2, MaxCoins)
  <2>1. Three(Gen2Attributes, Gen2Summer, Gen2Mom, Gen2Coins)
    BY ThreeJoined DEF Gen2Attributes
  <2>2. DOMAIN Gen2Summer = {"daylightSavings"} /\ Gen2Summer["daylightSavings"] = Bit("p_daylight_savings", 7)
    BY DEF Gen2Summer
  <2>3. DOMAIN Gen2Mom = {"moneyWithMom"} /\ Gen2Mom["moneyWithMom"] = Decimal("p_money_with_mom", 3, MaxMoney)
    BY DEF Gen2Mom
  <2>4. DOMAIN Gen2Coins = {"casinoCoins"} /\ Gen2Coins["casinoCoins"] = Decimal("p_casino_coins", 2, MaxCoins)
    BY DEF Gen2Coins
  <2>5. QED
    BY <2>1, <2>2, <2>3, <2>4 DEF Three
<1>8. Seven(Gen2Fields(type), Gen2Time, Gen2TrainerName, Gen2IDs, Gen2Gender(type), Gen2Rival, Gen2Money, Gen2Attributes)
  BY SevenJoined DEF Gen2Fields
<1>9. QED
  BY <1>1, <1>2, <1>3, <1>4, <1>5, <1>6, <1>7, <1>8 DEF Seven, IsGen2

LEMMA GBARows ==
  ASSUME NEW type
  PROVE  /\ DOMAIN GBAFields(type) = {"hours", "minutes", "seconds", "frames", "name", "publicId", "secretId", "trainerId", "gender", "rivalName", "money", "casinoCoins", "nationalDex"}
         /\ GBAFields(type)["hours"] = Plain("hours", 65535)
         /\ GBAFields(type)["minutes"] = Plain("minutes", 59)
         /\ GBAFields(type)["seconds"] = Plain("seconds", 59)
         /\ GBAFields(type)["frames"] = Plain("frames", 59)
         /\ GBAFields(type)["name"] = Text("p_name", 7)
         /\ GBAFields(type)["publicId"] = IDParts("p_id", TrainerIDs)["publicId"]
         /\ GBAFields(type)["secretId"] = IDParts("p_id", TrainerIDs)["secretId"]
         /\ GBAFields(type)["trainerId"] = IDParts("p_id", TrainerIDs)["trainerId"]
         /\ GBAFields(type)["gender"] = GenderByte("p_gender", {"MALE", "FEMALE"})
         /\ GBAFields(type)["rivalName"] = GBARival(type)["rivalName"]
         /\ GBAFields(type)["money"] = Plain("p_money", MaxMoney)
         /\ GBAFields(type)["casinoCoins"] = Plain("p_casino_coins", MaxCoins)
         /\ GBAFields(type)["nationalDex"] = Cell("p_nat_pokedex_unlockedB", BOOLEAN)
<1>1. /\ DOMAIN GBATime = {"hours", "minutes", "seconds", "frames"}
      /\ GBATime["hours"] = Plain("hours", 65535)
      /\ GBATime["minutes"] = Plain("minutes", 59)
      /\ GBATime["seconds"] = Plain("seconds", 59)
      /\ GBATime["frames"] = Plain("frames", 59)
  BY TimeRows DEF GBATime, TimeParts
<1>2. /\ DOMAIN GBATrainerName = {"name"}
      /\ GBATrainerName["name"] = Text("p_name", 7)
  BY DEF GBATrainerName
<1>3. /\ DOMAIN GBAIDs = {"publicId", "secretId", "trainerId"}
      /\ GBAIDs["publicId"] = IDParts("p_id", TrainerIDs)["publicId"]
      /\ GBAIDs["secretId"] = IDParts("p_id", TrainerIDs)["secretId"]
      /\ GBAIDs["trainerId"] = IDParts("p_id", TrainerIDs)["trainerId"]
  BY IDPartsAre DEF GBAIDs
<1>4. /\ DOMAIN GBAGender = {"gender"}
      /\ GBAGender["gender"] = GenderByte("p_gender", {"MALE", "FEMALE"})
  BY DEF GBAGender
<1>5. /\ DOMAIN GBARival(type) = {"rivalName"}
      /\ GBARival(type)["rivalName"] = GBARival(type)["rivalName"]
  BY DEF GBARival
<1>6. /\ DOMAIN GBAMoney = {"money"}
      /\ GBAMoney["money"] = Plain("p_money", MaxMoney)
  BY DEF GBAMoney
<1>7. /\ DOMAIN GBAAttributes = {"casinoCoins", "nationalDex"}
      /\ GBAAttributes["casinoCoins"] = Plain("p_casino_coins", MaxCoins)
      /\ GBAAttributes["nationalDex"] = Cell("p_nat_pokedex_unlockedB", BOOLEAN)
  <2>1. Two(GBAAttributes, GBACoins, GBADex)
    BY TwoJoined DEF GBAAttributes
  <2>2. DOMAIN GBACoins = {"casinoCoins"} /\ GBACoins["casinoCoins"] = Plain("p_casino_coins", MaxCoins)
    BY DEF GBACoins
  <2>3. DOMAIN GBADex = {"nationalDex"} /\ GBADex["nationalDex"] = Cell("p_nat_pokedex_unlockedB", BOOLEAN)
    BY DEF GBADex
  <2>4. QED
    BY <2>1, <2>2, <2>3 DEF Two
<1>8. Seven(GBAFields(type), GBATime, GBATrainerName, GBAIDs, GBAGender, GBARival(type), GBAMoney, GBAAttributes)
  BY SevenJoined DEF GBAFields
<1>9. QED
  BY <1>1, <1>2, <1>3, <1>4, <1>5, <1>6, <1>7, <1>8 DEF Seven

LEMMA GCNRows ==
  /\ DOMAIN GCNFields = {"hours", "minutes", "seconds", "frames", "name", "publicId", "secretId", "trainerId", "gender", "rivalName", "money"}
  /\ GCNFields["hours"] = Absent
  /\ GCNFields["minutes"] = Absent
  /\ GCNFields["seconds"] = Absent
  /\ GCNFields["frames"] = Absent
  /\ GCNFields["name"] = Text("trainerName", 7)
  /\ GCNFields["publicId"] = IDParts("TID_SID", TrainerIDs)["publicId"]
  /\ GCNFields["secretId"] = IDParts("TID_SID", TrainerIDs)["secretId"]
  /\ GCNFields["trainerId"] = IDParts("TID_SID", TrainerIDs)["trainerId"]
  /\ GCNFields["gender"] = GenderByte("trainerGender", {})
  /\ GCNFields["rivalName"] = Absent
  /\ GCNFields["money"] = Plain("pokeDollars", MaxMoney)
<1>1. /\ DOMAIN GCNTime = {"hours", "minutes", "seconds", "frames"}
      /\ GCNTime["hours"] = Absent
      /\ GCNTime["minutes"] = Absent
      /\ GCNTime["seconds"] = Absent
      /\ GCNTime["frames"] = Absent
  BY DEF GCNTime, Without, TimeParts
<1>2. /\ DOMAIN GCNTrainerName = {"name"}
      /\ GCNTrainerName["name"] = Text("trainerName", 7)
  BY DEF GCNTrainerName
<1>3. /\ DOMAIN GCNIDs = {"publicId", "secretId", "trainerId"}
      /\ GCNIDs["publicId"] = IDParts("TID_SID", TrainerIDs)["publicId"]
      /\ GCNIDs["secretId"] = IDParts("TID_SID", TrainerIDs)["secretId"]
      /\ GCNIDs["trainerId"] = IDParts("TID_SID", TrainerIDs)["trainerId"]
  BY IDPartsAre DEF GCNIDs
<1>4. /\ DOMAIN GCNGender = {"gender", "rivalName"}
      /\ GCNGender["gender"] = GenderByte("trainerGender", {})
      /\ GCNGender["rivalName"] = Absent
  BY DEF GCNGender
<1>5. /\ DOMAIN GCNMoney = {"money"}
      /\ GCNMoney["money"] = Plain("pokeDollars", MaxMoney)
  BY DEF GCNMoney
<1>6. Five(GCNFields, GCNTime, GCNTrainerName, GCNIDs, GCNGender, GCNMoney)
  BY FiveJoined DEF GCNFields
<1>7. QED
  BY <1>1, <1>2, <1>3, <1>4, <1>5, <1>6 DEF Five

-----------------------------------------------------------------------------
IDFields == {"publicId", "secretId", "trainerId"}
RivalTypes == {"RUBY_SAPPHIRE", "EMERALD"}

(* What a type's rows have to be for its card to be kept.                  *)
TimeIsOrderly(F) ==
  \/ \A part \in TimeParts : F[part] = Absent
  \/ \A part \in TimeParts : F[part] = Fixed(0) \/ \E max \in Nat : F[part] = Plain(part, max)

Orderly(F, type) ==
  /\ TimeParts \cup IDFields \cup {"gender", "rivalName"} \subseteq DOMAIN F
  /\ \A f \in DOMAIN F : Sound(F[f])
  /\ \A f, g \in DOMAIN F :
       \/ f = g \/ {f, g} \subseteq IDFields \/ F[f].cell # F[g].cell
       \/ DOMAIN F[f].code = {} \/ DOMAIN F[g].told = {}
       \/ f = "gender" /\ g = "rivalName" /\ type \in RivalTypes
  /\ TimeIsOrderly(F)

LEMMA RowKinds ==
  /\ \A cell, max : Sound(Plain(cell, max)) /\ Plain(cell, max).cell = cell /\ Plain(cell, max).mask = {}
  /\ \A cell, max : Sound(Text(cell, max)) /\ Text(cell, max).cell = cell /\ Text(cell, max).mask = {}
  /\ \A cell, values : Sound(Cell(cell, values)) /\ Cell(cell, values).cell = cell /\ Cell(cell, values).mask = {}
  /\ \A value : /\ Sound(Fixed(value)) /\ Fixed(value).cell = "none"
                /\ DOMAIN Fixed(value).code = {} /\ DOMAIN Fixed(value).told = {}
  /\ Sound(Absent) /\ Absent.cell = "none" /\ DOMAIN Absent.code = {} /\ DOMAIN Absent.told = {}
  /\ \A cell : /\ Sound(Decimal(cell, 3, MaxMoney)) /\ Sound(Decimal(cell, 2, MaxCoins)) /\ Sound(Base256(cell, 3, MaxMoney))
               /\ Decimal(cell, 3, MaxMoney).cell = cell /\ Decimal(cell, 2, MaxCoins).cell = cell
               /\ Base256(cell, 3, MaxMoney).cell = cell
<1>1. \A cell, max : Plain(cell, max) = Cell(cell, Within(max))
  BY DEF Plain
<1>2. Absent = Fixed(Refused)
  BY DEF Absent
<1>3. \A cell, values : Sound(Cell(cell, values)) /\ Cell(cell, values).cell = cell /\ Cell(cell, values).mask = {}
  BY PlainIsSound
<1>4. \A value : /\ Sound(Fixed(value)) /\ Fixed(value).cell = "none"
                 /\ DOMAIN Fixed(value).code = {} /\ DOMAIN Fixed(value).told = {}
  BY FixedIsSound
<1>5. QED
  BY <1>1, <1>2, <1>3, <1>4, TextIsSound, MoneyIsSound

(* The Gen1 games. *)
LEMMA Gen1IsOrderly ==
  /\ Orderly(Gen1Fields, "RED_BLUE")
  /\ \A f \in DOMAIN Gen1Fields : Gen1Fields[f].cell # "p_pikachu_friendship"
<1> DEFINE F == Gen1Fields
<1>1. /\ DOMAIN F = {"hours", "minutes", "seconds", "frames", "name", "publicId", "secretId", "trainerId", "gender",
                     "rivalName", "money", "casinoCoins"}
      /\ F["hours"].cell = "hours" /\ F["minutes"].cell = "minutes" /\ F["seconds"].cell = "seconds"
      /\ F["frames"].cell = "none" /\ F["name"].cell = "p_name" /\ F["publicId"].cell = "p_id"
      /\ F["secretId"].cell = "none" /\ F["trainerId"].cell = "p_id" /\ F["gender"].cell = "none"
      /\ F["rivalName"].cell = "p_rival_name" /\ F["money"].cell = "p_money" /\ F["casinoCoins"].cell = "p_casino_coins"
      /\ \A f \in {"frames", "secretId", "gender"} : DOMAIN F[f].code = {} /\ DOMAIN F[f].told = {}
  BY Gen1Rows, RowKinds
<1>2. \A f \in DOMAIN F : Sound(F[f])
  BY Gen1Rows, RowKinds
<1>3. TimeIsOrderly(F)
  <2>1. F["hours"] = Plain("hours", 65535) /\ F["minutes"] = Plain("minutes", 59)
        /\ F["seconds"] = Plain("seconds", 59) /\ F["frames"] = Fixed(0)
    BY Gen1Rows
  <2>2. 65535 \in Nat /\ 59 \in Nat
    OBVIOUS
  <2> HIDE DEF F
  <2>3. QED
    BY <2>1, <2>2 DEF TimeIsOrderly, TimeParts
<1> HIDE DEF F
<1>4. \A f \in DOMAIN F : F[f].cell # "p_pikachu_friendship"
  BY <1>1
<1>5. \A f, g \in DOMAIN F :
       \/ f = g \/ {f, g} \subseteq IDFields \/ F[f].cell # F[g].cell
       \/ DOMAIN F[f].code = {} \/ DOMAIN F[g].told = {}
  BY <1>1 DEF IDFields
<1>6. TimeParts \cup IDFields \cup {"gender", "rivalName"} \subseteq DOMAIN F
  BY <1>1 DEF TimeParts, IDFields
<1>7. QED
  BY <1>2, <1>3, <1>4, <1>5, <1>6 DEF Orderly, F

LEMMA YellowIsOrderly == Orderly(Fields["YELLOW"], "YELLOW")
<1> DEFINE F == Fields["YELLOW"]
<1>1. Two(F, Gen1Fields, Gen1Pikachu)
  BY TwoJoined DEF Fields
<1>2. /\ DOMAIN Gen1Pikachu = {"pikachuFriendship"}
      /\ Gen1Pikachu["pikachuFriendship"] = Plain("p_pikachu_friendship", 255)
  BY DEF Gen1Pikachu
<1>3. /\ Sound(Gen1Pikachu["pikachuFriendship"]) /\ Gen1Pikachu["pikachuFriendship"].cell = "p_pikachu_friendship"
  BY <1>2, RowKinds
<1>4. /\ Orderly(Gen1Fields, "RED_BLUE")
      /\ \A f \in DOMAIN Gen1Fields : Gen1Fields[f].cell # "p_pikachu_friendship"
      /\ "pikachuFriendship" \notin DOMAIN Gen1Fields
  BY Gen1IsOrderly, Gen1Rows
<1> HIDE DEF F
<1>5. /\ DOMAIN F = DOMAIN Gen1Fields \cup {"pikachuFriendship"}
      /\ \A f \in DOMAIN Gen1Fields : F[f] = Gen1Fields[f]
      /\ F["pikachuFriendship"] = Gen1Pikachu["pikachuFriendship"]
  BY <1>1, <1>2, <1>4 DEF Two
<1>6. TimeIsOrderly(F)
  <2>1. TimeParts \subseteq DOMAIN Gen1Fields /\ TimeIsOrderly(Gen1Fields)
    BY <1>4 DEF Orderly
  <2>2. QED
    BY <2>1, <1>5 DEF TimeIsOrderly
<1>7. \A f \in DOMAIN F : Sound(F[f])
  BY <1>3, <1>4, <1>5 DEF Orderly
<1>8. \A f, g \in DOMAIN Gen1Fields :
       \/ f = g \/ {f, g} \subseteq IDFields \/ F[f].cell # F[g].cell
       \/ DOMAIN F[f].code = {} \/ DOMAIN F[g].told = {}
  BY <1>4, <1>5 DEF Orderly, RivalTypes
<1>9. \A f, g \in DOMAIN F :
       \/ f = g \/ {f, g} \subseteq IDFields \/ F[f].cell # F[g].cell
       \/ DOMAIN F[f].code = {} \/ DOMAIN F[g].told = {}
  BY <1>3, <1>4, <1>5, <1>8
<1>10. QED
  BY <1>4, <1>5, <1>6, <1>7, <1>9 DEF Orderly, F

LEMMA Gen2IsOrderly ==
  ASSUME NEW type \in {"GOLD_SILVER", "CRYSTAL"}
  PROVE  Orderly(Gen2Fields(type), type)
<1> DEFINE F == Gen2Fields(type)
<1>0. /\ Sound(Gen2Gender(type)["gender"])
      /\ Gen2Gender(type)["gender"].cell \in {"none", "p_gender"}
      /\ Sound(Bit("p_daylight_savings", 7)) /\ Bit("p_daylight_savings", 7).cell = "p_daylight_savings"
  <2>1. 7 \in Int /\ {"MALE", "FEMALE"} \in SUBSET {"MALE", "FEMALE"}
    OBVIOUS
  <2>2. Sound(Bit("p_daylight_savings", 7)) /\ Bit("p_daylight_savings", 7).cell = "p_daylight_savings"
    BY <2>1, BitIsSound, Zenon
  <2>3. /\ Sound(GenderByte("p_gender", {"MALE", "FEMALE"}))
        /\ GenderByte("p_gender", {"MALE", "FEMALE"}).cell = "p_gender"
    BY <2>1, GenderByteIsSound
  <2>4. Gen2Gender(type)["gender"] \in {GenderByte("p_gender", {"MALE", "FEMALE"}), Fixed("MALE")}
    BY DEF Gen2Gender
  <2>5. QED
    BY <2>2, <2>3, <2>4, RowKinds
<1> HIDE DEF F
<1>rows. IsGen2(F, Gen2Gender(type)["gender"])
  BY Gen2Rows DEF F
<1>1. /\ DOMAIN F = {"hours", "minutes", "seconds", "frames", "name", "publicId", "secretId", "trainerId", "gender", "rivalName", "money", "daylightSavings", "moneyWithMom", "casinoCoins"}
      /\ F["hours"].cell = "hours"
      /\ F["minutes"].cell = "minutes"
      /\ F["seconds"].cell = "seconds"
      /\ F["frames"].cell = "frames"
      /\ F["name"].cell = "p_name"
      /\ F["publicId"].cell = "p_id"
      /\ F["secretId"].cell = "none"
      /\ F["trainerId"].cell = "p_id"
      /\ F["gender"].cell = Gen2Gender(type)["gender"].cell
      /\ F["rivalName"].cell = "p_rival_name"
      /\ F["money"].cell = "p_money"
      /\ F["daylightSavings"].cell = "p_daylight_savings"
      /\ F["moneyWithMom"].cell = "p_money_with_mom"
      /\ F["casinoCoins"].cell = "p_casino_coins"
      /\ \A f \in {"secretId"} : DOMAIN F[f].code = {} /\ DOMAIN F[f].told = {}
  BY <1>rows, RowKinds, <1>0 DEF IsGen2
<1>2. \A f \in DOMAIN F : Sound(F[f])
  BY <1>rows, RowKinds, <1>0 DEF IsGen2
<1>3. TimeIsOrderly(F)
  <2>1. F["hours"] = Plain("hours", 255) /\ \A part \in {"minutes", "seconds", "frames"} : F[part] = Plain(part, 59)
    BY <1>rows DEF IsGen2
  <2>2. 255 \in Nat /\ 59 \in Nat
    OBVIOUS
  <2> HIDE DEF F
  <2>3. QED
    BY <2>1, <2>2 DEF TimeIsOrderly, TimeParts
<1> HIDE DEF F
<1>4. \A f, g \in DOMAIN F :
       \/ f = g \/ {f, g} \subseteq IDFields \/ F[f].cell # F[g].cell
       \/ DOMAIN F[f].code = {} \/ DOMAIN F[g].told = {}
  BY <1>0, <1>1 DEF IDFields
<1>5. TimeParts \cup IDFields \cup {"gender", "rivalName"} \subseteq DOMAIN F
  BY <1>1 DEF TimeParts, IDFields
<1>6. QED
  BY <1>2, <1>3, <1>4, <1>5 DEF Orderly, F

LEMMA GBAIsOrderly ==
  ASSUME NEW type \in GBATypes
  PROVE  /\ Orderly(GBAFields(type), type)
         /\ \A f \in DOMAIN GBAFields(type) : GBAFields(type)[f].cell # "TID_SID"
<1> DEFINE F == GBAFields(type)
<1>0. /\ Sound(GBARival(type)["rivalName"])
      /\ GBARival(type)["rivalName"].cell = IF type \in RivalTypes THEN "p_gender" ELSE "p_rival_name"
      /\ type \in RivalTypes => DOMAIN GBARival(type)["rivalName"].code = {}
      /\ Sound(GenderByte("p_gender", {"MALE", "FEMALE"}))
      /\ GenderByte("p_gender", {"MALE", "FEMALE"}).cell = "p_gender"
      /\ \A f \in IDFields : /\ Sound(IDParts("p_id", TrainerIDs)[f])
                             /\ IDParts("p_id", TrainerIDs)[f].cell = "p_id"
  <2>1. {"MALE", "FEMALE"} \in SUBSET {"MALE", "FEMALE"}
    OBVIOUS
  <2>2. /\ Sound(GenderByte("p_gender", {"MALE", "FEMALE"}))
        /\ GenderByte("p_gender", {"MALE", "FEMALE"}).cell = "p_gender"
    BY <2>1, GenderByteIsSound
  <2>3. CASE type \in RivalTypes
    <3> DEFINE told == [n \in 0..255 |-> IF n = 0 THEN "MAY" ELSE "BRENDAN"]
               row == Row("p_gender", {}, Same({}), told, Refused)
    <3>1. GBARival(type)["rivalName"] = row
      BY <2>3 DEF GBARival, RivalTypes
    <3> HIDE DEF told
    <3>2. Sound(row) /\ row.cell = "p_gender" /\ DOMAIN row.code = {}
      BY DEF Sound, Exact, Row, Same
    <3> HIDE DEF row
    <3>3. QED
      BY <2>2, <2>3, <3>1, <3>2, IDPartsAre DEF IDFields
  <2>4. CASE type \notin RivalTypes
    <3>1. GBARival(type)["rivalName"] = Text("p_rival_name", 7)
      BY <2>4 DEF GBARival, RivalTypes, GBATypes
    <3>2. QED
      BY <2>2, <2>4, <3>1, RowKinds, IDPartsAre DEF IDFields
  <2>5. QED
    BY <2>3, <2>4
<1>1. /\ DOMAIN F = {"hours", "minutes", "seconds", "frames", "name", "publicId", "secretId", "trainerId", "gender", "rivalName", "money", "casinoCoins", "nationalDex"}
      /\ F["hours"].cell = "hours"
      /\ F["minutes"].cell = "minutes"
      /\ F["seconds"].cell = "seconds"
      /\ F["frames"].cell = "frames"
      /\ F["name"].cell = "p_name"
      /\ F["publicId"].cell = "p_id"
      /\ F["secretId"].cell = "p_id"
      /\ F["trainerId"].cell = "p_id"
      /\ F["gender"].cell = "p_gender"
      /\ F["rivalName"].cell = GBARival(type)["rivalName"].cell
      /\ F["money"].cell = "p_money"
      /\ F["casinoCoins"].cell = "p_casino_coins"
      /\ F["nationalDex"].cell = "p_nat_pokedex_unlockedB"
  BY GBARows, RowKinds, <1>0 DEF IDFields
<1>2. \A f \in DOMAIN F : Sound(F[f])
  BY GBARows, RowKinds, <1>0 DEF IDFields
<1>3. TimeIsOrderly(F)
  <2>1. F["hours"] = Plain("hours", 65535) /\ \A part \in {"minutes", "seconds", "frames"} : F[part] = Plain(part, 59)
    BY GBARows
  <2>2. 65535 \in Nat /\ 59 \in Nat
    OBVIOUS
  <2> HIDE DEF F
  <2>3. QED
    BY <2>1, <2>2 DEF TimeIsOrderly, TimeParts
<1>4. F["rivalName"] = GBARival(type)["rivalName"]
  BY GBARows
<1> HIDE DEF F
<1>5. \A f, g \in DOMAIN F :
       \/ f = g \/ {f, g} \subseteq IDFields \/ F[f].cell # F[g].cell
       \/ DOMAIN F[f].code = {} \/ DOMAIN F[g].told = {}
       \/ f = "gender" /\ g = "rivalName" /\ type \in RivalTypes
  BY <1>0, <1>1, <1>4 DEF IDFields
<1>6. TimeParts \cup IDFields \cup {"gender", "rivalName"} \subseteq DOMAIN F
  BY <1>1 DEF TimeParts, IDFields
<1>7. \A f \in DOMAIN F : F[f].cell # "TID_SID"
  BY <1>0, <1>1
<1>8. QED
  BY <1>2, <1>3, <1>5, <1>6, <1>7 DEF Orderly, F

LEMMA GCNIsOrderly ==
  ASSUME NEW type \in {"COLOSSEUM", "XD"}
  PROVE  Orderly(GCNFields, type)
<1> DEFINE F == GCNFields
<1>0. /\ Sound(GenderByte("trainerGender", {})) /\ GenderByte("trainerGender", {}).cell = "trainerGender"
      /\ \A f \in IDFields : /\ Sound(IDParts("TID_SID", TrainerIDs)[f])
                             /\ IDParts("TID_SID", TrainerIDs)[f].cell = "TID_SID"
  <2>1. {} \in SUBSET {"MALE", "FEMALE"}
    OBVIOUS
  <2>2. QED
    BY <2>1, GenderByteIsSound, IDPartsAre DEF IDFields
<1>1. /\ DOMAIN F = {"hours", "minutes", "seconds", "frames", "name", "publicId", "secretId", "trainerId", "gender", "rivalName", "money"}
      /\ F["hours"].cell = "none"
      /\ F["minutes"].cell = "none"
      /\ F["seconds"].cell = "none"
      /\ F["frames"].cell = "none"
      /\ F["name"].cell = "trainerName"
      /\ F["publicId"].cell = "TID_SID"
      /\ F["secretId"].cell = "TID_SID"
      /\ F["trainerId"].cell = "TID_SID"
      /\ F["gender"].cell = "trainerGender"
      /\ F["rivalName"].cell = "none"
      /\ F["money"].cell = "pokeDollars"
      /\ \A f \in {"hours", "minutes", "seconds", "frames", "rivalName"} : DOMAIN F[f].code = {} /\ DOMAIN F[f].told = {}
  BY GCNRows, RowKinds, <1>0 DEF IDFields
<1>2. \A f \in DOMAIN F : Sound(F[f])
  BY GCNRows, RowKinds, <1>0 DEF IDFields
<1>3. TimeIsOrderly(F)
  BY GCNRows DEF TimeIsOrderly, TimeParts
<1> HIDE DEF F
<1>4. \A f, g \in DOMAIN F :
       \/ f = g \/ {f, g} \subseteq IDFields \/ F[f].cell # F[g].cell
       \/ DOMAIN F[f].code = {} \/ DOMAIN F[g].told = {}
  BY <1>1 DEF IDFields
<1>5. TimeParts \cup IDFields \cup {"gender", "rivalName"} \subseteq DOMAIN F
  BY <1>1 DEF TimeParts, IDFields
<1>6. QED
  BY <1>2, <1>3, <1>4, <1>5 DEF Orderly, F

LEMMA EveryTypeIsOrderly == \A type \in SaveTypes : Orderly(Fields[type], type)
<1>1. /\ Fields["RED_BLUE"] = Gen1Fields
      /\ \A type \in {"GOLD_SILVER", "CRYSTAL"} : Fields[type] = Gen2Fields(type)
      /\ \A type \in GBATypes : Fields[type] = GBAFields(type)
      /\ \A type \in {"COLOSSEUM", "XD"} : Fields[type] = GCNFields
  BY DEF Fields, GBATypes
<1>2. SUFFICES ASSUME NEW type \in SaveTypes PROVE Orderly(Fields[type], type)
  OBVIOUS
<1>3. CASE type = "RED_BLUE"
  BY <1>1, <1>3, Gen1IsOrderly
<1>4. CASE type = "YELLOW"
  BY <1>4, YellowIsOrderly
<1>5. CASE type \in {"GOLD_SILVER", "CRYSTAL"}
  BY <1>1, <1>5, Gen2IsOrderly
<1>6. CASE type \in GBATypes
  BY <1>1, <1>6, GBAIsOrderly
<1>7. CASE type \in {"COLOSSEUM", "XD"}
  BY <1>1, <1>7, GCNIsOrderly
<1>8. QED
  BY <1>3, <1>4, <1>5, <1>6, <1>7 DEF SaveTypes

-----------------------------------------------------------------------------
WithHalves == GBATypes \cup {"COLOSSEUM", "XD"}
IDCell(type) == IF type \in GBATypes THEN "p_id" ELSE "TID_SID"

CellsOf(type) == {Fields[type][f].cell : f \in DOMAIN Fields[type]}

(* The buffer has the cells of the save's type; an ID is two halves.       *)
CardInv ==
  /\ saveType \in SaveTypes
  /\ DOMAIN card = CellsOf(saveType)
  /\ saveType \in WithHalves => card[IDCell(saveType)] \in WholeIDs(TrainerIDs)

LEMMA IDsOfTypes ==
  /\ \A type \in SaveTypes \ WithHalves : Fields[type]["publicId"] = Fields[type]["trainerId"]
  /\ \A type \in WithHalves : \A f \in IDFields : Fields[type][f] = IDParts(IDCell(type), TrainerIDs)[f]
<1>1. /\ Fields["RED_BLUE"] = Gen1Fields /\ Fields["YELLOW"] = Gen1Fields ++ Gen1Pikachu
      /\ \A type \in {"GOLD_SILVER", "CRYSTAL"} : Fields[type] = Gen2Fields(type)
      /\ \A type \in GBATypes : Fields[type] = GBAFields(type)
      /\ \A type \in {"COLOSSEUM", "XD"} : Fields[type] = GCNFields
  BY DEF Fields, GBATypes
<1>2. Gen1Fields["publicId"] = Gen1Fields["trainerId"] /\ {"publicId", "trainerId"} \subseteq DOMAIN Gen1Fields
  BY Gen1Rows
<1>3. Fields["YELLOW"]["publicId"] = Fields["YELLOW"]["trainerId"]
  <2>1. Two(Fields["YELLOW"], Gen1Fields, Gen1Pikachu)
    BY <1>1, TwoJoined
  <2>2. QED
    BY <1>2, <2>1 DEF Two
<1>4. \A type : Gen2Fields(type)["publicId"] = Gen2Fields(type)["trainerId"]
  BY Gen2Rows DEF IsGen2
<1>5. \A type \in SaveTypes \ WithHalves : type \in {"RED_BLUE", "YELLOW", "GOLD_SILVER", "CRYSTAL"}
  BY DEF SaveTypes, WithHalves
<1>6. \A type \in GBATypes : \A f \in IDFields : GBAFields(type)[f] = IDParts("p_id", TrainerIDs)[f]
  BY GBARows DEF IDFields
<1>7. \A f \in IDFields : GCNFields[f] = IDParts("TID_SID", TrainerIDs)[f]
  BY GCNRows DEF IDFields
<1>8. \A type \in {"COLOSSEUM", "XD"} : type \notin GBATypes
  BY DEF GBATypes
<1>9. \A type \in WithHalves : \A f \in IDFields : Fields[type][f] = IDParts(IDCell(type), TrainerIDs)[f]
  BY <1>1, <1>6, <1>7, <1>8 DEF WithHalves, IDCell
<1>10. \A type \in SaveTypes \ WithHalves : Fields[type]["publicId"] = Fields[type]["trainerId"]
  BY <1>1, <1>2, <1>3, <1>4, <1>5
<1>11. QED
  BY <1>9, <1>10

(* What the IDs' rows of a type with halves are. *)
LEMMA IDFacts ==
  ASSUME NEW type \in WithHalves
  PROVE  LET F == Fields[type]
         IN /\ type \in SaveTypes /\ Orderly(F, type) /\ IDFields \subseteq DOMAIN F
            /\ \A f \in IDFields : F[f] = IDParts(IDCell(type), TrainerIDs)[f] /\ F[f].cell = IDCell(type)
            /\ F["publicId"].mask # {} /\ F["secretId"].mask # {} /\ F["trainerId"].mask = {}
            /\ DOMAIN F["trainerId"].code = WholeIDs(TrainerIDs)
            /\ \A id \in WholeIDs(TrainerIDs) : F["trainerId"].code[id] = id
            /\ WholeIDs(TrainerIDs) # {} /\ DOMAIN F["trainerId"].told # {}
<1> DEFINE F == Fields[type]
<1>1. type \in SaveTypes
  BY DEF WithHalves, SaveTypes
<1>2. Orderly(F, type) /\ IDFields \subseteq DOMAIN F
  BY <1>1, EveryTypeIsOrderly DEF Orderly
<1>3. \A f \in IDFields : F[f] = IDParts(IDCell(type), TrainerIDs)[f]
  BY IDsOfTypes
<1> HIDE DEF F
<1>4. /\ \A f \in IDFields : F[f].cell = IDCell(type)
      /\ F["publicId"].mask = 0..15 /\ F["secretId"].mask = 16..31 /\ F["trainerId"].mask = {}
      /\ DOMAIN F["trainerId"].code = WholeIDs(TrainerIDs)
      /\ \A id \in WholeIDs(TrainerIDs) : F["trainerId"].code[id] = id
  BY <1>3, IDPartsAre DEF IDFields
<1>5. 0..15 # {} /\ 16..31 # {}
  <2>1. 0 \in 0..15 /\ 16 \in 16..31
    OBVIOUS
  <2>2. QED
    BY <2>1
<1>6. WholeIDs(TrainerIDs) # {}
  <2>1. PICK id \in TrainerIDs : TRUE
    BY CardAssumption
  <2>2. Low(id) \in Halves(TrainerIDs)
    BY DEF Halves
  <2>3. QED
    BY <2>2 DEF WholeIDs
<1>7. DOMAIN F["trainerId"].told # {}
  <2>1. PICK id \in WholeIDs(TrainerIDs) : TRUE
    BY <1>6
  <2>2. Sound(F["trainerId"])
    BY <1>2 DEF Orderly, IDFields
  <2>3. QED
    BY <1>4, <2>1, <2>2 DEF Sound, Exact
<1>8. QED
  BY <1>1, <1>2, <1>3, <1>4, <1>5, <1>6, <1>7 DEF F

(* No other row has the cell of the IDs. *)
LEMMA IDCellIsTheirs ==
  ASSUME NEW type \in WithHalves, NEW f \in DOMAIN Fields[type], DOMAIN Fields[type][f].code # {},
         Fields[type][f].cell = IDCell(type)
  PROVE  f \in IDFields
<1> DEFINE F == Fields[type]
<1>1. /\ Orderly(F, type) /\ "trainerId" \in DOMAIN F /\ F["trainerId"].cell = IDCell(type)
      /\ DOMAIN F["trainerId"].told # {} /\ f \in DOMAIN F /\ DOMAIN F[f].code # {} /\ F[f].cell = IDCell(type)
  BY IDFacts DEF IDFields
<1> HIDE DEF F
<1>2. f = "trainerId" \/ {f, "trainerId"} \subseteq IDFields
  BY <1>1 DEF Orderly
<1>3. QED
  BY <1>2 DEF IDFields

LEMMA StartIsRight ==
  ASSUME NEW type \in SaveTypes, NEW byte
  PROVE  /\ DOMAIN StartOf(type, byte) = CellsOf(type)
         /\ type \in WithHalves => StartOf(type, byte)[IDCell(type)] \in WholeIDs(TrainerIDs)
<1>1. DOMAIN StartOf(type, byte) = CellsOf(type)
  BY DEF StartOf, CellsOf
<1>2. SUFFICES ASSUME type \in WithHalves
      PROVE  StartOf(type, byte)[IDCell(type)] \in WholeIDs(TrainerIDs)
  BY <1>1
<1> DEFINE F == Fields[type]
           cell == IDCell(type)
           whole == {f \in DOMAIN F : F[f].cell = cell /\ F[f].mask = {} /\ DOMAIN F[f].code # {}}
<1>3. whole = {"trainerId"}
  <2>1. /\ "trainerId" \in DOMAIN F /\ F["trainerId"].cell = cell /\ F["trainerId"].mask = {}
        /\ DOMAIN F["trainerId"].code # {} /\ F["publicId"].mask # {} /\ F["secretId"].mask # {}
    BY <1>2, IDFacts DEF IDFields
  <2>2. \A f \in whole : f \in IDFields
    BY <1>2, IDCellIsTheirs
  <2> HIDE DEF F, cell
  <2>3. \A f \in whole : f = "trainerId"
    BY <2>1, <2>2 DEF IDFields
  <2>4. QED
    BY <2>1, <2>3
<1>4. cell \in {F[f].cell : f \in DOMAIN F} /\ cell \notin {"p_gender", "trainerGender"}
  <2>1. "trainerId" \in DOMAIN F /\ F["trainerId"].cell = cell
    BY <1>2, IDFacts DEF IDFields
  <2>2. QED
    BY <2>1 DEF IDCell
<1>5. StartOf(type, byte)[cell] = Start(type, cell)
  BY <1>4 DEF StartOf
<1> DEFINE row == F["trainerId"]
           all == {row.code[v] : v \in DOMAIN row.code}
<1>6. Start(type, cell) = CHOOSE s \in all : TRUE
  <2>1. (CHOOSE f \in whole : TRUE) = "trainerId" /\ whole # {}
    BY <1>3
  <2>2. QED
    BY <2>1 DEF Start
<1>7. all = WholeIDs(TrainerIDs) /\ all # {}
  <2>1. /\ DOMAIN row.code = WholeIDs(TrainerIDs) /\ WholeIDs(TrainerIDs) # {}
        /\ \A id \in WholeIDs(TrainerIDs) : row.code[id] = id
    BY <1>2, IDFacts
  <2> HIDE DEF row
  <2>2. QED
    BY <2>1
<1> HIDE DEF all
<1>8. QED
  BY <1>5, <1>6, <1>7

-----------------------------------------------------------------------------
(* The first of at most four. *)
LEMMA FirstOfFour ==
  ASSUME NEW S \in SUBSET (1..4), S # {}
  PROVE  \E i \in S : \A j \in S : i <= j
<1>1. CASE 1 \in S
  BY <1>1
<1>2. CASE 1 \notin S /\ 2 \in S
  BY <1>2
<1>3. CASE 1 \notin S /\ 2 \notin S /\ 3 \in S
  BY <1>3
<1>4. CASE 1 \notin S /\ 2 \notin S /\ 3 \notin S
  <2>1. \A j \in S : j = 4
    BY <1>4
  <2>2. PICK i \in S : TRUE
    OBVIOUS
  <2>3. i \in S /\ \A j \in S : i <= j
    BY <2>1, <2>2
  <2>4. QED
    BY <2>3
<1>5. QED
  BY <1>1, <1>2, <1>3, <1>4

LEMMA DetectedIsOne ==
  ASSUME NEW types, types # {}, types \subseteq SaveTypes
  PROVE  Detected(types) \in SaveTypes
<1> DEFINE asked == {i \in DOMAIN Families : Families[i] \cap types # {}}
           first == CHOOSE i \in asked : \A j \in asked : i <= j
<1>1. DOMAIN Families = 1..4
  BY DEF Families
<1>2. \A type \in SaveTypes : \E i \in 1..4 : type \in Families[i]
  <2>1. /\ 1 \in 1..4 /\ 2 \in 1..4 /\ 3 \in 1..4 /\ 4 \in 1..4
        /\ Families[1] = {"COLOSSEUM", "XD"} /\ Families[2] = GBATypes
        /\ Families[3] = {"RED_BLUE", "YELLOW"} /\ Families[4] = {"GOLD_SILVER", "CRYSTAL"}
    BY DEF Families
  <2>2. QED
    BY <2>1 DEF SaveTypes
<1>3. asked \in SUBSET (1..4) /\ asked # {}
  <2>1. PICK type \in types : type \in SaveTypes
    OBVIOUS
  <2>2. PICK i \in 1..4 : type \in Families[i]
    BY <1>2, <2>1
  <2>3. i \in asked
    BY <1>1, <2>1, <2>2
  <2>4. QED
    BY <1>1, <2>3
<1>4. first \in asked
  <2> HIDE DEF asked
  <2>1. QED
    BY <1>3, FirstOfFour
<1>5. \E type \in types : type \in Families[first]
  BY <1>4
<1>6. Detected(types) = CHOOSE type \in types : type \in Families[first]
  BY DEF Detected
<1> HIDE DEF first
<1>7. QED
  BY <1>5, <1>6

LEMMA CardStarts == CardInit => CardInv
<1> SUFFICES ASSUME CardInit PROVE CardInv
  OBVIOUS
<1>1. saveType \in SaveTypes
  BY DetectedIsOne, CardAssumption DEF CardInit
<1>2. PICK byte \in {0, 1, 255} : card = StartOf(saveType, byte)
  BY DEF CardInit
<1>3. /\ DOMAIN card = CellsOf(saveType)
      /\ saveType \in WithHalves => card[IDCell(saveType)] \in WholeIDs(TrainerIDs)
  BY <1>1, <1>2, StartIsRight
<1>4. QED
  BY <1>1, <1>3 DEF CardInv

(* A settable row's cell is in the buffer. *)
LEMMA CellIsThere ==
  ASSUME CardInv, NEW f \in DOMAIN Fields[saveType]
  PROVE  Fields[saveType][f].cell \in DOMAIN card
BY DEF CardInv, CellsOf

(* Writing a field of the card. *)
LEMMA FieldsAreWritten ==
  ASSUME CardInv, NEW field, NEW value, SetField(field, value)
  PROVE  /\ CardInv'
         /\ CardTold(field)' = value
         /\ \A other \in DOMAIN Fields[saveType] \ {field} :
              CardTold(other)' = CardTold(other) \/ OneRecord(field, other)
<1> DEFINE F == Fields[saveType]
<1>1. /\ saveType \in SaveTypes /\ Orderly(F, saveType) /\ field \in DOMAIN F /\ value \in DOMAIN F[field].code
      /\ card' = Stored(card, F[field], value) /\ saveType' = saveType
      /\ \A f \in DOMAIN F : F[f].cell \in DOMAIN card
  BY EveryTypeIsOrderly, CellIsThere DEF SetField, CardInv
<1>2. Exact(F[field], DOMAIN F[field].code)
  BY <1>1 DEF Orderly, Sound
<1>3. ToldOf(F[field], Stored(card, F[field], value)) = value
  BY <1>1, <1>2, StoredIsTold
<1>4. \A other \in DOMAIN F \ {field} :
        ToldOf(F[other], Stored(card, F[field], value)) = ToldOf(F[other], card) \/ OneRecord(field, other)
  <2>1. SUFFICES ASSUME NEW other \in DOMAIN F \ {field}, ~OneRecord(field, other)
        PROVE  ToldOf(F[other], Stored(card, F[field], value)) = ToldOf(F[other], card)
    OBVIOUS
  <2> HIDE DEF F
  <2>2. DOMAIN F[other].told = {} \/ F[field].cell # F[other].cell
    BY <1>1, <2>1 DEF Orderly, OneRecord, IDFields, RivalTypes
  <2>3. CASE DOMAIN F[other].told = {}
    BY <2>3 DEF ToldOf
  <2>4. CASE F[field].cell # F[other].cell
    <3>1. Apart(F[field], F[other])
      BY <2>4 DEF Apart
    <3>2. QED
      BY <1>1, <1>2, <3>1, OthersStay
  <2>5. QED
    BY <2>2, <2>3, <2>4
<1>5. DOMAIN Stored(card, F[field], value) = DOMAIN card
  BY StoredCells
<1>6. saveType \in WithHalves => Stored(card, F[field], value)[IDCell(saveType)] \in WholeIDs(TrainerIDs)
  <2>1. SUFFICES ASSUME saveType \in WithHalves
        PROVE  Stored(card, F[field], value)[IDCell(saveType)] \in WholeIDs(TrainerIDs)
    OBVIOUS
  <2>2. card[IDCell(saveType)] \in WholeIDs(TrainerIDs)
    BY <2>1 DEF CardInv
  <2>3. CASE field \in IDFields
    <3>1. F[field] = IDParts(IDCell(saveType), TrainerIDs)[field] /\ F[field].cell = IDCell(saveType)
      BY <2>1, <2>3, IDFacts
    <3>2. IDCell(saveType) \in DOMAIN card
      BY <1>1, <3>1
    <3> HIDE DEF F
    <3>3. QED
      BY <1>1, <2>2, <2>3, <3>1, <3>2, IDsAreStored DEF IDFields
  <2>4. CASE field \notin IDFields
    <3>1. F[field].cell # IDCell(saveType)
      BY <1>1, <2>1, <2>4, IDCellIsTheirs
    <3> HIDE DEF F
    <3>2. QED
      BY <2>2, <3>1 DEF Stored
  <2>5. QED
    BY <2>3, <2>4
<1>7. CardInv'
  BY <1>1, <1>5, <1>6 DEF CardInv
<1>8. QED
  BY <1>1, <1>3, <1>4, <1>7 DEF CardTold

(* Setting the time. *)
LEMMA TimeIsWritten ==
  ASSUME CardInv, NEW time, SetTimePlayed(time)
  PROVE  /\ CardInv'
         /\ \A part \in TimeParts : CardTold(part)' = IF part \in PartsKept THEN time[part] ELSE 0
<1> DEFINE F == Fields[saveType]
<1>1. /\ saveType \in SaveTypes /\ Orderly(F, saveType) /\ saveType' = saveType
      /\ PartsKept = {part \in TimeParts : DOMAIN F[part].code # {}}
      /\ PartsKept # {} /\ \A part \in PartsKept : time[part] \in DOMAIN F[part].code
      /\ card' = [cell \in DOMAIN card |-> IF cell \in PartsKept THEN time[cell] ELSE card[cell]]
      /\ \A f \in DOMAIN F : F[f].cell \in DOMAIN card
  BY EveryTypeIsOrderly, CellIsThere DEF SetTimePlayed, CardInv, PartsKept, Fits
<1> HIDE DEF F
<1>2. TimeParts \subseteq DOMAIN F /\ \A part \in TimeParts : F[part] = Fixed(0) \/ \E max \in Nat : F[part] = Plain(part, max)
  <2>1. PICK part \in TimeParts : DOMAIN F[part].code # {}
    BY <1>1
  <2>2. F[part] # Absent
    BY <2>1, RowKinds
  <2>3. QED
    BY <1>1, <2>2 DEF Orderly, TimeIsOrderly
<1>3. \A max \in Nat : \A part : /\ DOMAIN Plain(part, max).code # {} /\ DOMAIN Plain(part, max).told = DOMAIN Plain(part, max).code
                                /\ \A n \in DOMAIN Plain(part, max).code : Plain(part, max).told[n] = n
                                /\ Plain(part, max).cell = part /\ Plain(part, max).mask = {}
  <2>1. \A max \in Nat : 0 \in Within(max)
    BY CardAssumption DEF Within
  <2>2. QED
    BY <2>1 DEF Plain, Cell, Row, Same
<1>4. \A part \in TimeParts : ToldOf(F[part], card') = IF part \in PartsKept THEN time[part] ELSE 0
  <2>1. TAKE part \in TimeParts
  <2>2. CASE F[part] = Fixed(0)
    <3>1. DOMAIN F[part].code = {} /\ DOMAIN F[part].told = {} /\ F[part].default = 0
      BY <2>2, FixedIsSound
    <3>2. part \notin PartsKept
      BY <1>1, <3>1
    <3>3. QED
      BY <3>1, <3>2 DEF ToldOf
  <2>3. CASE \E max \in Nat : F[part] = Plain(part, max)
    <3>1. PICK max \in Nat : F[part] = Plain(part, max)
      BY <2>3
    <3>2. /\ DOMAIN F[part].code # {} /\ DOMAIN F[part].told = DOMAIN F[part].code
          /\ \A n \in DOMAIN F[part].code : F[part].told[n] = n
          /\ F[part].cell = part /\ F[part].mask = {}
      BY <1>3, <3>1
    <3>3. part \in PartsKept /\ part \in DOMAIN card
      BY <1>1, <1>2, <3>2
    <3>4. card'[part] = time[part] /\ time[part] \in DOMAIN F[part].code
      BY <1>1, <3>3
    <3>5. QED
      BY <3>2, <3>3, <3>4 DEF ToldOf
  <2>4. QED
    BY <1>2, <2>2, <2>3
<1>5. DOMAIN card' = DOMAIN card
  BY <1>1
<1>6. IDCell(saveType) \notin PartsKept
  BY <1>1 DEF IDCell, TimeParts
<1>7. saveType \in WithHalves => card'[IDCell(saveType)] \in WholeIDs(TrainerIDs)
  <2>1. SUFFICES ASSUME saveType \in WithHalves PROVE card'[IDCell(saveType)] \in WholeIDs(TrainerIDs)
    OBVIOUS
  <2>2. IDCell(saveType) \in DOMAIN card /\ card[IDCell(saveType)] \in WholeIDs(TrainerIDs)
    <3>1. "trainerId" \in DOMAIN F /\ F["trainerId"].cell = IDCell(saveType)
      BY <2>1, IDFacts DEF IDFields, F
    <3>2. QED
      BY <1>1, <2>1, <3>1 DEF CardInv
  <2>3. QED
    BY <1>1, <1>6, <2>2
<1>8. CardInv'
  BY <1>1, <1>5, <1>7 DEF CardInv
<1>9. QED
  BY <1>1, <1>4, <1>8 DEF CardTold, F

(* The guess of the game. *)
LEMMA GamesAreGuessed ==
  ASSUME NEW type \in DOMAIN Titles, NEW name
  PROVE  LET all == {Titles[type][i] : i \in DOMAIN Titles[type]}
             named == {t[2] : t \in {u \in all : u[1] \in name}}
         IN GameLoaded(type, name) \in {t[2] : t \in all} /\ (named = {} \/ GameLoaded(type, name) \in named)
<1> DEFINE T == Titles[type]
           all == {T[i] : i \in DOMAIN T}
           named == {t[2] : t \in {u \in all : u[1] \in name}}
           found == {i \in DOMAIN T : T[i][1] \in name}
           first == CHOOSE i \in found : \A j \in found : i <= j
<1>1. type \notin DOMAIN OneGame
  BY DEF Titles, OneGame
<1>2. GameLoaded(type, name) = T[IF found = {} THEN 1 ELSE first][2]
  BY <1>1 DEF GameLoaded, GameNamed
<1>3. DOMAIN T \in SUBSET (1..4) /\ 1 \in DOMAIN T
  <2>1. DOMAIN Titles = {"RED_BLUE", "GOLD_SILVER", "RUBY_SAPPHIRE", "FIRERED_LEAFGREEN"}
    BY DEF Titles
  <2>2. CASE type = "FIRERED_LEAFGREEN"
    <3>1. DOMAIN T = 1..4
      BY <2>2 DEF Titles
    <3>2. QED
      BY <3>1
  <2>3. CASE type # "FIRERED_LEAFGREEN"
    <3>1. DOMAIN T = 1..2
      BY <2>1, <2>3 DEF Titles
    <3>2. QED
      BY <3>1
  <2>4. QED
    BY <2>2, <2>3
<1> HIDE DEF T
<1>4. CASE found = {}
  <2>1. named = {}
    BY <1>4
  <2>2. GameLoaded(type, name) = T[1][2]
    BY <1>2, <1>4
  <2>3. T[1] \in all
    BY <1>3
  <2>4. QED
    BY <2>1, <2>2, <2>3 DEF T
<1>5. CASE found # {}
  <2>1. found \in SUBSET (1..4)
    BY <1>3
  <2>2. first \in found
    <3> HIDE DEF found
    <3>1. QED
      BY <1>5, <2>1, FirstOfFour
  <2>3. GameLoaded(type, name) = T[first][2] /\ T[first] \in all /\ T[first][1] \in name
    BY <1>2, <1>5, <2>2
  <2> HIDE DEF first
  <2>4. T[first][2] \in named /\ T[first][2] \in {t[2] : t \in all}
    BY <2>3
  <2>5. QED
    BY <2>3, <2>4 DEF T
<1>6. QED
  BY <1>4, <1>5

(* The whole of a buffer that has its type's cells and an ID of halves.    *)
LEMMA CardsOfInvAreConsistent == CardInv => CardIsConsistent
<1> SUFFICES ASSUME CardInv PROVE CardIsConsistent
  OBVIOUS
<1>1. saveType \in SaveTypes
  BY DEF CardInv
<1>2. saveType \in WithHalves =>
        CardTold("trainerId") = CardTold("publicId") \cup Up(CardTold("secretId"), 16)
  <2>0. SUFFICES ASSUME saveType \in WithHalves
        PROVE  CardTold("trainerId") = CardTold("publicId") \cup Up(CardTold("secretId"), 16)
    OBVIOUS
  <2>1. card[IDCell(saveType)] \in WholeIDs(TrainerIDs)
    BY <2>0 DEF CardInv
  <2>2. \A f \in IDFields : Fields[saveType][f] = IDParts(IDCell(saveType), TrainerIDs)[f]
    BY <2>0, IDFacts
  <2>3. QED
    BY <2>1, <2>2, IDsAreRead DEF CardTold, IDFields
<1>3. saveType \notin WithHalves => CardTold("trainerId") = CardTold("publicId")
  BY <1>1, IDsOfTypes DEF CardTold
<1>4. saveType \in {"RUBY_SAPPHIRE", "EMERALD"} =>
        (CardTold("rivalName") = "MAY" <=> CardTold("gender") = "MALE")
  <2>1. SUFFICES ASSUME saveType \in {"RUBY_SAPPHIRE", "EMERALD"}
        PROVE  CardTold("rivalName") = "MAY" <=> CardTold("gender") = "MALE"
    OBVIOUS
  <2> DEFINE rivals == [n \in 0..255 |-> IF n = 0 THEN "MAY" ELSE "BRENDAN"]
             genders == [n \in 0..255 |-> IF n = 0 THEN "MALE" ELSE "FEMALE"]
             byte == card["p_gender"]
  <2>2. Fields[saveType] = GBAFields(saveType)
    BY <2>1 DEF Fields
  <2>3. /\ Fields[saveType]["rivalName"] = GBARival(saveType)["rivalName"]
        /\ Fields[saveType]["gender"] = GenderByte("p_gender", {"MALE", "FEMALE"})
    BY <2>2, GBARows
  <2>4. /\ GBARival(saveType)["rivalName"].cell = "p_gender" /\ GBARival(saveType)["rivalName"].mask = {}
        /\ GBARival(saveType)["rivalName"].told = rivals /\ GBARival(saveType)["rivalName"].default = Refused
    BY <2>1 DEF GBARival, Row
  <2>5. \A set : /\ GenderByte("p_gender", set).cell = "p_gender" /\ GenderByte("p_gender", set).mask = {}
                 /\ GenderByte("p_gender", set).told = genders /\ GenderByte("p_gender", set).default = Refused
    BY DEF GenderByte, Row
  <2>6. /\ DOMAIN rivals = 0..255 /\ DOMAIN genders = 0..255 /\ 0..255 # {}
        /\ \A n \in 0..255 : /\ rivals[n] = IF n = 0 THEN "MAY" ELSE "BRENDAN"
                             /\ genders[n] = IF n = 0 THEN "MALE" ELSE "FEMALE"
    <3>1. 0 \in 0..255
      OBVIOUS
    <3>2. QED
      BY <3>1
  <2> HIDE DEF rivals, genders
  <2>7. /\ CardTold("rivalName") = IF byte \in 0..255 THEN rivals[byte] ELSE Refused
        /\ CardTold("gender") = IF byte \in 0..255 THEN genders[byte] ELSE Refused
    BY <2>3, <2>4, <2>5, <2>6 DEF CardTold, ToldOf
  <2> HIDE DEF byte
  <2>8. QED
    BY <2>6, <2>7 DEF Refused
<1>5. CardTold("trainerId") =
        CardTold("publicId") \cup (IF saveType \in GBATypes \cup {"COLOSSEUM", "XD"}
                                  THEN Up(CardTold("secretId"), 16) ELSE {})
  BY <1>2, <1>3 DEF WithHalves
<1>6. QED
  BY <1>4, <1>5 DEF CardIsConsistent

(* What a step of the card does. *)
LEMMA CardStep ==
  ASSUME CardInv, [CardNext]_cardVars
  PROVE  /\ CardInv'
         /\ CardNext => CardSettersAreExact /\ TimesAreSetWhole /\ LoadsGuessWithinTheType
<1>1. CardInv'
  <2>1. CASE UNCHANGED cardVars
    BY <2>1 DEF cardVars, CardInv
  <2>2. CASE \E field \in DOMAIN CardInputs : \E value \in CardInputs[field] : SetField(field, value)
    BY <2>2, FieldsAreWritten
  <2>3. CASE \E time \in TimesPlayed : SetTimePlayed(time)
    BY <2>3, TimeIsWritten
  <2>4. CASE \E name \in FileNames : LoadCard(name)
    BY <2>4 DEF LoadCard, CardInv
  <2>5. QED
    BY <2>1, <2>2, <2>3, <2>4 DEF CardNext
<1>2. CardSettersAreExact
  BY FieldsAreWritten DEF CardSettersAreExact
<1>3. TimesAreSetWhole
  BY TimeIsWritten DEF TimesAreSetWhole
<1>4. LoadsGuessWithinTheType
  BY GamesAreGuessed DEF LoadsGuessWithinTheType, LoadCard
<1>5. QED
  BY <1>1, <1>2, <1>3, <1>4

(* A card shows what was set, in every type of save. *)
THEOREM CardsTheorem == CardSpec => CardsAreKept
<1>1. CardInit => CardInv
  BY CardStarts
<1>2. CardInv /\ [CardNext]_cardVars => CardInv'
  BY CardStep
<1>3. CardInv /\ CardInv' /\ [CardNext]_cardVars =>
        [CardIsConsistent' /\ CardSettersAreExact /\ TimesAreSetWhole /\ LoadsGuessWithinTheType]_cardVars
  <2>1. CardInv' => CardIsConsistent'
    BY CardsOfInvAreConsistent, PTL
  <2>2. QED
    BY <2>1, CardStep
<1>4. QED
  BY <1>1, <1>2, <1>3, PTL DEF CardSpec, CardsAreKept

-----------------------------------------------------------------------------
(* Numbers of up to seven bits are their bits. *)
LEMMA SevenBits ==
  ASSUME NEW n \in 0..127
  PROVE  /\ BitsOf(n) \in SUBSET (0..6)
         /\ n <= 15 => BitsOf(n) \in SUBSET (0..3)
         /\ n <= 63 => BitsOf(n) \in SUBSET (0..5)
         /\ \A i \in 0..6 : i \in BitsOf(n) <=> (n \div Weight[i + 1]) % 2 = 1
<1>1. \A i \in 0..15 : i \in BitsOf(n) <=> (n \div Weight[i + 1]) % 2 = 1
  BY DEF BitsOf
<1>2. /\ Weight[1] = 1 /\ Weight[2] = 2 /\ Weight[3] = 4 /\ Weight[4] = 8 /\ Weight[5] = 16 /\ Weight[6] = 32
      /\ Weight[7] = 64 /\ Weight[8] = 128 /\ Weight[9] = 256 /\ Weight[10] = 512 /\ Weight[11] = 1024
      /\ Weight[12] = 2048 /\ Weight[13] = 4096 /\ Weight[14] = 8192 /\ Weight[15] = 16384 /\ Weight[16] = 32768
  BY DEF Weight
<1>3. \A i \in 7..15 : (n \div Weight[i + 1]) % 2 = 0
  BY <1>2
<1>4. n <= 63 => (n \div 64) % 2 = 0
  OBVIOUS
<1>5. n <= 15 => (n \div 16) % 2 = 0 /\ (n \div 32) % 2 = 0 /\ (n \div 64) % 2 = 0
  OBVIOUS
<1>6. BitsOf(n) \in SUBSET (0..15)
  BY DEF BitsOf
<1>7. BitsOf(n) \in SUBSET (0..6)
  BY <1>1, <1>3, <1>6
<1>8. n <= 63 => 6 \notin BitsOf(n)
  BY <1>1, <1>2, <1>4
<1>9. n <= 15 => 4 \notin BitsOf(n) /\ 5 \notin BitsOf(n) /\ 6 \notin BitsOf(n)
  BY <1>1, <1>2, <1>5
<1>10. QED
  BY <1>1, <1>7, <1>8, <1>9

LEMMA BitsAreTheNumber ==
  ASSUME NEW n \in 0..127, NEW k \in 0..127, BitsOf(n) = BitsOf(k)
  PROVE  n = k
<1>1. \A i \in 0..6 : (n \div Weight[i + 1]) % 2 = 1 <=> (k \div Weight[i + 1]) % 2 = 1
  BY SevenBits
<1>2. /\ Weight[1] = 1 /\ Weight[2] = 2 /\ Weight[3] = 4 /\ Weight[4] = 8 /\ Weight[5] = 16 /\ Weight[6] = 32
      /\ Weight[7] = 64
  BY DEF Weight
<1>3. /\ 0 \in 0..6 /\ 1 \in 0..6 /\ 2 \in 0..6 /\ 3 \in 0..6 /\ 4 \in 0..6 /\ 5 \in 0..6 /\ 6 \in 0..6
      /\ n \div 1 = n /\ k \div 1 = k
      /\ 0 + 1 = 1 /\ 1 + 1 = 2 /\ 2 + 1 = 3 /\ 3 + 1 = 4 /\ 4 + 1 = 5 /\ 5 + 1 = 6 /\ 6 + 1 = 7
  OBVIOUS
<1>4. ((n \div Weight[0 + 1]) % 2 = 1 <=> (k \div Weight[0 + 1]) % 2 = 1)
  BY <1>1, <1>3
<1>5. ((n \div Weight[1 + 1]) % 2 = 1 <=> (k \div Weight[1 + 1]) % 2 = 1)
  BY <1>1, <1>3
<1>6. ((n \div Weight[2 + 1]) % 2 = 1 <=> (k \div Weight[2 + 1]) % 2 = 1)
  BY <1>1, <1>3
<1>7. ((n \div Weight[3 + 1]) % 2 = 1 <=> (k \div Weight[3 + 1]) % 2 = 1)
  BY <1>1, <1>3
<1>8. ((n \div Weight[4 + 1]) % 2 = 1 <=> (k \div Weight[4 + 1]) % 2 = 1)
  BY <1>1, <1>3
<1>9. ((n \div Weight[5 + 1]) % 2 = 1 <=> (k \div Weight[5 + 1]) % 2 = 1)
  BY <1>1, <1>3
<1>10. ((n \div Weight[6 + 1]) % 2 = 1 <=> (k \div Weight[6 + 1]) % 2 = 1)
  BY <1>1, <1>3
<1>11. (n \div 1) % 2 = 1 <=> (k \div 1) % 2 = 1
  <2>1. (n \div Weight[1]) % 2 = 1 <=> (k \div Weight[1]) % 2 = 1
    BY <1>4
  <2>2. Weight[1] = 1
    BY <1>2
  <2> QED
    BY <2>1, <2>2
<1>12. (n \div 2) % 2 = 1 <=> (k \div 2) % 2 = 1
  <2>1. (n \div Weight[2]) % 2 = 1 <=> (k \div Weight[2]) % 2 = 1
    BY <1>5
  <2>2. Weight[2] = 2
    BY <1>2
  <2> QED
    BY <2>1, <2>2
<1>13. (n \div 4) % 2 = 1 <=> (k \div 4) % 2 = 1
  <2>1. (n \div Weight[3]) % 2 = 1 <=> (k \div Weight[3]) % 2 = 1
    BY <1>6
  <2>2. Weight[3] = 4
    BY <1>2
  <2> QED
    BY <2>1, <2>2
<1>14. (n \div 8) % 2 = 1 <=> (k \div 8) % 2 = 1
  <2>1. (n \div Weight[4]) % 2 = 1 <=> (k \div Weight[4]) % 2 = 1
    BY <1>7
  <2>2. Weight[4] = 8
    BY <1>2
  <2> QED
    BY <2>1, <2>2
<1>15. (n \div 16) % 2 = 1 <=> (k \div 16) % 2 = 1
  <2>1. (n \div Weight[5]) % 2 = 1 <=> (k \div Weight[5]) % 2 = 1
    BY <1>8
  <2>2. Weight[5] = 16
    BY <1>2
  <2> QED
    BY <2>1, <2>2
<1>16. (n \div 32) % 2 = 1 <=> (k \div 32) % 2 = 1
  <2>1. (n \div Weight[6]) % 2 = 1 <=> (k \div Weight[6]) % 2 = 1
    BY <1>9
  <2>2. Weight[6] = 32
    BY <1>2
  <2> QED
    BY <2>1, <2>2
<1>17. (n \div 64) % 2 = 1 <=> (k \div 64) % 2 = 1
  <2>1. (n \div Weight[7]) % 2 = 1 <=> (k \div Weight[7]) % 2 = 1
    BY <1>10
  <2>2. Weight[7] = 64
    BY <1>2
  <2> QED
    BY <2>1, <2>2
<1> QED
  BY <1>3, <1>11, <1>12, <1>13, <1>14, <1>15, <1>16, <1>17

-----------------------------------------------------------------------------
(* What a row finds of its trait, and what it makes of it.                 *)
StoredAt(row, data) == IF row.mask = {} THEN data[row.cell] ELSE data[row.cell] \cap row.mask

Says(row, stored) ==
  IF DOMAIN row.told = {} THEN row.default
  ELSE IF stored \in DOMAIN row.told THEN row.told[stored] ELSE row.default

LEMMA ToldIsOfStored == \A row, data : ToldOf(row, data) = Says(row, StoredAt(row, data))
BY DEF ToldOf, Says, StoredAt

(* A setter writes the bits of its row and no others.                      *)
Fitting(row) == \A v \in DOMAIN row.code : row.mask # {} => row.code[v] \subseteq row.mask

LEMMA SoundFits == \A row : Sound(row) => Fitting(row)
BY DEF Sound, Exact, Fitting

LEMMA SoundTells ==
  ASSUME NEW row, Sound(row), NEW v \in DOMAIN row.code
  PROVE  Says(row, row.code[v]) = v
BY DEF Sound, Exact, Says

LEMMA OwnIsStored ==
  ASSUME NEW data, NEW row, row.cell \in DOMAIN data, Fitting(row), NEW v \in DOMAIN row.code
  PROVE  StoredAt(row, Stored(data, row, v)) = row.code[v]
<1>1. CASE row.mask = {}
  BY <1>1 DEF StoredAt, Stored
<1>2. CASE row.mask # {}
  <2>1. Stored(data, row, v)[row.cell] = (data[row.cell] \ row.mask) \cup row.code[v]
    BY <1>2 DEF Stored
  <2> QED
    BY <2>1, <1>2 DEF StoredAt, Fitting
<1> QED
  BY <1>1, <1>2

LEMMA OtherIsLeft ==
  ASSUME NEW data, NEW row, row.cell \in DOMAIN data, Fitting(row), NEW v \in DOMAIN row.code,
         NEW other, other.cell \in DOMAIN data, Apart(row, other)
  PROVE  StoredAt(other, Stored(data, row, v)) = StoredAt(other, data)
<1>1. CASE other.cell # row.cell
  <2>1. Stored(data, row, v)[other.cell] = data[other.cell]
    BY <1>1 DEF Stored
  <2> QED
    BY <2>1 DEF StoredAt
<1>2. CASE other.cell = row.cell
  <2>1. Stored(data, row, v)[row.cell] = (data[row.cell] \ row.mask) \cup row.code[v]
    BY <1>2 DEF Stored, Apart
  <2>2. Stored(data, row, v)[other.cell] \cap other.mask = data[other.cell] \cap other.mask
    BY <2>1, <1>2 DEF Fitting, Apart
  <2> QED
    BY <2>2, <1>2 DEF StoredAt, Apart
<1> QED
  BY <1>1, <1>2

(* Some bits of a word. *)
LaidOut(row, cell, mask) == row.cell = cell /\ row.mask = mask

Sizes == {1, 4, 6, 7}
Most(size) == Weight[size + 1] - 1

LEMMA SizesFit ==
  ASSUME NEW size \in Sizes
  PROVE  /\ size \in Nat /\ Most(size) \in 0..127
         /\ \A n \in 0..Most(size) : n \in 0..127 /\ BitsOf(n) \in SUBSET (0..size-1)
<1>1. Most(1) = 1 /\ Most(4) = 15 /\ Most(6) = 63 /\ Most(7) = 127
  BY DEF Most, Weight
<1>2. size \in Nat /\ Most(size) \in 0..127
  BY <1>1 DEF Sizes
<1>3. ASSUME NEW n \in 0..Most(size) PROVE n \in 0..127 /\ BitsOf(n) \in SUBSET (0..size-1)
  <2>1. n \in 0..127
    BY <1>2
  <2>2. CASE size = 1
    <3>1. n = 0 \/ n = 1
      BY <1>1, <2>2
    <3>2. BitsOf(n) \subseteq {0} /\ 0..size-1 = {0}
      BY <2>2, <3>1, OneBit
    <3> QED
      BY <2>1, <3>2
  <2>3. CASE size = 4
    BY <1>1, <2>1, <2>3, SevenBits
  <2>4. CASE size = 6
    BY <1>1, <2>1, <2>4, SevenBits
  <2>5. CASE size = 7
    BY <1>1, <2>1, <2>5, SevenBits
  <2> QED
    BY <2>2, <2>3, <2>4, <2>5 DEF Sizes
<1> QED
  BY <1>2, <1>3

OfSize(numbers, size) == \A v \in DOMAIN numbers : numbers[v] \in 0..Most(size)
OneToOne(numbers) == \A v, w \in DOMAIN numbers : numbers[v] = numbers[w] => v = w

LEMMA InWordIsExact ==
  ASSUME NEW size \in Sizes, NEW low \in Nat, NEW numbers,
         OfSize(numbers, size), OneToOne(numbers)
  PROVE  LET code == InWord(numbers, low)
         IN /\ DOMAIN code = DOMAIN numbers
            /\ \A v \in DOMAIN numbers : code[v] = Up(BitsOf(numbers[v]), low) /\ code[v] \subseteq low..low+size-1
            /\ \A v, w \in DOMAIN numbers : code[v] = code[w] => v = w
            /\ \A v \in DOMAIN numbers : code[v] \in DOMAIN Inverse(code) /\ Inverse(code)[code[v]] = v
<1> DEFINE code == InWord(numbers, low)
<1>1. DOMAIN code = DOMAIN numbers /\ \A v \in DOMAIN numbers : code[v] = Up(BitsOf(numbers[v]), low)
  BY DEF InWord
<1> HIDE DEF code
<1>2. \A v \in DOMAIN numbers : numbers[v] \in 0..127 /\ BitsOf(numbers[v]) \in SUBSET (0..size-1)
  BY SizesFit DEF OfSize
<1>3. ASSUME NEW v \in DOMAIN numbers PROVE code[v] \subseteq low..low+size-1
  <2>1. low \in Int /\ size \in Nat /\ BitsOf(numbers[v]) \in SUBSET (0..size-1)
    BY <1>2, SizesFit
  <2>2. Up(BitsOf(numbers[v]), low) \subseteq low..low+size-1
    BY <2>1, UpIsWithin
  <2> QED
    BY <1>1, <2>2
<1>4. ASSUME NEW v \in DOMAIN numbers, NEW w \in DOMAIN numbers, code[v] = code[w] PROVE v = w
  <2>1. BitsOf(numbers[v]) \in SUBSET Int /\ BitsOf(numbers[w]) \in SUBSET Int
    BY <1>2
  <2>2. Up(BitsOf(numbers[v]), low) = Up(BitsOf(numbers[w]), low)
    BY <1>1, <1>4
  <2>3. BitsOf(numbers[v]) = BitsOf(numbers[w])
    BY <2>1, <2>2, UpIsOneToOne, low \in Int
  <2>4. numbers[v] = numbers[w]
    BY <2>3, <1>2, BitsAreTheNumber
  <2> QED
    BY <2>4 DEF OneToOne
<1>5. \A v \in DOMAIN numbers : code[v] \in DOMAIN Inverse(code) /\ Inverse(code)[code[v]] = v
  BY <1>1, <1>4, InverseIsExact
<1> QED
  BY <1>1, <1>3, <1>4, <1>5 DEF code

LEMMA PartIsSound ==
  ASSUME NEW cell, NEW size \in Sizes, NEW low \in Nat, NEW numbers, NEW default,
         OfSize(numbers, size), OneToOne(numbers)
  PROVE  /\ Sound(Part(cell, low, size, numbers, default))
         /\ LaidOut(Part(cell, low, size, numbers, default), cell, low..low+size-1)
         /\ Part(cell, low, size, numbers, default).code = InWord(numbers, low)
<1> DEFINE code == InWord(numbers, low)
           row == Row(cell, low..low+size-1, code, Inverse(code), default)
<1>1. Part(cell, low, size, numbers, default) = row
  BY DEF Part
<1>2. /\ DOMAIN code = DOMAIN numbers
      /\ \A v \in DOMAIN numbers : code[v] \subseteq low..low+size-1
      /\ \A v \in DOMAIN numbers : code[v] \in DOMAIN Inverse(code) /\ Inverse(code)[code[v]] = v
  BY InWordIsExact
<1> HIDE DEF code
<1>3. row.cell = cell /\ row.mask = low..low+size-1 /\ row.code = code /\ row.told = Inverse(code)
  BY DEF Row
<1> HIDE DEF row
<1>4. Sound(row)
  BY <1>2, <1>3 DEF Sound, Exact
<1> QED
  BY <1>1, <1>3, <1>4 DEF LaidOut, code

LEMMA NumberIsSound ==
  ASSUME NEW cell, NEW size \in Sizes, NEW low \in Nat, NEW values \in SUBSET (0..Most(size))
  PROVE  /\ Sound(Number(cell, low, size, values))
         /\ LaidOut(Number(cell, low, size, values), cell, low..low+size-1)
         /\ DOMAIN Number(cell, low, size, values).code = values
         /\ \A v \in values : Number(cell, low, size, values).code[v] = Up(BitsOf(v), low)
<1> DEFINE every == Same(0..Most(size))
           some == Same(values)
           all == InWord(every, low)
           code == InWord(some, low)
           row == Row(cell, low..low+size-1, code, Inverse(all), Refused)
<1>1. Number(cell, low, size, values) = row
  BY DEF Number, Most
<1>2. DOMAIN every = 0..Most(size) /\ \A n \in 0..Most(size) : every[n] = n
  BY DEF Same
<1>3. DOMAIN some = values /\ \A v \in values : some[v] = v
  BY DEF Same
<1> HIDE DEF every, some
<1>4. /\ DOMAIN all = 0..Most(size)
      /\ \A n \in 0..Most(size) : all[n] = Up(BitsOf(n), low) /\ all[n] \subseteq low..low+size-1
      /\ \A n \in 0..Most(size) : all[n] \in DOMAIN Inverse(all) /\ Inverse(all)[all[n]] = n
  <2>1. OfSize(every, size) /\ OneToOne(every)
    BY <1>2 DEF OfSize, OneToOne
  <2>2. /\ DOMAIN all = DOMAIN every
        /\ \A n \in DOMAIN every : all[n] = Up(BitsOf(every[n]), low) /\ all[n] \subseteq low..low+size-1
        /\ \A n \in DOMAIN every : all[n] \in DOMAIN Inverse(all) /\ Inverse(all)[all[n]] = n
    BY <2>1, InWordIsExact
  <2> HIDE DEF all
  <2> QED
    BY <1>2, <2>2
<1>5. DOMAIN code = values /\ \A v \in values : code[v] = Up(BitsOf(v), low)
  BY <1>3 DEF InWord
<1> HIDE DEF all, code
<1>6. row.cell = cell /\ row.mask = low..low+size-1 /\ row.code = code /\ row.told = Inverse(all)
  BY DEF Row
<1> HIDE DEF row
<1>7. \A v \in values : v \in 0..Most(size) /\ code[v] = all[v]
  BY <1>4, <1>5
<1>8. Sound(row)
  BY <1>4, <1>5, <1>6, <1>7 DEF Sound, Exact
<1> QED
  BY <1>1, <1>5, <1>6, <1>8 DEF LaidOut

GenderNumbers == [MALE |-> 0, FEMALE |-> 1]

LEMMA GenderIsSound ==
  ASSUME NEW cell, NEW bit \in Nat
  PROVE  /\ Sound(Gender(cell, bit)) /\ LaidOut(Gender(cell, bit), cell, {bit})
         /\ DOMAIN Gender(cell, bit).code = {"MALE", "FEMALE"}
         /\ Gender(cell, bit).code["MALE"] = {} /\ Gender(cell, bit).code["FEMALE"] = {bit}
<1>1. /\ DOMAIN GenderNumbers = {"MALE", "FEMALE"}
      /\ GenderNumbers["MALE"] = 0 /\ GenderNumbers["FEMALE"] = 1
  BY DEF GenderNumbers
<1>2. Gender(cell, bit) = Part(cell, bit, 1, GenderNumbers, Refused)
  BY DEF Gender, GenderNumbers
<1>3. 1 \in Sizes /\ Most(1) = 1
  BY DEF Sizes, Most, Weight
<1>4. OfSize(GenderNumbers, 1)
  BY <1>1, <1>3 DEF OfSize
<1>5. OneToOne(GenderNumbers)
  BY <1>1 DEF OneToOne
<1>6. /\ Sound(Part(cell, bit, 1, GenderNumbers, Refused))
      /\ LaidOut(Part(cell, bit, 1, GenderNumbers, Refused), cell, bit..bit+1-1)
      /\ Part(cell, bit, 1, GenderNumbers, Refused).code = InWord(GenderNumbers, bit)
  BY <1>3, <1>4, <1>5, PartIsSound
<1>7. bit..bit+1-1 = {bit}
  OBVIOUS
<1>8. Up({0}, bit) = {bit} /\ Up({}, bit) = {}
  BY DEF Up
<1>9. /\ DOMAIN InWord(GenderNumbers, bit) = DOMAIN GenderNumbers
      /\ InWord(GenderNumbers, bit)["MALE"] = {} /\ InWord(GenderNumbers, bit)["FEMALE"] = {bit}
  BY <1>1, <1>8, OneBit DEF InWord
<1> QED
  BY <1>1, <1>2, <1>6, <1>7, <1>9

(* A word that is put together of its parts. *)
Holds(word, l, i, b, top) ==
  /\ word \cap (0..0+7-1) = Up(BitsOf(l), 0) /\ word \cap (7..10) = Up(BitsOf(i), 7)
  /\ word \cap (11..11+4-1) = Up(BitsOf(b), 11) /\ word \cap {15} = top

LEMMA WordHolds ==
  ASSUME NEW l \in 0..127, NEW i \in 0..15, NEW b \in 0..15, NEW top \in SUBSET {15}
  PROVE  Holds(BitsOf(l) \cup Up(BitsOf(i), 7) \cup Up(BitsOf(b), 11) \cup top, l, i, b, top)
<1> DEFINE one == BitsOf(l)
           two == Up(BitsOf(i), 7)
           three == Up(BitsOf(b), 11)
<1>1. one \in SUBSET (0..6) /\ BitsOf(i) \in SUBSET (0..3) /\ BitsOf(b) \in SUBSET (0..3)
  BY SevenBits
<1>2. two \in SUBSET (7..10) /\ three \in SUBSET (11..14)
  BY <1>1 DEF Up
<1>3. Up(one, 0) = one
  BY <1>1 DEF Up
<1>4. 0..0+7-1 = 0..6 /\ 11..11+4-1 = 11..14
  OBVIOUS
<1> HIDE DEF one, two, three
<1>5. /\ \A x \in one : x \notin 7..10 /\ x \notin 11..14 /\ x # 15
      /\ \A x \in two : x \notin 0..6 /\ x \notin 11..14 /\ x # 15
      /\ \A x \in three : x \notin 0..6 /\ x \notin 7..10 /\ x # 15
      /\ \A x \in top : x \notin 0..6 /\ x \notin 7..10 /\ x \notin 11..14
  BY <1>1, <1>2
<1> DEFINE word == one \cup two \cup three \cup top
<1>6. word \cap (0..6) = one
  BY <1>1, <1>5
<1>7. word \cap (7..10) = two
  BY <1>2, <1>5
<1>8. word \cap (11..14) = three
  BY <1>2, <1>5
<1>9. word \cap {15} = top
  <2>1. 15 \notin one /\ 15 \notin two /\ 15 \notin three
    BY <1>5
  <2> QED
    BY <2>1
<1> HIDE DEF word
<1>10. /\ word \cap (0..0+7-1) = Up(one, 0) /\ word \cap (7..10) = two
       /\ word \cap (11..11+4-1) = three /\ word \cap {15} = top
  BY <1>3, <1>4, <1>6, <1>7, <1>8, <1>9
<1> QED
  BY <1>10 DEF Holds, word, one, two, three

-----------------------------------------------------------------------------
(* The traits that a class has a place for, and the rows of the others.    *)
TraitsIn ==
  [ gen1 |-> {"nickname", "catchRate", "publicId", "trainerId", "trainerName"},
    gen2 |-> {"nickname", "egg", "heldItem", "pokerus", "publicId", "trainerId", "trainerName",
              "trainerGender", "friendship", "levelMet"},
    gba |-> {"nickname", "egg", "publicId", "secretId", "trainerId", "trainerName", "pokerus",
             "trainerGender", "language", "friendship", "ball", "levelMet", "originalGame"},
    gcn |-> {"nickname", "egg", "publicId", "secretId", "trainerId", "trainerName", "pokerus",
             "trainerGender", "language", "friendship", "ball", "levelMet", "originalGame"} ]

Empty(row) == DOMAIN row.code = {} /\ DOMAIN row.told = {}

RestIsEmpty(c, F) ==
  /\ TraitsIn[c] \subseteq DOMAIN F /\ "location" \notin DOMAIN F
  /\ \A t \in DOMAIN F \ TraitsIn[c] : Empty(F[t])

LEMMA EmptyRows == (\A value : Empty(Fixed(value))) /\ Empty(Absent)
BY FixedIsSound DEF Empty, Absent

LEMMA WithoutThem ==
  ASSUME NEW traits
  PROVE  DOMAIN Without(traits) = traits /\ \A t \in traits : Empty(Without(traits)[t])
BY EmptyRows DEF Without

LowIDs == {Low(id) : id \in AllIDs}
CatchRateRow == Row("catch_rate", {}, Same({}), Same(0..255), Refused)

IsGen1Table(F) ==
  /\ F["nickname"] = Text("_nickname", 10) /\ F["catchRate"] = CatchRateRow
  /\ F["publicId"] = Cell("ot_id", LowIDs) /\ F["trainerId"] = Cell("ot_id", LowIDs)
  /\ F["trainerName"] = Text("_trainer_name", 7)
  /\ RestIsEmpty("gen1", F)

LEMMA Gen1TrainerIs ==
  /\ DOMAIN Gen1Trainer = {"publicId", "secretId", "trainerId", "trainerName", "trainerGender"}
  /\ Gen1Trainer["publicId"] = Cell("ot_id", LowIDs) /\ Gen1Trainer["trainerId"] = Cell("ot_id", LowIDs)
  /\ Gen1Trainer["secretId"] = Absent /\ Gen1Trainer["trainerName"] = Text("_trainer_name", 7)
  /\ Gen1Trainer["trainerGender"] = Fixed("MALE")
<1> DEFINE ids == GBID("ot_id", AllIDs)
           two == [trainerName |-> Text("_trainer_name", 7), trainerGender |-> Fixed("MALE")]
<1>1. /\ DOMAIN ids = {"publicId", "secretId", "trainerId"}
      /\ ids["publicId"] = Cell("ot_id", LowIDs) /\ ids["trainerId"] = Cell("ot_id", LowIDs)
      /\ ids["secretId"] = Absent
  BY IDRows DEF LowIDs
<1>2. /\ DOMAIN two = {"trainerName", "trainerGender"}
      /\ two["trainerName"] = Text("_trainer_name", 7) /\ two["trainerGender"] = Fixed("MALE")
  OBVIOUS
<1>3. Two(Gen1Trainer, ids, two)
  BY TwoJoined DEF Gen1Trainer
<1> HIDE DEF ids, two
<1> QED
  BY <1>1, <1>2, <1>3 DEF Two

LEMMA Gen1TableIs == IsGen1Table(Rows["gen1"])
<1> DEFINE F == Rows["gen1"]
           gone == Without({"gender", "shininess", "heldItem", "nature", "pokerus"})
           two == [egg |-> Fixed(FALSE), catchRate |-> CatchRateRow]
           three == Gen1Names ++ NotInGen1 ++ Gen1Trainer
<1>1. DOMAIN Gen1Names = {"nickname"} /\ Gen1Names["nickname"] = Text("_nickname", 10)
  BY DEF Gen1Names
<1>2. /\ DOMAIN NotInGen1 = {"gender", "shininess", "heldItem", "nature", "pokerus", "egg", "catchRate"}
      /\ NotInGen1["catchRate"] = CatchRateRow
      /\ \A t \in DOMAIN NotInGen1 : t # "catchRate" => Empty(NotInGen1[t])
  <2>1. DOMAIN two = {"egg", "catchRate"} /\ two["egg"] = Fixed(FALSE) /\ two["catchRate"] = CatchRateRow
    OBVIOUS
  <2>2. Two(NotInGen1, gone, two)
    BY TwoJoined DEF NotInGen1, CatchRateRow
  <2>3. /\ DOMAIN gone = {"gender", "shininess", "heldItem", "nature", "pokerus"}
        /\ \A t \in DOMAIN gone : Empty(gone[t])
    BY WithoutThem
  <2> HIDE DEF gone, two
  <2> QED
    BY <2>1, <2>2, <2>3, EmptyRows DEF Two
<1>3. /\ DOMAIN NotRecordedInGen1 = {"language", "friendship", "ability", "ball", "levelMet", "originalGame",
                                     "personality", "markings", "ribbons", "contestStats"}
      /\ \A t \in DOMAIN NotRecordedInGen1 : Empty(NotRecordedInGen1[t])
  BY WithoutThem DEF NotRecordedInGen1
<1>4. Three(three, Gen1Names, NotInGen1, Gen1Trainer)
  BY ThreeJoined
<1>5. Two(F, three, NotRecordedInGen1)
  BY TwoJoined DEF Rows
<1> HIDE DEF F, gone, two, three
<1>6. /\ DOMAIN three = DOMAIN Gen1Names \cup DOMAIN NotInGen1 \cup DOMAIN Gen1Trainer
      /\ three["nickname"] = Text("_nickname", 10) /\ three["catchRate"] = CatchRateRow
      /\ three["publicId"] = Cell("ot_id", LowIDs) /\ three["trainerId"] = Cell("ot_id", LowIDs)
      /\ three["trainerName"] = Text("_trainer_name", 7)
      /\ \A t \in DOMAIN three \ TraitsIn["gen1"] : Empty(three[t])
  BY <1>1, <1>2, <1>4, Gen1TrainerIs, EmptyRows DEF Three, TraitsIn
<1>7. /\ \A t \in DOMAIN three : F[t] = three[t]
      /\ DOMAIN F = DOMAIN three \cup DOMAIN NotRecordedInGen1
      /\ \A t \in DOMAIN NotRecordedInGen1 : Empty(F[t])
  BY <1>1, <1>2, <1>3, <1>5, <1>6, Gen1TrainerIs DEF Two
<1>8. TraitsIn["gen1"] \subseteq DOMAIN three
  BY <1>1, <1>2, <1>6, Gen1TrainerIs DEF TraitsIn
<1>9. "location" \notin DOMAIN F
  BY <1>1, <1>2, <1>3, <1>6, <1>7, Gen1TrainerIs
<1>10. RestIsEmpty("gen1", F)
  BY <1>6, <1>7, <1>8, <1>9 DEF RestIsEmpty
<1>11. /\ F["nickname"] = three["nickname"] /\ F["catchRate"] = three["catchRate"]
       /\ F["publicId"] = three["publicId"] /\ F["trainerId"] = three["trainerId"]
       /\ F["trainerName"] = three["trainerName"]
  BY <1>7, <1>8 DEF TraitsIn
<1> QED
  BY <1>6, <1>10, <1>11 DEF IsGen1Table, F

IsGen2Table(F) ==
  /\ F["nickname"] = Text("_nickname", 10) /\ F["egg"] = Cell("_is_egg", BOOLEAN)
  /\ F["heldItem"] = Coded("item", Inverse(ItemAt), Refused)
  /\ F["pokerus"] = Number("pokerus", 0, 4, 0..15)
  /\ F["publicId"] = Cell("ot_id", LowIDs) /\ F["trainerId"] = Cell("ot_id", LowIDs)
  /\ F["trainerName"] = Text("_trainer_name", 7)
  /\ F["trainerGender"] = Gender("caught_data", 7)
  /\ F["friendship"] = Cell("friendship", 0..255)
  /\ F["levelMet"] = Number("caught_data", 8, 6, 2..63)
  /\ RestIsEmpty("gen2", F)

LEMMA Gen2TableIs == IsGen2Table(Rows["gen2"])
<1> DEFINE F == Rows["gen2"]
           item == [heldItem |-> Coded("item", Inverse(ItemAt), Refused)]
           gender == [trainerGender |-> Gender("caught_data", 7)]
           care == [friendship |-> Cell("friendship", 0..255), levelMet |-> Number("caught_data", 8, 6, 2..63)]
           five == Gen2Names ++ Gen2Item ++ Gen2Pokerus ++ Gen2Trainer ++ Gen2Care
<1>1. /\ DOMAIN Gen2Names = {"nickname", "egg"}
      /\ Gen2Names["nickname"] = Text("_nickname", 10) /\ Gen2Names["egg"] = Cell("_is_egg", BOOLEAN)
  BY DEF Gen2Names
<1>2. /\ DOMAIN Gen2Item = {"heldItem", "nature"} /\ Gen2Item["heldItem"] = Coded("item", Inverse(ItemAt), Refused)
      /\ Empty(Gen2Item["nature"])
  <2>1. DOMAIN item = {"heldItem"} /\ item["heldItem"] = Coded("item", Inverse(ItemAt), Refused)
    OBVIOUS
  <2>2. Two(Gen2Item, item, Without({"nature"}))
    BY TwoJoined DEF Gen2Item
  <2> HIDE DEF item
  <2> QED
    BY <2>1, <2>2, WithoutThem DEF Two
<1>3. DOMAIN Gen2Pokerus = {"pokerus"} /\ Gen2Pokerus["pokerus"] = Number("pokerus", 0, 4, 0..15)
  BY DEF Gen2Pokerus
<1>4. /\ DOMAIN Gen2Trainer = {"publicId", "secretId", "trainerId", "trainerName", "trainerGender"}
      /\ Gen2Trainer["publicId"] = Cell("ot_id", LowIDs) /\ Gen2Trainer["trainerId"] = Cell("ot_id", LowIDs)
      /\ Empty(Gen2Trainer["secretId"]) /\ Gen2Trainer["trainerName"] = Text("_trainer_name", 7)
      /\ Gen2Trainer["trainerGender"] = Gender("caught_data", 7)
  <2>1. DOMAIN gender = {"trainerGender"} /\ gender["trainerGender"] = Gender("caught_data", 7)
    OBVIOUS
  <2>2. Two(Gen2Trainer, gender, Gen1Trainer)
    BY TwoJoined DEF Gen2Trainer
  <2> HIDE DEF gender
  <2> QED
    BY <2>1, <2>2, Gen1TrainerIs, EmptyRows DEF Two
<1>5. /\ DOMAIN Gen2Care = {"friendship", "levelMet", "language", "ability", "ball"}
      /\ Gen2Care["friendship"] = Cell("friendship", 0..255)
      /\ Gen2Care["levelMet"] = Number("caught_data", 8, 6, 2..63)
      /\ Empty(Gen2Care["language"]) /\ Empty(Gen2Care["ability"]) /\ Empty(Gen2Care["ball"])
  <2>1. /\ DOMAIN care = {"friendship", "levelMet"} /\ care["friendship"] = Cell("friendship", 0..255)
        /\ care["levelMet"] = Number("caught_data", 8, 6, 2..63)
    OBVIOUS
  <2>2. Two(Gen2Care, care, Without({"language", "ability", "ball"}))
    BY TwoJoined DEF Gen2Care
  <2> HIDE DEF care
  <2> QED
    BY <2>1, <2>2, WithoutThem DEF Two
<1>6. /\ DOMAIN NotRecordedInGen2 = {"originalGame", "personality", "markings", "ribbons", "contestStats"}
      /\ \A t \in DOMAIN NotRecordedInGen2 : Empty(NotRecordedInGen2[t])
  BY WithoutThem DEF NotRecordedInGen2
<1>7. Five(five, Gen2Names, Gen2Item, Gen2Pokerus, Gen2Trainer, Gen2Care)
  BY FiveJoined
<1>8. Two(F, five, NotRecordedInGen2)
  BY TwoJoined DEF Rows
<1> HIDE DEF F, item, gender, care, five
<1>9. /\ DOMAIN five = {"nickname", "egg", "heldItem", "nature", "pokerus", "publicId", "secretId", "trainerId",
                        "trainerName", "trainerGender", "friendship", "levelMet", "language", "ability", "ball"}
      /\ \A t \in DOMAIN Gen2Names : five[t] = Gen2Names[t]
      /\ \A t \in DOMAIN Gen2Item : five[t] = Gen2Item[t]
      /\ \A t \in DOMAIN Gen2Pokerus : five[t] = Gen2Pokerus[t]
      /\ \A t \in DOMAIN Gen2Trainer : five[t] = Gen2Trainer[t]
      /\ \A t \in DOMAIN Gen2Care : five[t] = Gen2Care[t]
  BY <1>1, <1>2, <1>3, <1>4, <1>5, <1>7 DEF Five
<1>10. /\ \A t \in DOMAIN five : F[t] = five[t]
       /\ DOMAIN F = DOMAIN five \cup DOMAIN NotRecordedInGen2
       /\ \A t \in DOMAIN NotRecordedInGen2 : Empty(F[t])
  BY <1>6, <1>8, <1>9 DEF Two
<1>11. TraitsIn["gen2"] \subseteq DOMAIN five
  BY <1>9 DEF TraitsIn
<1>12. \A t \in DOMAIN five \ TraitsIn["gen2"] : Empty(F[t])
  <2>1. DOMAIN five \ TraitsIn["gen2"] = {"nature", "secretId", "language", "ability", "ball"}
    BY <1>9 DEF TraitsIn
  <2>2. Empty(F["nature"]) /\ Empty(F["secretId"]) /\ Empty(F["language"]) /\ Empty(F["ability"]) /\ Empty(F["ball"])
    BY <1>2, <1>4, <1>5, <1>9, <1>10
  <2> QED
    BY <2>1, <2>2
<1>13. "location" \notin DOMAIN F
  BY <1>6, <1>9, <1>10
<1>14. RestIsEmpty("gen2", F)
  BY <1>10, <1>11, <1>12, <1>13 DEF RestIsEmpty
<1>15. /\ F["nickname"] = Gen2Names["nickname"] /\ F["egg"] = Gen2Names["egg"]
       /\ F["heldItem"] = Gen2Item["heldItem"] /\ F["pokerus"] = Gen2Pokerus["pokerus"]
       /\ F["publicId"] = Gen2Trainer["publicId"] /\ F["trainerId"] = Gen2Trainer["trainerId"]
       /\ F["trainerName"] = Gen2Trainer["trainerName"] /\ F["trainerGender"] = Gen2Trainer["trainerGender"]
       /\ F["friendship"] = Gen2Care["friendship"] /\ F["levelMet"] = Gen2Care["levelMet"]
  BY <1>1, <1>2, <1>3, <1>4, <1>5, <1>9, <1>10
<1> QED
  BY <1>1, <1>2, <1>3, <1>4, <1>5, <1>14, <1>15 DEF IsGen2Table, F

GBAGameRow == Row("origin_info", 7..10, InWord(AnyGame, 7), Inverse(InWord(GameCodes, 7)), Refused)

IsGBATable(F) ==
  /\ F["nickname"] = Text("nickname", 10) /\ F["egg"] = Cell("egg", BOOLEAN)
  /\ \A t \in IDs : F[t] = IDParts("ot_id", AllIDs)[t]
  /\ F["trainerName"] = Text("otname", 7) /\ F["pokerus"] = Number("pokerus", 0, 4, 0..15)
  /\ F["trainerGender"] = Gender("origin_info", 15) /\ F["language"] = Coded("language", GBALanguage, "ENGLISH")
  /\ F["friendship"] = Cell("friendship", 0..255)
  /\ F["ball"] = Part("origin_info", 11, 4, BallNumber, "INVALID")
  /\ F["levelMet"] = Number("origin_info", 0, 7, 0..100)
  /\ F["originalGame"] = GBAGameRow
  /\ RestIsEmpty("gba", F)

LEMMA GBATableIs == IsGBATable(Rows["gba"])
<1> DEFINE F == Rows["gba"]
           ids == IDParts("ot_id", AllIDs)
           two == [trainerName |-> Text("otname", 7), pokerus |-> Number("pokerus", 0, 4, 0..15)]
<1>1. /\ DOMAIN GBANames = {"nickname", "egg"}
      /\ GBANames["nickname"] = Text("nickname", 10) /\ GBANames["egg"] = Cell("egg", BOOLEAN)
  BY DEF GBANames
<1>2. /\ DOMAIN GBATrainer = {"publicId", "secretId", "trainerId", "trainerName", "pokerus"}
      /\ \A t \in IDs : GBATrainer[t] = ids[t]
      /\ GBATrainer["trainerName"] = Text("otname", 7) /\ GBATrainer["pokerus"] = Number("pokerus", 0, 4, 0..15)
  <2>1. /\ DOMAIN two = {"trainerName", "pokerus"} /\ two["trainerName"] = Text("otname", 7)
        /\ two["pokerus"] = Number("pokerus", 0, 4, 0..15)
    OBVIOUS
  <2>2. Two(GBATrainer, ids, two)
    BY TwoJoined DEF GBATrainer
  <2>3. DOMAIN ids = {"publicId", "secretId", "trainerId"}
    BY IDPartsAre
  <2> HIDE DEF ids, two
  <2> QED
    BY <2>1, <2>2, <2>3 DEF Two, IDs
<1>3. /\ DOMAIN GBACare = {"trainerGender", "language", "friendship"}
      /\ GBACare["trainerGender"] = Gender("origin_info", 15)
      /\ GBACare["language"] = Coded("language", GBALanguage, "ENGLISH")
      /\ GBACare["friendship"] = Cell("friendship", 0..255)
  BY DEF GBACare
<1>4. /\ DOMAIN GBACapture = {"ball", "levelMet"}
      /\ GBACapture["ball"] = Part("origin_info", 11, 4, BallNumber, "INVALID")
      /\ GBACapture["levelMet"] = Number("origin_info", 0, 7, 0..100)
  BY DEF GBACapture
<1>5. DOMAIN GBAOrigin = {"originalGame"} /\ GBAOrigin["originalGame"] = GBAGameRow
  BY DEF GBAOrigin, GBAGameRow
<1>6. Five(F, GBANames, GBATrainer, GBACare, GBACapture, GBAOrigin)
  BY FiveJoined DEF Rows
<1> HIDE DEF F, ids, two
<1>7. /\ DOMAIN F = TraitsIn["gba"]
      /\ \A t \in DOMAIN GBANames : F[t] = GBANames[t]
      /\ \A t \in DOMAIN GBATrainer : F[t] = GBATrainer[t]
      /\ \A t \in DOMAIN GBACare : F[t] = GBACare[t]
      /\ \A t \in DOMAIN GBACapture : F[t] = GBACapture[t]
      /\ \A t \in DOMAIN GBAOrigin : F[t] = GBAOrigin[t]
  BY <1>1, <1>2, <1>3, <1>4, <1>5, <1>6 DEF Five, TraitsIn
<1>8. RestIsEmpty("gba", F)
  BY <1>7 DEF RestIsEmpty, TraitsIn
<1>9. /\ F["nickname"] = GBANames["nickname"] /\ F["egg"] = GBANames["egg"]
      /\ \A t \in IDs : F[t] = GBATrainer[t]
      /\ F["trainerName"] = GBATrainer["trainerName"] /\ F["pokerus"] = GBATrainer["pokerus"]
      /\ F["trainerGender"] = GBACare["trainerGender"] /\ F["language"] = GBACare["language"]
      /\ F["friendship"] = GBACare["friendship"] /\ F["ball"] = GBACapture["ball"]
      /\ F["levelMet"] = GBACapture["levelMet"] /\ F["originalGame"] = GBAOrigin["originalGame"]
  BY <1>1, <1>2, <1>3, <1>4, <1>5, <1>7 DEF IDs
<1> QED
  BY <1>1, <1>2, <1>3, <1>4, <1>5, <1>8, <1>9 DEF IsGBATable, F, ids

GCNGameRow == Row("game", {}, AnyGame, Inverse(GameCodes), Refused)

IsGCNTable(F) ==
  /\ F["nickname"] = Text("name", 10) /\ F["egg"] = Cell("egg", BOOLEAN)
  /\ \A t \in IDs : F[t] = IDParts("TID_SID", AllIDs)[t]
  /\ F["trainerName"] = Text("OTName", 7) /\ F["pokerus"] = Number("pokerus", 0, 4, 0..15)
  /\ F["trainerGender"] = Cell("OTGender", {"MALE", "FEMALE"})
  /\ F["language"] = Coded("language", GCNLanguage, "ENGLISH")
  /\ F["friendship"] = Cell("friendship", 0..255)
  /\ F["ball"] = Coded("ball", BallNumber, "INVALID")
  /\ F["levelMet"] = Cell("levelMet", 0..100)
  /\ F["originalGame"] = GCNGameRow
  /\ RestIsEmpty("gcn", F)

LEMMA GCNTableIs == IsGCNTable(Rows["gcn"])
<1> DEFINE F == Rows["gcn"]
           ids == IDParts("TID_SID", AllIDs)
           two == [trainerName |-> Text("OTName", 7), pokerus |-> Number("pokerus", 0, 4, 0..15)]
<1>1. /\ DOMAIN GCNNames = {"nickname", "egg"}
      /\ GCNNames["nickname"] = Text("name", 10) /\ GCNNames["egg"] = Cell("egg", BOOLEAN)
  BY DEF GCNNames
<1>2. /\ DOMAIN GCNTrainer = {"publicId", "secretId", "trainerId", "trainerName", "pokerus"}
      /\ \A t \in IDs : GCNTrainer[t] = ids[t]
      /\ GCNTrainer["trainerName"] = Text("OTName", 7) /\ GCNTrainer["pokerus"] = Number("pokerus", 0, 4, 0..15)
  <2>1. /\ DOMAIN two = {"trainerName", "pokerus"} /\ two["trainerName"] = Text("OTName", 7)
        /\ two["pokerus"] = Number("pokerus", 0, 4, 0..15)
    OBVIOUS
  <2>2. Two(GCNTrainer, ids, two)
    BY TwoJoined DEF GCNTrainer
  <2>3. DOMAIN ids = {"publicId", "secretId", "trainerId"}
    BY IDPartsAre
  <2> HIDE DEF ids, two
  <2> QED
    BY <2>1, <2>2, <2>3 DEF Two, IDs
<1>3. /\ DOMAIN GCNCare = {"trainerGender", "language", "friendship"}
      /\ GCNCare["trainerGender"] = Cell("OTGender", {"MALE", "FEMALE"})
      /\ GCNCare["language"] = Coded("language", GCNLanguage, "ENGLISH")
      /\ GCNCare["friendship"] = Cell("friendship", 0..255)
  BY DEF GCNCare
<1>4. /\ DOMAIN GCNCapture = {"ball", "levelMet"}
      /\ GCNCapture["ball"] = Coded("ball", BallNumber, "INVALID")
      /\ GCNCapture["levelMet"] = Cell("levelMet", 0..100)
  BY DEF GCNCapture
<1>5. DOMAIN GCNOrigin = {"originalGame"} /\ GCNOrigin["originalGame"] = GCNGameRow
  BY DEF GCNOrigin, GCNGameRow
<1>6. Five(F, GCNNames, GCNTrainer, GCNCare, GCNCapture, GCNOrigin)
  BY FiveJoined DEF Rows
<1> HIDE DEF F, ids, two
<1>7. /\ DOMAIN F = TraitsIn["gcn"]
      /\ \A t \in DOMAIN GCNNames : F[t] = GCNNames[t]
      /\ \A t \in DOMAIN GCNTrainer : F[t] = GCNTrainer[t]
      /\ \A t \in DOMAIN GCNCare : F[t] = GCNCare[t]
      /\ \A t \in DOMAIN GCNCapture : F[t] = GCNCapture[t]
      /\ \A t \in DOMAIN GCNOrigin : F[t] = GCNOrigin[t]
  BY <1>1, <1>2, <1>3, <1>4, <1>5, <1>6 DEF Five, TraitsIn
<1>8. RestIsEmpty("gcn", F)
  BY <1>7 DEF RestIsEmpty, TraitsIn
<1>9. /\ F["nickname"] = GCNNames["nickname"] /\ F["egg"] = GCNNames["egg"]
      /\ \A t \in IDs : F[t] = GCNTrainer[t]
      /\ F["trainerName"] = GCNTrainer["trainerName"] /\ F["pokerus"] = GCNTrainer["pokerus"]
      /\ F["trainerGender"] = GCNCare["trainerGender"] /\ F["language"] = GCNCare["language"]
      /\ F["friendship"] = GCNCare["friendship"] /\ F["ball"] = GCNCapture["ball"]
      /\ F["levelMet"] = GCNCapture["levelMet"] /\ F["originalGame"] = GCNOrigin["originalGame"]
  BY <1>1, <1>2, <1>3, <1>4, <1>5, <1>7 DEF IDs
<1> QED
  BY <1>1, <1>2, <1>3, <1>4, <1>5, <1>8, <1>9 DEF IsGCNTable, F, ids

-----------------------------------------------------------------------------
(* What the getter is expected to tell of what the setter took.            *)
Expected(t, v) == IF t = "originalGame" THEN Seen(v) ELSE v

Backs(row, t) == \A v \in DOMAIN row.code : Says(row, row.code[v]) = Expected(t, v)

Good(row, t, cell, mask) == LaidOut(row, cell, mask) /\ Fitting(row) /\ Backs(row, t)

LEMMA SoundIsGood ==
  ASSUME NEW row, NEW t, t # "originalGame", Sound(row)
  PROVE  Good(row, t, row.cell, row.mask)
BY SoundFits, SoundTells DEF Good, LaidOut, Backs, Expected

LEMMA TextsAndCells ==
  ASSUME NEW t, t # "originalGame", NEW cell
  PROVE  /\ \A limit : Good(Text(cell, limit), t, cell, {})
         /\ \A values : Good(Cell(cell, values), t, cell, {})
<1>1. ASSUME NEW limit PROVE Good(Text(cell, limit), t, cell, {})
  <2> DEFINE row == Text(cell, limit)
  <2>1. Sound(row) /\ row.cell = cell /\ row.mask = {}
    BY TextIsSound
  <2> HIDE DEF row
  <2>2. Good(row, t, cell, {})
    BY <2>1, SoundIsGood
  <2> QED
    BY <2>2 DEF row
<1>2. ASSUME NEW values PROVE Good(Cell(cell, values), t, cell, {})
  <2> DEFINE row == Cell(cell, values)
  <2>1. Sound(row) /\ row.cell = cell /\ row.mask = {}
    BY PlainIsSound
  <2> HIDE DEF row
  <2>2. Good(row, t, cell, {})
    BY <2>1, SoundIsGood
  <2> QED
    BY <2>2 DEF row
<1> QED
  BY <1>1, <1>2

LEMMA CodedIsGood ==
  ASSUME NEW t, t # "originalGame", NEW cell, NEW numbers, NEW default, OneToOne(numbers)
  PROVE  Good(Coded(cell, numbers, default), t, cell, {})
<1>1. Sound(Coded(cell, numbers, default))
  BY CodedIsSound DEF OneToOne
<1>2. Coded(cell, numbers, default).cell = cell /\ Coded(cell, numbers, default).mask = {}
  BY DEF Coded, Row
<1> QED
  BY <1>1, <1>2, SoundIsGood

LEMMA NumberIsGood ==
  ASSUME NEW t, t # "originalGame", NEW cell, NEW size \in Sizes, NEW low \in Nat, NEW values \in SUBSET (0..Most(size))
  PROVE  Good(Number(cell, low, size, values), t, cell, low..low+size-1)
<1> DEFINE row == Number(cell, low, size, values)
<1>1. Sound(row) /\ LaidOut(row, cell, low..low+size-1)
  BY NumberIsSound
<1> HIDE DEF row
<1>2. Good(row, t, row.cell, row.mask)
  BY <1>1, SoundIsGood
<1>3. Good(row, t, cell, low..low+size-1)
  BY <1>1, <1>2 DEF LaidOut
<1> QED
  BY <1>3 DEF row

LEMMA PartIsGood ==
  ASSUME NEW t, t # "originalGame", NEW cell, NEW size \in Sizes, NEW low \in Nat, NEW numbers, NEW default,
         OfSize(numbers, size), OneToOne(numbers)
  PROVE  Good(Part(cell, low, size, numbers, default), t, cell, low..low+size-1)
<1> DEFINE row == Part(cell, low, size, numbers, default)
<1>1. Sound(row) /\ LaidOut(row, cell, low..low+size-1)
  BY PartIsSound
<1> HIDE DEF row
<1>2. Good(row, t, row.cell, row.mask)
  BY <1>1, SoundIsGood
<1>3. Good(row, t, cell, low..low+size-1)
  BY <1>1, <1>2 DEF LaidOut
<1> QED
  BY <1>3 DEF row

LEMMA TheSizes ==
  /\ 1 \in Sizes /\ 4 \in Sizes /\ 6 \in Sizes /\ 7 \in Sizes
  /\ Most(1) = 1 /\ Most(4) = 15 /\ Most(6) = 63 /\ Most(7) = 127
BY DEF Sizes, Most, Weight

(* The games and their numbers. *)
LEMMA GamesAre ==
  /\ "colosseum" \in Gen3Games /\ "xd" \in Gen3Games
  /\ \A g \in Gen3Games : Seen(g) \in Gen3Games \ {"xd"}
  /\ DOMAIN GameCodes = Gen3Games \ {"xd"} /\ DOMAIN AnyGame = Gen3Games
  /\ \A g \in Gen3Games : AnyGame[g] = GameCodes[Seen(g)] /\ AnyGame[g] \in 0..15
  /\ \A g \in Gen3Games : g # "xd" => Seen(g) = g
  /\ OfSize(GameCodes, 4) /\ OneToOne(GameCodes)
<1>1. "colosseum" \in Gen3Games /\ "xd" \in Gen3Games
  BY OriginAssumption DEF Gen3Games
<1>2. \A g \in Gen3Games : Seen(g) \in Gen3Games \ {"xd"} /\ (g # "xd" => Seen(g) = g)
  BY <1>1 DEF Seen
<1>3. DOMAIN GameCodes = Gen3Games \ {"xd"} /\ DOMAIN AnyGame = Gen3Games
  BY DEF GameCodes, AnyGame
<1>4. \A g \in Gen3Games : AnyGame[g] = GameIndex[Seen(g)]
  BY DEF AnyGame, Seen
<1>5. \A g \in Gen3Games \ {"xd"} : GameCodes[g] = GameIndex[g]
  BY DEF GameCodes
<1>6. \A g \in Gen3Games : GameIndex[g] \in 0..15
  BY OriginAssumption
<1>7. OfSize(GameCodes, 4)
  BY <1>3, <1>5, <1>6, TheSizes DEF OfSize
<1>8. OneToOne(GameCodes)
  BY <1>3, <1>5, OriginAssumption DEF OneToOne
<1> QED
  BY <1>1, <1>2, <1>3, <1>4, <1>5, <1>6, <1>7, <1>8

LEMMA GameRowsAreGood ==
  /\ Good(GBAGameRow, "originalGame", "origin_info", 7..10)
  /\ Good(GCNGameRow, "originalGame", "game", {})
  /\ DOMAIN GBAGameRow.code = Gen3Games /\ DOMAIN GCNGameRow.code = Gen3Games
  /\ \A g \in Gen3Games : /\ GBAGameRow.code[g] = Up(BitsOf(AnyGame[g]), 7)
                          /\ GCNGameRow.code[g] = AnyGame[g]
<1> DEFINE codes == InWord(GameCodes, 7)
           any == InWord(AnyGame, 7)
<1>1. /\ DOMAIN codes = DOMAIN GameCodes
      /\ \A v \in DOMAIN GameCodes : codes[v] = Up(BitsOf(GameCodes[v]), 7) /\ codes[v] \subseteq 7..7+4-1
      /\ \A v \in DOMAIN GameCodes : codes[v] \in DOMAIN Inverse(codes) /\ Inverse(codes)[codes[v]] = v
  BY GamesAre, InWordIsExact, TheSizes, 7 \in Nat
<1>2. DOMAIN any = Gen3Games /\ \A g \in Gen3Games : any[g] = Up(BitsOf(AnyGame[g]), 7)
  BY GamesAre DEF InWord
<1> HIDE DEF codes, any
<1>3. GBAGameRow = Row("origin_info", 7..10, any, Inverse(codes), Refused)
  BY DEF GBAGameRow, any, codes
<1>4. 7..7+4-1 = 7..10
  OBVIOUS
<1>5. \A g \in Gen3Games : any[g] = codes[Seen(g)] /\ any[g] \subseteq 7..10
  BY <1>1, <1>2, <1>4, GamesAre
<1>6. \A g \in Gen3Games : any[g] \in DOMAIN Inverse(codes) /\ Inverse(codes)[any[g]] = Seen(g)
  BY <1>1, <1>5, GamesAre
<1> DEFINE row == Row("origin_info", 7..10, any, Inverse(codes), Refused)
<1>7. row.cell = "origin_info" /\ row.mask = 7..10 /\ row.code = any /\ row.told = Inverse(codes)
  BY DEF Row
<1> HIDE DEF row
<1>8. Good(row, "originalGame", "origin_info", 7..10)
  BY <1>2, <1>5, <1>6, <1>7 DEF Good, LaidOut, Fitting, Backs, Says, Expected
<1>9. /\ GCNGameRow.cell = "game" /\ GCNGameRow.mask = {} /\ GCNGameRow.code = AnyGame
      /\ GCNGameRow.told = Inverse(GameCodes)
  BY DEF GCNGameRow, Row
<1>10. \A g \in DOMAIN GameCodes : GameCodes[g] \in DOMAIN Inverse(GameCodes) /\ Inverse(GameCodes)[GameCodes[g]] = g
  BY GamesAre, InverseIsExact DEF OneToOne
<1>11. \A g \in Gen3Games : AnyGame[g] \in DOMAIN Inverse(GameCodes) /\ Inverse(GameCodes)[AnyGame[g]] = Seen(g)
  BY <1>10, GamesAre
<1>12. Good(GCNGameRow, "originalGame", "game", {})
  BY <1>9, <1>11, GamesAre DEF Good, LaidOut, Fitting, Backs, Says, Expected
<1> QED
  BY <1>2, <1>3, <1>7, <1>8, <1>9, <1>12, GamesAre DEF row

(* The other tables of numbers. *)
LEMMA TablesAreOneToOne ==
  /\ OneToOne(GBALanguage) /\ OneToOne(GCNLanguage)
  /\ OneToOne(BallNumber) /\ OfSize(BallNumber, 4)
  /\ OneToOne(Inverse(ItemAt))
<1>1. OneToOne(GBALanguage) /\ OneToOne(GCNLanguage)
  BY DEF OneToOne, GBALanguage, GCNLanguage
<1>2. OneToOne(BallNumber) /\ OfSize(BallNumber, 4)
  BY TheSizes DEF OneToOne, BallNumber, OfSize
<1>3. ASSUME NEW v \in DOMAIN Inverse(ItemAt) PROVE ItemAt[Inverse(ItemAt)[v]] = v
  <2>1. v \in {ItemAt[n] : n \in DOMAIN ItemAt}
    BY DEF Inverse
  <2>2. Inverse(ItemAt)[v] = CHOOSE n \in DOMAIN ItemAt : ItemAt[n] = v
    BY <2>1 DEF Inverse
  <2> QED
    BY <2>1, <2>2
<1>4. OneToOne(Inverse(ItemAt))
  BY <1>3 DEF OneToOne
<1> QED
  BY <1>1, <1>2, <1>4

-----------------------------------------------------------------------------
(* Places.  A set of numbers of one byte has a greatest.                   *)
Below == {pair \in Nat \X Nat : pair[1] < pair[2]}

LEMMA GreatestIsThere ==
  ASSUME NEW S \in SUBSET (0..255), S # {}
  PROVE  Greatest(S) \in S /\ \A y \in S : y <= Greatest(S)
<1> DEFINE T == {255 - s : s \in S}
<1>1. T \subseteq Nat /\ T # {}
  <2>1. \A s \in S : 255 - s \in Nat /\ 255 - s \in T
    OBVIOUS
  <2>2. T \subseteq Nat
    BY <2>1
  <2>3. T # {}
    BY <2>1
  <2> QED
    BY <2>2, <2>3
<1> HIDE DEF T
<1>2. IsWellFoundedOn(Below, Nat)
  <2>1. IsWellFoundedOn(OpToRel(<, Nat), Nat)
    BY NatLessThanWellFounded
  <2> QED
    BY <2>1 DEF OpToRel, Below
<1>3. PICK x \in T : \A y \in T : <<y, x>> \notin Below
  BY <1>1, <1>2, WFMin
<1>4. \A y \in T : ~(y < x) /\ y \in Nat /\ x \in Nat
  BY <1>1, <1>3 DEF Below
<1>5. PICK s \in S : x = 255 - s
  BY DEF T
<1>6. ASSUME NEW y \in S PROVE y <= s
  <2>1. 255 - y \in T
    BY DEF T
  <2>2. ~(255 - y < 255 - s)
    BY <1>4, <1>5, <2>1
  <2> QED
    BY <2>2
<1> QED
  BY <1>5, <1>6 DEF Greatest

(* What is stored of a place of a game of Generation III, and read again.  *)
PlacesTell(g) ==
  \A p \in DOMAIN PlaceNumber(g) :
    /\ PlaceNumber(g)[p] \in Nat
    /\ PlaceNumber(g)[p] \in DOMAIN PlaceAt(g)
    /\ PlaceAt(g)[PlaceNumber(g)[p]] = p
    /\ g \in GamesOf["gcn"] => PlaceNumber(g)[p] <= 255

LEMMA PlacesOfTheGBA ==
  ASSUME NEW g \in GamesOf["gba"] \cup GamesOf["gen2"]
  PROVE  PlaceNumber(g) = PlaceIndex[g] /\ g \notin GamesOf["gcn"] /\ PlacesTell(g)
<1>1. g \notin GamesOf["gcn"]
  BY OriginAssumption DEF Classes
<1>2. PlaceNumber(g) = PlaceIndex[g] /\ PlaceAt(g) = Inverse(PlaceIndex[g])
  BY <1>1 DEF PlaceNumber, PlaceAt
<1>3. \A p, q \in DOMAIN PlaceIndex[g] : PlaceIndex[g][p] \in Nat /\ (PlaceIndex[g][p] = PlaceIndex[g][q] => p = q)
  BY PlacesAssumption
<1>4. \A p \in DOMAIN PlaceIndex[g] : /\ PlaceIndex[g][p] \in DOMAIN Inverse(PlaceIndex[g])
                                      /\ Inverse(PlaceIndex[g])[PlaceIndex[g][p]] = p
  BY <1>3, InverseIsExact
<1> QED
  BY <1>1, <1>2, <1>3, <1>4 DEF PlacesTell

LEMMA PlacesOfTheGameCube ==
  ASSUME NEW g \in GamesOf["gcn"]
  PROVE  PlacesTell(g)
<1> DEFINE starts == RangeStarts[g]
           of(p) == {s \in DOMAIN starts : starts[s] = p}
           upTo(n) == {s \in DOMAIN starts : s <= n}
           last(p) == Greatest(of(p))
           places == {starts[s] : s \in DOMAIN starts}
           stored == {q \in places : last(q) > 0}
<1>1. DOMAIN starts \subseteq 0..255
  BY PlacesAssumption
<1>2. PlaceNumber(g) = [p \in stored |-> last(p)]
  BY DEF PlaceNumber
<1>3. PlaceAt(g) = [n \in 0..255 |-> starts[Greatest(upTo(n))]]
  BY DEF PlaceAt
<1>4. ASSUME NEW p \in places PROVE last(p) \in DOMAIN starts /\ starts[last(p)] = p
  <2>1. of(p) \in SUBSET (0..255) /\ of(p) # {}
    BY <1>1, <1>4
  <2> HIDE DEF of
  <2>2. last(p) \in of(p)
    BY <2>1, GreatestIsThere
  <2> QED
    BY <2>2 DEF of
<1>5. ASSUME NEW n \in DOMAIN starts PROVE Greatest(upTo(n)) = n
  <2>1. upTo(n) \in SUBSET (0..255) /\ n \in upTo(n)
    BY <1>1, <1>5
  <2>2. Greatest(upTo(n)) \in upTo(n) /\ n <= Greatest(upTo(n))
    <3> HIDE DEF upTo
    <3> QED
      BY <2>1, GreatestIsThere
  <2> DEFINE top == Greatest(upTo(n))
  <2>3. top \in 0..255 /\ n \in 0..255 /\ top <= n /\ n <= top
    BY <1>1, <2>1, <2>2
  <2> HIDE DEF top
  <2>4. top = n
    BY <2>3
  <2> QED
    BY <2>4 DEF top
<1> HIDE DEF starts, of, upTo, last
<1>6. ASSUME NEW p \in stored
      PROVE  /\ PlaceNumber(g)[p] = last(p) /\ last(p) \in 0..255
             /\ PlaceAt(g)[last(p)] = p
  <2>1. p \in places /\ last(p) \in DOMAIN starts /\ starts[last(p)] = p
    BY <1>4
  <2>2. last(p) \in 0..255
    BY <1>1, <2>1
  <2>3. PlaceAt(g)[last(p)] = starts[Greatest(upTo(last(p)))]
    BY <1>3, <2>2
  <2> QED
    BY <1>2, <1>5, <2>1, <2>2, <2>3
<1>7. DOMAIN PlaceNumber(g) = stored /\ DOMAIN PlaceAt(g) = 0..255
  BY <1>2, <1>3
<1> QED
  BY <1>6, <1>7 DEF PlacesTell

-----------------------------------------------------------------------------
(* Where each class keeps what it knows.                                   *)
CellIn ==
  [ gen1 |-> [nickname |-> "_nickname", catchRate |-> "catch_rate", publicId |-> "ot_id",
              trainerId |-> "ot_id", trainerName |-> "_trainer_name"],
    gen2 |-> [nickname |-> "_nickname", egg |-> "_is_egg", heldItem |-> "item", pokerus |-> "pokerus",
              publicId |-> "ot_id", trainerId |-> "ot_id", trainerName |-> "_trainer_name",
              trainerGender |-> "caught_data", friendship |-> "friendship", levelMet |-> "caught_data",
              location |-> "caught_data"],
    gba |-> [nickname |-> "nickname", egg |-> "egg", publicId |-> "ot_id", secretId |-> "ot_id",
             trainerId |-> "ot_id", trainerName |-> "otname", pokerus |-> "pokerus",
             trainerGender |-> "origin_info", language |-> "language", friendship |-> "friendship",
             ball |-> "origin_info", levelMet |-> "origin_info", originalGame |-> "origin_info",
             location |-> "met_location"],
    gcn |-> [nickname |-> "name", egg |-> "egg", publicId |-> "TID_SID", secretId |-> "TID_SID",
             trainerId |-> "TID_SID", trainerName |-> "OTName", pokerus |-> "pokerus",
             trainerGender |-> "OTGender", language |-> "language", friendship |-> "friendship",
             ball |-> "ball", levelMet |-> "levelMet", originalGame |-> "game", location |-> "location"] ]

Has(c) == DOMAIN CellIn[c]

CellsHeld ==
  [ gen1 |-> {"ot_id", "catch_rate", "_nickname", "_trainer_name"},
    gen2 |-> {"ot_id", "item", "friendship", "pokerus", "caught_data", "_is_egg", "_nickname", "_trainer_name"},
    gba |-> {"nickname", "otname", "ot_id", "egg", "language", "friendship", "pokerus", "pokerus_time",
             "met_location", "origin_info"},
    gcn |-> {"name", "OTName", "TID_SID", "egg", "language", "friendship", "pokerus", "days", "location",
             "OTGender", "ball", "levelMet", "game"} ]

LEMMA WhatIsWhere ==
  /\ Has("gen1") = TraitsIn["gen1"]
  /\ \A c \in Classes \ {"gen1"} : Has(c) = TraitsIn[c] \cup {"location"}
  /\ \A c \in Classes : \A t \in Has(c) : CellIn[c][t] \in CellsHeld[c]
<1>1. Has("gen1") = TraitsIn["gen1"] /\ \A t \in Has("gen1") : CellIn["gen1"][t] \in CellsHeld["gen1"]
  BY DEF Has, CellIn, TraitsIn, CellsHeld
<1>2. /\ Has("gen2") = TraitsIn["gen2"] \cup {"location"}
      /\ \A t \in Has("gen2") : CellIn["gen2"][t] \in CellsHeld["gen2"]
  BY DEF Has, CellIn, TraitsIn, CellsHeld
<1>3. /\ Has("gba") = TraitsIn["gba"] \cup {"location"}
      /\ \A t \in Has("gba") : CellIn["gba"][t] \in CellsHeld["gba"]
  BY DEF Has, CellIn, TraitsIn, CellsHeld
<1>4. /\ Has("gcn") = TraitsIn["gcn"] \cup {"location"}
      /\ \A t \in Has("gcn") : CellIn["gcn"][t] \in CellsHeld["gcn"]
  BY DEF Has, CellIn, TraitsIn, CellsHeld
<1> QED
  BY <1>1, <1>2, <1>3, <1>4 DEF Classes

(* Two traits of a class share a cell in these cases only. *)
Sharing == [gen1 |-> {}, gen2 |-> {"trainerGender", "levelMet", "location"},
            gba |-> {"trainerGender", "ball", "levelMet", "originalGame"}, gcn |-> {}]

LEMMA CellsAreTheirOwn ==
  ASSUME NEW c \in Classes, NEW t \in Has(c), NEW o \in Has(c), CellIn[c][t] = CellIn[c][o]
  PROVE  t = o \/ {t, o} \subseteq IDs \/ {t, o} \subseteq Sharing[c]
<1>1. CASE c = "gen1"
  BY <1>1 DEF Has, CellIn, IDs, Sharing
<1>2. CASE c = "gen2"
  BY <1>2 DEF Has, CellIn, IDs, Sharing
<1>3. CASE c = "gba"
  BY <1>3 DEF Has, CellIn, IDs, Sharing
<1>4. CASE c = "gcn"
  BY <1>4 DEF Has, CellIn, IDs, Sharing
<1> QED
  BY <1>1, <1>2, <1>3, <1>4 DEF Classes

-----------------------------------------------------------------------------
GoodGame(c, g) ==
  /\ c \in Classes /\ g \in AllGames
  /\ c # "gba" => g \in GamesOf[c]
  /\ c = "gba" => g \in Gen3Games

LEMMA RowsOfTraits ==
  ASSUME NEW c, NEW g
  PROVE  \A t : t # "location" => RowOf(c, g, t) = Rows[c][t]
BY DEF RowOf

(* Each row is in its cell, fits, and tells what it stored; but a place of *)
(* the GBA with too great a number.                                        *)
TellsBack(c, g, t) ==
  \A v \in DOMAIN RowOf(c, g, t).code :
    \/ Says(RowOf(c, g, t), RowOf(c, g, t).code[v]) = Expected(t, v)
    \/ t = "location" /\ c = "gba" /\ PlaceNumber(g)[v] > 255

InPlace(c, g, t) ==
  RowOf(c, g, t).cell = CellIn[c][t] /\ Fitting(RowOf(c, g, t)) /\ TellsBack(c, g, t)

LEMMA GoodIsInPlace ==
  ASSUME NEW c, NEW g, NEW t, NEW mask, Good(RowOf(c, g, t), t, CellIn[c][t], mask)
  PROVE  InPlace(c, g, t)
BY DEF Good, LaidOut, Backs, InPlace, TellsBack

LEMMA Gen1Good ==
  ASSUME NEW t \in Has("gen1")
  PROVE  Good(Rows["gen1"][t], t, CellIn["gen1"][t], {})
<1> DEFINE F == Rows["gen1"]
<1>1. IsGen1Table(F)
  BY Gen1TableIs
<1> HIDE DEF F
<1>2. Good(F["nickname"], "nickname", "_nickname", {})
  <2>1. F["nickname"] = Text("_nickname", 10)
    BY <1>1 DEF IsGen1Table
  <2>2. Good(Text("_nickname", 10), "nickname", "_nickname", {})
    BY TextsAndCells
  <2> QED
    BY <2>1, <2>2
<1>3. Good(F["trainerName"], "trainerName", "_trainer_name", {})
  <2>1. F["trainerName"] = Text("_trainer_name", 7)
    BY <1>1 DEF IsGen1Table
  <2>2. Good(Text("_trainer_name", 7), "trainerName", "_trainer_name", {})
    BY TextsAndCells
  <2> QED
    BY <2>1, <2>2
<1>6. Good(F["publicId"], "publicId", "ot_id", {})
  <2>1. F["publicId"] = Cell("ot_id", LowIDs)
    BY <1>1 DEF IsGen1Table
  <2>2. Good(Cell("ot_id", LowIDs), "publicId", "ot_id", {})
    BY TextsAndCells
  <2> QED
    BY <2>1, <2>2
<1>7. Good(F["trainerId"], "trainerId", "ot_id", {})
  <2>1. F["trainerId"] = Cell("ot_id", LowIDs)
    BY <1>1 DEF IsGen1Table
  <2>2. Good(Cell("ot_id", LowIDs), "trainerId", "ot_id", {})
    BY TextsAndCells
  <2> QED
    BY <2>1, <2>2
<1>4. Good(F["catchRate"], "catchRate", "catch_rate", {})
  <2>1. F["catchRate"] = Row("catch_rate", {}, Same({}), Same(0..255), Refused)
    BY <1>1 DEF IsGen1Table, CatchRateRow
  <2> QED
    BY <2>1 DEF Good, LaidOut, Fitting, Backs, Row, Same
<1>5. /\ CellIn["gen1"]["nickname"] = "_nickname" /\ CellIn["gen1"]["trainerName"] = "_trainer_name"
      /\ CellIn["gen1"]["publicId"] = "ot_id" /\ CellIn["gen1"]["trainerId"] = "ot_id"
      /\ CellIn["gen1"]["catchRate"] = "catch_rate"
      /\ Has("gen1") = {"nickname", "catchRate", "publicId", "trainerId", "trainerName"}
  BY DEF CellIn, Has
<1>8. Good(F[t], t, CellIn["gen1"][t], {})
  BY <1>2, <1>3, <1>4, <1>5, <1>6, <1>7
<1> QED
  BY <1>8 DEF F

LEMMA Gen1InPlace ==
  ASSUME NEW g, NEW t \in Has("gen1")
  PROVE  InPlace("gen1", g, t)
<1>1. t # "location"
  BY WhatIsWhere DEF TraitsIn
<1> QED
  BY <1>1, RowsOfTraits, Gen1Good, GoodIsInPlace

(* Generation II, where three traits share a word. *)
LEMMA Gen2Good ==
  /\ \A t \in TraitsIn["gen2"] : \E mask : Good(Rows["gen2"][t], t, CellIn["gen2"][t], mask)
  /\ Rows["gen2"]["trainerGender"].mask = {7} /\ Rows["gen2"]["levelMet"].mask = 8..8+6-1
  /\ Rows["gen2"]["levelMet"].code = Number("caught_data", 8, 6, 2..63).code
<1> DEFINE F == Rows["gen2"]
<1>1. IsGen2Table(F)
  BY Gen2TableIs
<1> HIDE DEF F
<1>2. Good(F["nickname"], "nickname", "_nickname", {})
  <2>1. F["nickname"] = Text("_nickname", 10)
    BY <1>1 DEF IsGen2Table
  <2>2. Good(Text("_nickname", 10), "nickname", "_nickname", {})
    BY TextsAndCells
  <2> QED
    BY <2>1, <2>2
<1>3. Good(F["trainerName"], "trainerName", "_trainer_name", {})
  <2>1. F["trainerName"] = Text("_trainer_name", 7)
    BY <1>1 DEF IsGen2Table
  <2>2. Good(Text("_trainer_name", 7), "trainerName", "_trainer_name", {})
    BY TextsAndCells
  <2> QED
    BY <2>1, <2>2
<1>4. Good(F["publicId"], "publicId", "ot_id", {})
  <2>1. F["publicId"] = Cell("ot_id", LowIDs)
    BY <1>1 DEF IsGen2Table
  <2>2. Good(Cell("ot_id", LowIDs), "publicId", "ot_id", {})
    BY TextsAndCells
  <2> QED
    BY <2>1, <2>2
<1>13. Good(F["trainerId"], "trainerId", "ot_id", {})
  <2>1. F["trainerId"] = Cell("ot_id", LowIDs)
    BY <1>1 DEF IsGen2Table
  <2>2. Good(Cell("ot_id", LowIDs), "trainerId", "ot_id", {})
    BY TextsAndCells
  <2> QED
    BY <2>1, <2>2
<1>14. Good(F["egg"], "egg", "_is_egg", {})
  <2>1. F["egg"] = Cell("_is_egg", BOOLEAN)
    BY <1>1 DEF IsGen2Table
  <2>2. Good(Cell("_is_egg", BOOLEAN), "egg", "_is_egg", {})
    BY TextsAndCells
  <2> QED
    BY <2>1, <2>2
<1>15. Good(F["friendship"], "friendship", "friendship", {})
  <2>1. F["friendship"] = Cell("friendship", 0..255)
    BY <1>1 DEF IsGen2Table
  <2>2. Good(Cell("friendship", 0..255), "friendship", "friendship", {})
    BY TextsAndCells
  <2> QED
    BY <2>1, <2>2
<1>5. Good(F["heldItem"], "heldItem", "item", {})
  <2>1. F["heldItem"] = Coded("item", Inverse(ItemAt), Refused)
    BY <1>1 DEF IsGen2Table
  <2>2. OneToOne(Inverse(ItemAt))
    BY TablesAreOneToOne
  <2>3. Good(Coded("item", Inverse(ItemAt), Refused), "heldItem", "item", {})
    BY <2>2, CodedIsGood
  <2> QED
    BY <2>1, <2>3
<1>6. 0..15 \in SUBSET (0..Most(4)) /\ 2..63 \in SUBSET (0..Most(6)) /\ 4 \in Sizes /\ 6 \in Sizes
  BY TheSizes
<1>7. Good(F["pokerus"], "pokerus", "pokerus", 0..0+4-1)
  <2>1. F["pokerus"] = Number("pokerus", 0, 4, 0..15)
    BY <1>1 DEF IsGen2Table
  <2>2. Good(Number("pokerus", 0, 4, 0..15), "pokerus", "pokerus", 0..0+4-1)
    BY <1>6, NumberIsGood, 0 \in Nat
  <2> QED
    BY <2>1, <2>2
<1>8. F["levelMet"] = Number("caught_data", 8, 6, 2..63) /\ Good(F["levelMet"], "levelMet", "caught_data", 8..8+6-1)
  <2>1. F["levelMet"] = Number("caught_data", 8, 6, 2..63)
    BY <1>1 DEF IsGen2Table
  <2>2. Good(Number("caught_data", 8, 6, 2..63), "levelMet", "caught_data", 8..8+6-1)
    BY <1>6, NumberIsGood, 8 \in Nat
  <2> QED
    BY <2>1, <2>2
<1>9. Good(F["trainerGender"], "trainerGender", "caught_data", {7})
  <2>1. F["trainerGender"] = Gender("caught_data", 7)
    BY <1>1 DEF IsGen2Table
  <2>2. Sound(Gender("caught_data", 7)) /\ LaidOut(Gender("caught_data", 7), "caught_data", {7})
    BY GenderIsSound, 7 \in Nat
  <2> QED
    BY <2>1, <2>2, SoundIsGood DEF LaidOut
<1>10. /\ CellIn["gen2"]["nickname"] = "_nickname" /\ CellIn["gen2"]["trainerName"] = "_trainer_name"
       /\ CellIn["gen2"]["publicId"] = "ot_id" /\ CellIn["gen2"]["trainerId"] = "ot_id"
       /\ CellIn["gen2"]["egg"] = "_is_egg" /\ CellIn["gen2"]["friendship"] = "friendship"
       /\ CellIn["gen2"]["heldItem"] = "item" /\ CellIn["gen2"]["pokerus"] = "pokerus"
       /\ CellIn["gen2"]["levelMet"] = "caught_data" /\ CellIn["gen2"]["trainerGender"] = "caught_data"
       /\ TraitsIn["gen2"] = {"nickname", "egg", "heldItem", "pokerus", "publicId", "trainerId", "trainerName",
                              "trainerGender", "friendship", "levelMet"}
  BY DEF CellIn, TraitsIn
<1>11. ASSUME NEW t \in TraitsIn["gen2"] PROVE \E mask : Good(F[t], t, CellIn["gen2"][t], mask)
  BY <1>2, <1>3, <1>4, <1>5, <1>7, <1>8, <1>9, <1>10, <1>13, <1>14, <1>15
<1>12. F["trainerGender"].mask = {7} /\ F["levelMet"].mask = 8..8+6-1
  BY <1>8, <1>9 DEF Good, LaidOut
<1> QED
  BY <1>8, <1>11, <1>12 DEF F

LEMMA Gen2Place ==
  ASSUME NEW g \in GamesOf["gen2"]
  PROVE  /\ RowOf("gen2", g, "location") = Part("caught_data", 0, 7, PlaceIndex[g], Refused)
         /\ Good(RowOf("gen2", g, "location"), "location", "caught_data", 0..0+7-1)
<1>1. g \in AllGames
  BY DEF AllGames, Classes
<1>2. RowOf("gen2", g, "location") = Part("caught_data", 0, 7, PlaceIndex[g], Refused)
  BY <1>1, PlacesOfTheGBA DEF RowOf, LocationRows, Gen2Location
<1>3. OfSize(PlaceIndex[g], 7) /\ OneToOne(PlaceIndex[g])
  BY PlacesAssumption, TheSizes DEF OfSize, OneToOne
<1>4. Good(Part("caught_data", 0, 7, PlaceIndex[g], Refused), "location", "caught_data", 0..0+7-1)
  <2> DEFINE numbers == PlaceIndex[g]
  <2>1. OfSize(numbers, 7) /\ OneToOne(numbers)
    BY <1>3
  <2> HIDE DEF numbers
  <2>2. 7 \in Sizes /\ 0 \in Nat /\ "location" # "originalGame"
    BY TheSizes
  <2>3. Good(Part("caught_data", 0, 7, numbers, Refused), "location", "caught_data", 0..0+7-1)
    BY <2>1, <2>2, PartIsGood
  <2> QED
    BY <2>3 DEF numbers
<1> QED
  BY <1>2, <1>4

LEMMA Gen2InPlace ==
  ASSUME NEW g \in GamesOf["gen2"], NEW t \in Has("gen2")
  PROVE  InPlace("gen2", g, t)
<1>1. CASE t = "location"
  <2>1. CellIn["gen2"]["location"] = "caught_data"
    BY DEF CellIn
  <2>2. Good(RowOf("gen2", g, t), t, CellIn["gen2"][t], 0..0+7-1)
    BY <1>1, <2>1, Gen2Place
  <2> QED
    BY <2>2, GoodIsInPlace
<1>2. CASE t # "location"
  <2>1. t \in TraitsIn["gen2"]
    BY <1>2, WhatIsWhere DEF Classes
  <2>2. PICK mask : Good(Rows["gen2"][t], t, CellIn["gen2"][t], mask)
    BY <2>1, Gen2Good
  <2>3. RowOf("gen2", g, t) = Rows["gen2"][t]
    BY <1>2, RowsOfTraits
  <2>4. Good(RowOf("gen2", g, t), t, CellIn["gen2"][t], mask)
    BY <2>2, <2>3
  <2> QED
    BY <2>4, GoodIsInPlace
<1> QED
  BY <1>1, <1>2

-----------------------------------------------------------------------------
(* The GBA, where four traits share a word.                                *)
LEMMA GBAGood ==
  /\ \A t \in TraitsIn["gba"] : \E mask : Good(Rows["gba"][t], t, CellIn["gba"][t], mask)
  /\ Rows["gba"]["trainerGender"].mask = {15}
  /\ Rows["gba"]["ball"].mask = 11..11+4-1
  /\ Rows["gba"]["levelMet"].mask = 0..0+7-1
  /\ Rows["gba"]["originalGame"].mask = 7..10
  /\ Rows["gba"]["publicId"].mask = 0..15
  /\ Rows["gba"]["secretId"].mask = 16..31
  /\ Rows["gba"]["trainerId"].mask = {}
<1> DEFINE F == Rows["gba"]
<1>1. IsGBATable(F)
  BY GBATableIs
<1> HIDE DEF F
<1>2. Good(F["nickname"], "nickname", "nickname", {})
  <2>1. F["nickname"] = Text("nickname", 10)
    BY <1>1 DEF IsGBATable
  <2>2. Good(Text("nickname", 10), "nickname", "nickname", {})
    BY TextsAndCells
  <2> QED
    BY <2>1, <2>2
<1>3. Good(F["egg"], "egg", "egg", {})
  <2>1. F["egg"] = Cell("egg", BOOLEAN)
    BY <1>1 DEF IsGBATable
  <2>2. Good(Cell("egg", BOOLEAN), "egg", "egg", {})
    BY TextsAndCells
  <2> QED
    BY <2>1, <2>2
<1>4. Good(F["publicId"], "publicId", "ot_id", 0..15)
  <2>1. F["publicId"] = IDParts("ot_id", AllIDs)["publicId"]
    BY <1>1 DEF IsGBATable, IDs
  <2> DEFINE row == IDParts("ot_id", AllIDs)["publicId"]
  <2>2. Sound(row) /\ row.cell = "ot_id" /\ row.mask = 0..15
    BY IDPartsAre
  <2> HIDE DEF row
  <2>3. Good(row, "publicId", "ot_id", 0..15)
    BY <2>2, SoundIsGood
  <2> QED
    BY <2>1, <2>3 DEF row
<1>5. Good(F["secretId"], "secretId", "ot_id", 16..31)
  <2>1. F["secretId"] = IDParts("ot_id", AllIDs)["secretId"]
    BY <1>1 DEF IsGBATable, IDs
  <2> DEFINE row == IDParts("ot_id", AllIDs)["secretId"]
  <2>2. Sound(row) /\ row.cell = "ot_id" /\ row.mask = 16..31
    BY IDPartsAre
  <2> HIDE DEF row
  <2>3. Good(row, "secretId", "ot_id", 16..31)
    BY <2>2, SoundIsGood
  <2> QED
    BY <2>1, <2>3 DEF row
<1>6. Good(F["trainerId"], "trainerId", "ot_id", {})
  <2>1. F["trainerId"] = IDParts("ot_id", AllIDs)["trainerId"]
    BY <1>1 DEF IsGBATable, IDs
  <2> DEFINE row == IDParts("ot_id", AllIDs)["trainerId"]
  <2>2. Sound(row) /\ row.cell = "ot_id" /\ row.mask = {}
    BY IDPartsAre
  <2> HIDE DEF row
  <2>3. Good(row, "trainerId", "ot_id", {})
    BY <2>2, SoundIsGood
  <2> QED
    BY <2>1, <2>3 DEF row
<1>7. Good(F["trainerName"], "trainerName", "otname", {})
  <2>1. F["trainerName"] = Text("otname", 7)
    BY <1>1 DEF IsGBATable
  <2>2. Good(Text("otname", 7), "trainerName", "otname", {})
    BY TextsAndCells
  <2> QED
    BY <2>1, <2>2
<1>8. Good(F["pokerus"], "pokerus", "pokerus", 0..0+4-1)
  <2>1. F["pokerus"] = Number("pokerus", 0, 4, 0..15)
    BY <1>1 DEF IsGBATable
  <2>2. 0..15 \in SUBSET (0..Most(4)) /\ 4 \in Sizes /\ 0 \in Nat
    BY TheSizes
  <2>3. Good(Number("pokerus", 0, 4, 0..15), "pokerus", "pokerus", 0..0+4-1)
    BY <2>2, NumberIsGood
  <2> QED
    BY <2>1, <2>3
<1>9. Good(F["trainerGender"], "trainerGender", "origin_info", {15})
  <2>1. F["trainerGender"] = Gender("origin_info", 15)
    BY <1>1 DEF IsGBATable
  <2>2. Sound(Gender("origin_info", 15)) /\ LaidOut(Gender("origin_info", 15), "origin_info", {15})
    BY GenderIsSound, 15 \in Nat
  <2> QED
    BY <2>1, <2>2, SoundIsGood DEF LaidOut
<1>10. Good(F["language"], "language", "language", {})
  <2>1. F["language"] = Coded("language", GBALanguage, "ENGLISH")
    BY <1>1 DEF IsGBATable
  <2>2. OneToOne(GBALanguage)
    BY TablesAreOneToOne
  <2>3. Good(Coded("language", GBALanguage, "ENGLISH"), "language", "language", {})
    BY <2>2, CodedIsGood
  <2> QED
    BY <2>1, <2>3
<1>11. Good(F["friendship"], "friendship", "friendship", {})
  <2>1. F["friendship"] = Cell("friendship", 0..255)
    BY <1>1 DEF IsGBATable
  <2>2. Good(Cell("friendship", 0..255), "friendship", "friendship", {})
    BY TextsAndCells
  <2> QED
    BY <2>1, <2>2
<1>12. Good(F["ball"], "ball", "origin_info", 11..11+4-1)
  <2>1. F["ball"] = Part("origin_info", 11, 4, BallNumber, "INVALID")
    BY <1>1 DEF IsGBATable
  <2>2. OneToOne(BallNumber) /\ OfSize(BallNumber, 4) /\ 4 \in Sizes /\ 11 \in Nat
    BY TablesAreOneToOne, TheSizes
  <2>3. Good(Part("origin_info", 11, 4, BallNumber, "INVALID"), "ball", "origin_info", 11..11+4-1)
    BY <2>2, PartIsGood
  <2> QED
    BY <2>1, <2>3
<1>13. Good(F["levelMet"], "levelMet", "origin_info", 0..0+7-1)
  <2>1. F["levelMet"] = Number("origin_info", 0, 7, 0..100)
    BY <1>1 DEF IsGBATable
  <2>2. 0..100 \in SUBSET (0..Most(7)) /\ 7 \in Sizes /\ 0 \in Nat
    BY TheSizes
  <2>3. Good(Number("origin_info", 0, 7, 0..100), "levelMet", "origin_info", 0..0+7-1)
    BY <2>2, NumberIsGood
  <2> QED
    BY <2>1, <2>3
<1>14. Good(F["originalGame"], "originalGame", "origin_info", 7..10)
  <2>1. F["originalGame"] = GBAGameRow
    BY <1>1 DEF IsGBATable
  <2> QED
    BY <2>1, GameRowsAreGood
<1>15. /\ CellIn["gba"]["nickname"] = "nickname"
       /\ CellIn["gba"]["egg"] = "egg"
       /\ CellIn["gba"]["publicId"] = "ot_id"
       /\ CellIn["gba"]["secretId"] = "ot_id"
       /\ CellIn["gba"]["trainerId"] = "ot_id"
       /\ CellIn["gba"]["trainerName"] = "otname"
       /\ CellIn["gba"]["pokerus"] = "pokerus"
       /\ CellIn["gba"]["trainerGender"] = "origin_info"
       /\ CellIn["gba"]["language"] = "language"
       /\ CellIn["gba"]["friendship"] = "friendship"
       /\ CellIn["gba"]["ball"] = "origin_info"
       /\ CellIn["gba"]["levelMet"] = "origin_info"
       /\ CellIn["gba"]["originalGame"] = "origin_info"
       /\ TraitsIn["gba"] = {"nickname", "egg", "publicId", "secretId", "trainerId", "trainerName", "pokerus", "trainerGender", "language", "friendship", "ball", "levelMet", "originalGame"}
  BY DEF CellIn, TraitsIn
<1>16. ASSUME NEW t \in TraitsIn["gba"] PROVE \E mask : Good(F[t], t, CellIn["gba"][t], mask)
  BY <1>2, <1>3, <1>4, <1>5, <1>6, <1>7, <1>8, <1>9, <1>10, <1>11, <1>12, <1>13, <1>14, <1>15
<1>17. /\ F["trainerGender"].mask = {15}
       /\ F["ball"].mask = 11..11+4-1
       /\ F["levelMet"].mask = 0..0+7-1
       /\ F["originalGame"].mask = 7..10
       /\ F["publicId"].mask = 0..15
       /\ F["secretId"].mask = 16..31
       /\ F["trainerId"].mask = {}
  BY <1>2, <1>3, <1>4, <1>5, <1>6, <1>7, <1>8, <1>9, <1>10, <1>11, <1>12, <1>13, <1>14, <1>15 DEF Good, LaidOut
<1> QED
  BY <1>16, <1>17 DEF F

LEMMA GBAPlace ==
  ASSUME NEW g \in Gen3Games
  PROVE  InPlace("gba", g, "location")
<1> DEFINE numbers == PlaceNumber(g)
           row == RowOf("gba", g, "location")
           codes == [p \in DOMAIN numbers |-> numbers[p] % 256]
<1>1. g \in AllGames
  BY DEF AllGames, Classes, Gen3Games
<1>2. row = Row("met_location", {}, codes, PlaceAt(g), Refused)
  BY <1>1 DEF RowOf, LocationRows, GBALocation
<1>3. row.cell = "met_location" /\ row.mask = {} /\ row.code = codes /\ row.told = PlaceAt(g)
  <2> HIDE DEF codes, row
  <2> QED
    BY <1>2 DEF Row
<1>4. PlacesTell(g)
  BY PlacesOfTheGBA, PlacesOfTheGameCube DEF Gen3Games
<1>5. DOMAIN codes = DOMAIN numbers /\ \A p \in DOMAIN numbers : codes[p] = numbers[p] % 256
  OBVIOUS
<1>6. \A p \in DOMAIN numbers : numbers[p] \in Nat /\ numbers[p] \in DOMAIN PlaceAt(g) /\ PlaceAt(g)[numbers[p]] = p
  BY <1>4 DEF PlacesTell
<1> HIDE DEF numbers, row, codes
<1>7. ASSUME NEW p \in DOMAIN numbers, ~(numbers[p] > 255) PROVE Says(row, codes[p]) = p
  <2>1. numbers[p] \in Nat
    BY <1>6
  <2>2. numbers[p] % 256 = numbers[p]
    BY <2>1, <1>7
  <2>3. codes[p] \in DOMAIN row.told /\ row.told[codes[p]] = p
    BY <1>3, <1>5, <1>6, <2>2
  <2> QED
    BY <2>3 DEF Says
<1>8. CellIn["gba"]["location"] = "met_location"
  BY DEF CellIn
<1>9. Fitting(row)
  BY <1>3 DEF Fitting
<1>10. \A p \in DOMAIN row.code : Says(row, row.code[p]) = p \/ numbers[p] > 255
  BY <1>3, <1>5, <1>7
<1> QED
  BY <1>3, <1>8, <1>9, <1>10 DEF InPlace, TellsBack, Expected, row, numbers

LEMMA GBAInPlace ==
  ASSUME NEW g \in Gen3Games, NEW t \in Has("gba")
  PROVE  InPlace("gba", g, t)
<1>1. CASE t = "location"
  BY <1>1, GBAPlace
<1>2. CASE t # "location"
  <2>1. t \in TraitsIn["gba"]
    BY <1>2, WhatIsWhere DEF Classes
  <2>2. PICK mask : Good(Rows["gba"][t], t, CellIn["gba"][t], mask)
    BY <2>1, GBAGood
  <2>3. RowOf("gba", g, t) = Rows["gba"][t]
    BY <1>2, RowsOfTraits
  <2>4. Good(RowOf("gba", g, t), t, CellIn["gba"][t], mask)
    BY <2>2, <2>3
  <2> QED
    BY <2>4, GoodIsInPlace
<1> QED
  BY <1>1, <1>2

(* The GameCube, where each has a cell. *)
LEMMA GCNGood ==
  /\ \A t \in TraitsIn["gcn"] : \E mask : Good(Rows["gcn"][t], t, CellIn["gcn"][t], mask)
  /\ Rows["gcn"]["publicId"].mask = 0..15
  /\ Rows["gcn"]["secretId"].mask = 16..31
  /\ Rows["gcn"]["trainerId"].mask = {}
<1> DEFINE F == Rows["gcn"]
<1>1. IsGCNTable(F)
  BY GCNTableIs
<1> HIDE DEF F
<1>2. Good(F["nickname"], "nickname", "name", {})
  <2>1. F["nickname"] = Text("name", 10)
    BY <1>1 DEF IsGCNTable
  <2>2. Good(Text("name", 10), "nickname", "name", {})
    BY TextsAndCells
  <2> QED
    BY <2>1, <2>2
<1>3. Good(F["egg"], "egg", "egg", {})
  <2>1. F["egg"] = Cell("egg", BOOLEAN)
    BY <1>1 DEF IsGCNTable
  <2>2. Good(Cell("egg", BOOLEAN), "egg", "egg", {})
    BY TextsAndCells
  <2> QED
    BY <2>1, <2>2
<1>4. Good(F["publicId"], "publicId", "TID_SID", 0..15)
  <2>1. F["publicId"] = IDParts("TID_SID", AllIDs)["publicId"]
    BY <1>1 DEF IsGCNTable, IDs
  <2> DEFINE row == IDParts("TID_SID", AllIDs)["publicId"]
  <2>2. Sound(row) /\ row.cell = "TID_SID" /\ row.mask = 0..15
    BY IDPartsAre
  <2> HIDE DEF row
  <2>3. Good(row, "publicId", "TID_SID", 0..15)
    BY <2>2, SoundIsGood
  <2> QED
    BY <2>1, <2>3 DEF row
<1>5. Good(F["secretId"], "secretId", "TID_SID", 16..31)
  <2>1. F["secretId"] = IDParts("TID_SID", AllIDs)["secretId"]
    BY <1>1 DEF IsGCNTable, IDs
  <2> DEFINE row == IDParts("TID_SID", AllIDs)["secretId"]
  <2>2. Sound(row) /\ row.cell = "TID_SID" /\ row.mask = 16..31
    BY IDPartsAre
  <2> HIDE DEF row
  <2>3. Good(row, "secretId", "TID_SID", 16..31)
    BY <2>2, SoundIsGood
  <2> QED
    BY <2>1, <2>3 DEF row
<1>6. Good(F["trainerId"], "trainerId", "TID_SID", {})
  <2>1. F["trainerId"] = IDParts("TID_SID", AllIDs)["trainerId"]
    BY <1>1 DEF IsGCNTable, IDs
  <2> DEFINE row == IDParts("TID_SID", AllIDs)["trainerId"]
  <2>2. Sound(row) /\ row.cell = "TID_SID" /\ row.mask = {}
    BY IDPartsAre
  <2> HIDE DEF row
  <2>3. Good(row, "trainerId", "TID_SID", {})
    BY <2>2, SoundIsGood
  <2> QED
    BY <2>1, <2>3 DEF row
<1>7. Good(F["trainerName"], "trainerName", "OTName", {})
  <2>1. F["trainerName"] = Text("OTName", 7)
    BY <1>1 DEF IsGCNTable
  <2>2. Good(Text("OTName", 7), "trainerName", "OTName", {})
    BY TextsAndCells
  <2> QED
    BY <2>1, <2>2
<1>8. Good(F["pokerus"], "pokerus", "pokerus", 0..0+4-1)
  <2>1. F["pokerus"] = Number("pokerus", 0, 4, 0..15)
    BY <1>1 DEF IsGCNTable
  <2>2. 0..15 \in SUBSET (0..Most(4)) /\ 4 \in Sizes /\ 0 \in Nat
    BY TheSizes
  <2>3. Good(Number("pokerus", 0, 4, 0..15), "pokerus", "pokerus", 0..0+4-1)
    BY <2>2, NumberIsGood
  <2> QED
    BY <2>1, <2>3
<1>9. Good(F["trainerGender"], "trainerGender", "OTGender", {})
  <2>1. F["trainerGender"] = Cell("OTGender", {"MALE", "FEMALE"})
    BY <1>1 DEF IsGCNTable
  <2>2. Good(Cell("OTGender", {"MALE", "FEMALE"}), "trainerGender", "OTGender", {})
    BY TextsAndCells
  <2> QED
    BY <2>1, <2>2
<1>10. Good(F["language"], "language", "language", {})
  <2>1. F["language"] = Coded("language", GCNLanguage, "ENGLISH")
    BY <1>1 DEF IsGCNTable
  <2>2. OneToOne(GCNLanguage)
    BY TablesAreOneToOne
  <2>3. Good(Coded("language", GCNLanguage, "ENGLISH"), "language", "language", {})
    BY <2>2, CodedIsGood
  <2> QED
    BY <2>1, <2>3
<1>11. Good(F["friendship"], "friendship", "friendship", {})
  <2>1. F["friendship"] = Cell("friendship", 0..255)
    BY <1>1 DEF IsGCNTable
  <2>2. Good(Cell("friendship", 0..255), "friendship", "friendship", {})
    BY TextsAndCells
  <2> QED
    BY <2>1, <2>2
<1>12. Good(F["ball"], "ball", "ball", {})
  <2>1. F["ball"] = Coded("ball", BallNumber, "INVALID")
    BY <1>1 DEF IsGCNTable
  <2>2. OneToOne(BallNumber)
    BY TablesAreOneToOne
  <2>3. Good(Coded("ball", BallNumber, "INVALID"), "ball", "ball", {})
    BY <2>2, CodedIsGood
  <2> QED
    BY <2>1, <2>3
<1>13. Good(F["levelMet"], "levelMet", "levelMet", {})
  <2>1. F["levelMet"] = Cell("levelMet", 0..100)
    BY <1>1 DEF IsGCNTable
  <2>2. Good(Cell("levelMet", 0..100), "levelMet", "levelMet", {})
    BY TextsAndCells
  <2> QED
    BY <2>1, <2>2
<1>14. Good(F["originalGame"], "originalGame", "game", {})
  <2>1. F["originalGame"] = GCNGameRow
    BY <1>1 DEF IsGCNTable
  <2> QED
    BY <2>1, GameRowsAreGood
<1>15. /\ CellIn["gcn"]["nickname"] = "name"
       /\ CellIn["gcn"]["egg"] = "egg"
       /\ CellIn["gcn"]["publicId"] = "TID_SID"
       /\ CellIn["gcn"]["secretId"] = "TID_SID"
       /\ CellIn["gcn"]["trainerId"] = "TID_SID"
       /\ CellIn["gcn"]["trainerName"] = "OTName"
       /\ CellIn["gcn"]["pokerus"] = "pokerus"
       /\ CellIn["gcn"]["trainerGender"] = "OTGender"
       /\ CellIn["gcn"]["language"] = "language"
       /\ CellIn["gcn"]["friendship"] = "friendship"
       /\ CellIn["gcn"]["ball"] = "ball"
       /\ CellIn["gcn"]["levelMet"] = "levelMet"
       /\ CellIn["gcn"]["originalGame"] = "game"
       /\ TraitsIn["gcn"] = {"nickname", "egg", "publicId", "secretId", "trainerId", "trainerName", "pokerus", "trainerGender", "language", "friendship", "ball", "levelMet", "originalGame"}
  BY DEF CellIn, TraitsIn
<1>16. ASSUME NEW t \in TraitsIn["gcn"] PROVE \E mask : Good(F[t], t, CellIn["gcn"][t], mask)
  BY <1>2, <1>3, <1>4, <1>5, <1>6, <1>7, <1>8, <1>9, <1>10, <1>11, <1>12, <1>13, <1>14, <1>15
<1>17. /\ F["publicId"].mask = 0..15
       /\ F["secretId"].mask = 16..31
       /\ F["trainerId"].mask = {}
  BY <1>2, <1>3, <1>4, <1>5, <1>6, <1>7, <1>8, <1>9, <1>10, <1>11, <1>12, <1>13, <1>14, <1>15 DEF Good, LaidOut
<1> QED
  BY <1>16, <1>17 DEF F

LEMMA GCNPlace ==
  ASSUME NEW g \in GamesOf["gcn"]
  PROVE  InPlace("gcn", g, "location")
<1> DEFINE numbers == PlaceNumber(g)
           row == RowOf("gcn", g, "location")
<1>1. g \in AllGames
  BY DEF AllGames, Classes
<1>2. row = Row("location", {}, numbers, PlaceAt(g), Refused)
  BY <1>1 DEF RowOf, LocationRows, GCNLocation
<1>3. row.cell = "location" /\ row.mask = {} /\ row.code = numbers /\ row.told = PlaceAt(g)
  <2> HIDE DEF numbers, row
  <2> QED
    BY <1>2 DEF Row
<1>4. PlacesTell(g)
  BY PlacesOfTheGameCube
<1>5. \A p \in DOMAIN numbers : numbers[p] \in DOMAIN PlaceAt(g) /\ PlaceAt(g)[numbers[p]] = p
  BY <1>4 DEF PlacesTell
<1> HIDE DEF numbers, row
<1>6. \A p \in DOMAIN row.code : Says(row, row.code[p]) = p
  BY <1>3, <1>5 DEF Says
<1>7. CellIn["gcn"]["location"] = "location"
  BY DEF CellIn
<1> QED
  BY <1>3, <1>6, <1>7 DEF InPlace, TellsBack, Expected, Fitting, row

LEMMA GCNInPlace ==
  ASSUME NEW g \in GamesOf["gcn"], NEW t \in Has("gcn")
  PROVE  InPlace("gcn", g, t)
<1>1. CASE t = "location"
  BY <1>1, GCNPlace
<1>2. CASE t # "location"
  <2>1. t \in TraitsIn["gcn"]
    BY <1>2, WhatIsWhere DEF Classes
  <2>2. PICK mask : Good(Rows["gcn"][t], t, CellIn["gcn"][t], mask)
    BY <2>1, GCNGood
  <2>3. RowOf("gcn", g, t) = Rows["gcn"][t]
    BY <1>2, RowsOfTraits
  <2>4. Good(RowOf("gcn", g, t), t, CellIn["gcn"][t], mask)
    BY <2>2, <2>3
  <2> QED
    BY <2>4, GoodIsInPlace
<1> QED
  BY <1>1, <1>2

LEMMA RowsAreInPlace ==
  ASSUME NEW c, NEW g, GoodGame(c, g), NEW t \in Has(c)
  PROVE  InPlace(c, g, t)
<1>1. CASE c = "gen1"
  BY <1>1, Gen1InPlace
<1>2. CASE c = "gen2"
  BY <1>2, Gen2InPlace DEF GoodGame
<1>3. CASE c = "gba"
  BY <1>3, GBAInPlace DEF GoodGame
<1>4. CASE c = "gcn"
  BY <1>4, GCNInPlace DEF GoodGame
<1> QED
  BY <1>1, <1>2, <1>3, <1>4 DEF GoodGame, Classes

-----------------------------------------------------------------------------
(* The traits that share a word have different bits of it.                 *)
LEMMA BitsAreTheirOwn ==
  ASSUME NEW c \in Classes, NEW g, GoodGame(c, g), NEW t \in Sharing[c], NEW o \in Sharing[c], t # o
  PROVE  Apart(RowOf(c, g, t), RowOf(c, g, o))
<1>1. CASE c = "gen1" \/ c = "gcn"
  BY <1>1 DEF Sharing
<1>2. CASE c = "gen2"
  <2> DEFINE place == RowOf("gen2", g, "location")
             gender == RowOf("gen2", g, "trainerGender")
             met == RowOf("gen2", g, "levelMet")
  <2>1. place.mask = 0..0+7-1
    BY <1>2, Gen2Place DEF Good, LaidOut, GoodGame
  <2>2. gender.mask = {7} /\ met.mask = 8..8+6-1
    BY Gen2Good, RowsOfTraits
  <2>3. /\ place.mask # {} /\ gender.mask # {} /\ met.mask # {}
        /\ place.mask \cap gender.mask = {} /\ place.mask \cap met.mask = {} /\ gender.mask \cap met.mask = {}
    BY <2>1, <2>2
  <2> HIDE DEF place, gender, met
  <2>4. /\ Apart(place, gender) /\ Apart(gender, place) /\ Apart(place, met) /\ Apart(met, place)
        /\ Apart(gender, met) /\ Apart(met, gender)
    BY <2>3 DEF Apart
  <2>5. t \in {"trainerGender", "levelMet", "location"} /\ o \in {"trainerGender", "levelMet", "location"}
    BY <1>2 DEF Sharing
  <2> QED
    BY <1>2, <2>4, <2>5 DEF place, gender, met
<1>3. CASE c = "gba"
  <2> DEFINE gender == RowOf("gba", g, "trainerGender")
             ball == RowOf("gba", g, "ball")
             met == RowOf("gba", g, "levelMet")
             from == RowOf("gba", g, "originalGame")
  <2>1. /\ gender.mask = {15} /\ ball.mask = 11..11+4-1 /\ met.mask = 0..0+7-1 /\ from.mask = 7..10
    BY GBAGood, RowsOfTraits
  <2>2. /\ gender.mask # {} /\ ball.mask # {} /\ met.mask # {} /\ from.mask # {}
        /\ gender.mask \cap ball.mask = {} /\ gender.mask \cap met.mask = {} /\ gender.mask \cap from.mask = {}
        /\ ball.mask \cap met.mask = {} /\ ball.mask \cap from.mask = {} /\ met.mask \cap from.mask = {}
    BY <2>1
  <2> HIDE DEF gender, ball, met, from
  <2>3. /\ Apart(gender, ball) /\ Apart(gender, met) /\ Apart(gender, from)
        /\ Apart(ball, gender) /\ Apart(met, gender) /\ Apart(from, gender)
        /\ Apart(ball, met) /\ Apart(ball, from) /\ Apart(met, from)
        /\ Apart(met, ball) /\ Apart(from, ball) /\ Apart(from, met)
    BY <2>2 DEF Apart
  <2>4. /\ t \in {"trainerGender", "ball", "levelMet", "originalGame"}
        /\ o \in {"trainerGender", "ball", "levelMet", "originalGame"}
    BY <1>3 DEF Sharing
  <2> QED
    BY <1>3, <2>3, <2>4 DEF gender, ball, met, from
<1> QED
  BY <1>1, <1>2, <1>3 DEF Classes

LEMMA TraitsAreApart ==
  ASSUME NEW c \in Classes, NEW g, GoodGame(c, g), NEW t \in Has(c), NEW o \in Has(c), t # o, ~({t, o} \subseteq IDs)
  PROVE  Apart(RowOf(c, g, t), RowOf(c, g, o))
<1>1. RowOf(c, g, t).cell = CellIn[c][t] /\ RowOf(c, g, o).cell = CellIn[c][o]
  BY RowsAreInPlace DEF InPlace
<1>2. CASE CellIn[c][t] # CellIn[c][o]
  BY <1>1, <1>2 DEF Apart
<1>3. CASE CellIn[c][t] = CellIn[c][o]
  <2>1. t \in Sharing[c] /\ o \in Sharing[c]
    BY <1>3, CellsAreTheirOwn
  <2> QED
    BY <2>1, BitsAreTheirOwn
<1> QED
  BY <1>2, <1>3

(* What a class has no place for is neither set nor told.                  *)
LEMMA TheRestIsEmpty ==
  ASSUME NEW c \in Classes, NEW t, t # "location", t \in DOMAIN Rows[c], t \notin Has(c)
  PROVE  Empty(Rows[c][t])
<1>1. RestIsEmpty(c, Rows[c])
  BY Gen1TableIs, Gen2TableIs, GBATableIs, GCNTableIs
     DEF Classes, IsGen1Table, IsGen2Table, IsGBATable, IsGCNTable
<1>2. t \notin TraitsIn[c]
  BY WhatIsWhere
<1> QED
  BY <1>1, <1>2 DEF RestIsEmpty

LEMMA Gen1HasNoPlaces ==
  ASSUME NEW g \in AllGames
  PROVE  Empty(RowOf("gen1", g, "location"))
BY EmptyRows DEF RowOf, LocationRows

LEMMA SetIsHad ==
  ASSUME NEW c \in Classes, NEW g, GoodGame(c, g), NEW t \in TraitsOf(c), DOMAIN RowOf(c, g, t).code # {}
  PROVE  t \in Has(c)
<1>1. CASE t = "location"
  <2>1. c # "gen1"
    BY <1>1, Gen1HasNoPlaces DEF Empty, GoodGame
  <2> QED
    BY <1>1, <2>1, WhatIsWhere
<1>2. CASE t # "location"
  <2>1. t \in DOMAIN Rows[c] /\ RowOf(c, g, t) = Rows[c][t]
    BY <1>2 DEF TraitsOf, RowOf
  <2> QED
    BY <1>2, <2>1, TheRestIsEmpty DEF Empty
<1> QED
  BY <1>1, <1>2

LEMMA KnownIsHad ==
  ASSUME NEW c \in Classes
  PROVE  KnownTo[c] \subseteq Has(c)
<1> SUFFICES ASSUME NEW t \in KnownTo[c] PROVE t \in Has(c)
  OBVIOUS
<1> DEFINE any == CHOOSE g \in GamesOf[c] : TRUE
<1>1. t \in TraitsOf(c) /\ DOMAIN RowOf(c, any, t).told # {}
  BY DEF KnownTo
<1>2. CASE t = "location"
  <2>1. CASE c = "gen1"
    <3>1. any \in GamesOf["gen1"]
      BY <2>1, OriginAssumption
    <3>2. any \in AllGames
      BY <3>1 DEF AllGames, Classes
    <3> QED
      BY <1>1, <1>2, <2>1, <3>2, Gen1HasNoPlaces DEF Empty
  <2>2. CASE c # "gen1"
    BY <1>2, <2>2, WhatIsWhere
  <2> QED
    BY <2>1, <2>2
<1>3. CASE t # "location"
  <2>1. t \in DOMAIN Rows[c] /\ RowOf(c, any, t) = Rows[c][t]
    BY <1>1, <1>3 DEF TraitsOf, RowOf
  <2> QED
    BY <1>1, <1>3, <2>1, TheRestIsEmpty DEF Empty
<1> QED
  BY <1>2, <1>3

-----------------------------------------------------------------------------
(* What a setter makes of a structure.                                     *)
SetIn(c, g, data, t, v, new) ==
  /\ t \in Has(c) /\ DOMAIN new = CellsHeld[c]
  /\ StoredAt(RowOf(c, g, t), new) = RowOf(c, g, t).code[v]
  /\ \/ ToldOf(RowOf(c, g, t), new) = Expected(t, v)
     \/ t = "location" /\ c = "gba" /\ PlaceNumber(g)[v] > 255
  /\ \A o \in Has(c) \ {t} : {t, o} \subseteq IDs \/ StoredAt(RowOf(c, g, o), new) = StoredAt(RowOf(c, g, o), data)

LEMMA SetterDoes ==
  ASSUME NEW c \in Classes, NEW g, GoodGame(c, g), NEW data, DOMAIN data = CellsHeld[c],
         NEW t \in TraitsOf(c), NEW v \in DOMAIN RowOf(c, g, t).code
  PROVE  SetIn(c, g, data, t, v, WithTrait(c, g, data, t, v))
<1> DEFINE row == RowOf(c, g, t)
           new == Stored(data, row, v)
<1>1. WithTrait(c, g, data, t, v) = new
  BY DEF WithTrait
<1>2. t \in Has(c)
  BY SetIsHad
<1>3. \A o \in Has(c) : RowOf(c, g, o).cell \in DOMAIN data
  BY RowsAreInPlace, WhatIsWhere DEF InPlace
<1>4. Fitting(row) /\ TellsBack(c, g, t)
  BY <1>2, RowsAreInPlace DEF InPlace
<1>5. v \in DOMAIN row.code /\ row.cell \in DOMAIN data
  BY <1>2, <1>3
<1>6. DOMAIN new = CellsHeld[c]
  BY StoredCells
<1>7. StoredAt(row, new) = row.code[v]
  <2> HIDE DEF row
  <2> QED
    BY <1>4, <1>5, OwnIsStored
<1>8. \/ Says(row, row.code[v]) = Expected(t, v)
      \/ t = "location" /\ c = "gba" /\ PlaceNumber(g)[v] > 255
  BY <1>4, <1>5 DEF TellsBack
<1>9. ASSUME NEW o \in Has(c) \ {t}, ~({t, o} \subseteq IDs)
      PROVE  StoredAt(RowOf(c, g, o), new) = StoredAt(RowOf(c, g, o), data)
  <2> DEFINE other == RowOf(c, g, o)
  <2>1. Apart(row, other) /\ other.cell \in DOMAIN data
    BY <1>2, <1>3, <1>9, TraitsAreApart
  <2> HIDE DEF row, other
  <2>2. StoredAt(other, new) = StoredAt(other, data)
    BY <1>4, <1>5, <2>1, OtherIsLeft
  <2> QED
    BY <2>2 DEF other
<1>10. ToldOf(row, new) = Says(row, row.code[v])
  BY <1>7, ToldIsOfStored
<1> QED
  BY <1>1, <1>2, <1>6, <1>7, <1>8, <1>9, <1>10 DEF SetIn

-----------------------------------------------------------------------------
Settable(row, data) == \E v \in DOMAIN row.code : StoredAt(row, data) = row.code[v]

(* The traits whose getters never meet what no setter stores.              *)
Sure ==
  [ gen1 |-> {}, gen2 |-> {"levelMet"}, gba |-> {"ball", "levelMet", "originalGame", "trainerId"},
    gcn |-> {"ball", "levelMet", "originalGame", "trainerId", "trainerGender"} ]

SureIn(c, data) == \A t \in Sure[c] : Settable(Rows[c][t], data)

Proper(c, data) ==
  /\ DOMAIN data = CellsHeld[c]
  /\ SureIn(c, data)
  /\ c = "gcn" => data.language \in {0, 1, 2}

OriginInv ==
  /\ GoodGame(class, game)
  /\ level \in 2..100
  /\ Proper(class, cells)

LEMMA SureIsHad == \A c \in Classes : \A t \in Sure[c] : t \in Has(c) /\ t \in TraitsIn[c] /\ t # "location"
BY DEF Classes, Sure, Has, CellIn, TraitsIn

LEMMA SureIsTold ==
  ASSUME NEW c, NEW g, GoodGame(c, g), NEW t \in Has(c), t # "location", NEW data,
         NEW v \in DOMAIN Rows[c][t].code, StoredAt(Rows[c][t], data) = Rows[c][t].code[v]
  PROVE  ToldOf(Rows[c][t], data) = Expected(t, v)
<1>1. RowOf(c, g, t) = Rows[c][t]
  BY RowsOfTraits
<1>2. TellsBack(c, g, t)
  BY RowsAreInPlace DEF InPlace
<1>3. Says(Rows[c][t], Rows[c][t].code[v]) = Expected(t, v)
  BY <1>1, <1>2 DEF TellsBack
<1> QED
  BY <1>3, ToldIsOfStored

(* Trainer IDs of Generation III are two halves. *)
IDCellOf == [gba |-> "ot_id", gcn |-> "TID_SID"]

LEMMA WholeIsSettable ==
  ASSUME NEW c \in {"gba", "gcn"}, NEW data
  PROVE  /\ Settable(Rows[c]["trainerId"], data) <=> data[IDCellOf[c]] \in WholeIDs(AllIDs)
         /\ \A t \in IDs : Rows[c][t] = IDParts(IDCellOf[c], AllIDs)[t]
<1> DEFINE cell == IDCellOf[c]
           row == IDParts(cell, AllIDs)["trainerId"]
<1>1. \A t \in IDs : Rows[c][t] = IDParts(cell, AllIDs)[t]
  BY GBATableIs, GCNTableIs DEF IsGBATable, IsGCNTable, IDCellOf
<1>2. /\ row.cell = cell /\ row.mask = {} /\ DOMAIN row.code = WholeIDs(AllIDs)
      /\ \A id \in WholeIDs(AllIDs) : row.code[id] = id
  BY IDPartsAre
<1> HIDE DEF row
<1>3. Settable(row, data) <=> data[cell] \in WholeIDs(AllIDs)
  BY <1>2 DEF Settable, StoredAt
<1>4. "trainerId" \in IDs
  BY DEF IDs
<1> QED
  BY <1>1, <1>3, <1>4 DEF row

LEMMA DefaultIsWhole == DefaultID \in WholeIDs(AllIDs)
<1>1. DefaultID \in SUBSET (0..31) /\ DefaultID \in AllIDs
  BY OriginAssumption DEF AllIDs
<1>2. Low(DefaultID) \in Halves(AllIDs) /\ High(DefaultID) \in Halves(AllIDs)
  BY <1>1 DEF Halves
<1>3. Up(High(DefaultID), 16) = DefaultID \cap (16..31)
  <2>1. ASSUME NEW x \in Up(High(DefaultID), 16) PROVE x \in DefaultID \cap (16..31)
    <3>1. PICK y \in DefaultID \cap (16..31) : x = (y - 16) + 16
      BY <2>1 DEF Up, High
    <3>2. x = y
      BY <3>1
    <3> QED
      BY <3>2
  <2>2. ASSUME NEW y \in DefaultID \cap (16..31) PROVE y \in Up(High(DefaultID), 16)
    <3>1. y - 16 \in High(DefaultID) /\ (y - 16) + 16 = y
      BY DEF High
    <3> QED
      BY <3>1 DEF Up
  <2> QED
    BY <2>1, <2>2
<1>4. DefaultID = Low(DefaultID) \cup (DefaultID \cap (16..31))
  <2>1. \A x \in DefaultID : x \in 0..15 \/ x \in 16..31
    BY <1>1
  <2>2. Low(DefaultID) = DefaultID \cap (0..15)
    BY DEF Low
  <2> QED
    BY <2>1, <2>2
<1>5. DefaultID = Whole(Low(DefaultID), High(DefaultID))
  BY <1>3, <1>4 DEF Whole
<1> QED
  BY <1>2, <1>5 DEF WholeIDs

-----------------------------------------------------------------------------
(* A setter leaves a structure proper. *)
LEMMA SetIsSure ==
  ASSUME NEW c \in Classes, NEW g, GoodGame(c, g), NEW data, DOMAIN data = CellsHeld[c],
         NEW t \in TraitsOf(c), NEW v \in DOMAIN RowOf(c, g, t).code,
         NEW o \in Sure[c], o = t \/ Settable(Rows[c][o], data)
  PROVE  Settable(Rows[c][o], WithTrait(c, g, data, t, v))
<1> DEFINE new == WithTrait(c, g, data, t, v)
<1>1. SetIn(c, g, data, t, v, new)
  BY SetterDoes
<1>2. t \in Has(c) /\ o \in Has(c) /\ RowOf(c, g, o) = Rows[c][o]
  BY <1>1, SureIsHad, RowsOfTraits DEF SetIn
<1>3. new = Stored(data, RowOf(c, g, t), v)
  BY DEF WithTrait
<1> HIDE DEF new
<1>4. CASE o = t
  <2> DEFINE row == Rows[c][o]
  <2>1. StoredAt(row, new) = row.code[v] /\ v \in DOMAIN row.code
    BY <1>1, <1>2, <1>4 DEF SetIn
  <2> HIDE DEF row
  <2>2. Settable(row, new)
    BY <2>1 DEF Settable
  <2> QED
    BY <2>2 DEF row, new
<1>5. CASE o # t /\ ~({t, o} \subseteq IDs)
  <2>1. StoredAt(RowOf(c, g, o), new) = StoredAt(RowOf(c, g, o), data)
    BY <1>1, <1>2, <1>5 DEF SetIn
  <2> DEFINE row == Rows[c][o]
  <2>2. StoredAt(row, new) = StoredAt(row, data) /\ Settable(row, data)
    BY <1>2, <1>5, <2>1
  <2> HIDE DEF row
  <2>3. Settable(row, new)
    BY <2>2 DEF Settable
  <2> QED
    BY <2>3 DEF row, new
<1>6. CASE o # t /\ {t, o} \subseteq IDs
  <2>1. o = "trainerId" /\ c \in {"gba", "gcn"}
    BY <1>6 DEF IDs, Sure, Classes
  <2>2. data[IDCellOf[c]] \in WholeIDs(AllIDs)
    BY <1>6, <2>1, WholeIsSettable
  <2>3. RowOf(c, g, t) = IDParts(IDCellOf[c], AllIDs)[t] /\ t \in {"publicId", "secretId", "trainerId"}
    BY <1>6, <2>1, WholeIsSettable, RowsOfTraits DEF IDs
  <2>4. IDCellOf[c] \in DOMAIN data
    BY <2>1 DEF IDCellOf, CellsHeld
  <2>5. new[IDCellOf[c]] \in WholeIDs(AllIDs)
    BY <1>3, <2>2, <2>3, <2>4, IDsAreStored
  <2>6. Settable(Rows[c]["trainerId"], new)
    BY <2>1, <2>5, WholeIsSettable
  <2> QED
    BY <2>1, <2>6 DEF new
<1> QED
  BY <1>4, <1>5, <1>6 DEF new

LEMMA GCNLanguageIs ==
  /\ Rows["gcn"]["language"].cell = "language" /\ Rows["gcn"]["language"].mask = {}
  /\ \A v \in DOMAIN Rows["gcn"]["language"].code : Rows["gcn"]["language"].code[v] \in {1, 2}
<1>1. Rows["gcn"]["language"] = Coded("language", GCNLanguage, "ENGLISH")
  BY GCNTableIs DEF IsGCNTable
<1>2. DOMAIN GCNLanguage = {"JAPANESE", "ENGLISH"} /\ GCNLanguage["JAPANESE"] = 1 /\ GCNLanguage["ENGLISH"] = 2
  BY DEF GCNLanguage
<1> DEFINE numbers == GCNLanguage
<1> HIDE DEF numbers
<1>3. /\ Coded("language", numbers, "ENGLISH").cell = "language" /\ Coded("language", numbers, "ENGLISH").mask = {}
      /\ Coded("language", numbers, "ENGLISH").code = numbers
  BY DEF Coded, Row
<1>4. numbers = GCNLanguage
  BY DEF numbers
<1> QED
  BY <1>1, <1>2, <1>3, <1>4

LEMMA SetIsProper ==
  ASSUME NEW c \in Classes, NEW g, GoodGame(c, g), NEW data, Proper(c, data),
         NEW t \in TraitsOf(c), NEW v \in DOMAIN RowOf(c, g, t).code
  PROVE  Proper(c, WithTrait(c, g, data, t, v))
<1> DEFINE new == WithTrait(c, g, data, t, v)
<1>1. DOMAIN data = CellsHeld[c] /\ SureIn(c, data)
  BY DEF Proper
<1>2. SetIn(c, g, data, t, v, new)
  BY <1>1, SetterDoes
<1>3. SureIn(c, new)
  BY <1>1, SetIsSure DEF SureIn
<1> HIDE DEF new
<1>4. ASSUME c = "gcn" PROVE new.language \in {0, 1, 2}
  <2> DEFINE row == Rows["gcn"]["language"]
  <2>1. "language" \in Has("gcn") /\ RowOf("gcn", g, "language") = row
    BY RowsOfTraits DEF Has, CellIn
  <2>2. row.cell = "language" /\ row.mask = {} /\ \A w \in DOMAIN row.code : row.code[w] \in {1, 2}
    BY GCNLanguageIs
  <2> HIDE DEF row
  <2>3. CASE t = "language"
    <3>1. StoredAt(row, new) = row.code[v] /\ v \in DOMAIN row.code
      BY <1>2, <1>4, <2>1, <2>3 DEF SetIn
    <3> QED
      BY <2>2, <3>1 DEF StoredAt
  <2>4. CASE t # "language"
    <3>1. StoredAt(row, new) = StoredAt(row, data)
      BY <1>2, <1>4, <2>1, <2>4 DEF SetIn, IDs
    <3>2. data.language \in {0, 1, 2}
      BY <1>4 DEF Proper
    <3> QED
      BY <2>2, <3>1, <3>2 DEF StoredAt
  <2> QED
    BY <2>3, <2>4
<1> QED
  BY <1>2, <1>3, <1>4 DEF Proper, SetIn, new

-----------------------------------------------------------------------------
(* Codes of numbers. *)
CodesNumbers(row, low, values) == DOMAIN row.code = values /\ \A v \in values : row.code[v] = Up(BitsOf(v), low)

LEMMA NumbersAreCoded ==
  ASSUME NEW cell, NEW size \in Sizes, NEW low \in Nat, NEW values \in SUBSET (0..Most(size))
  PROVE  /\ CodesNumbers(Number(cell, low, size, values), low, values)
         /\ LaidOut(Number(cell, low, size, values), cell, low..low+size-1)
BY NumberIsSound DEF CodesNumbers

LEMMA PartIsLaidOut ==
  ASSUME NEW cell, NEW size \in Sizes, NEW low \in Nat, NEW numbers, NEW default,
         OfSize(numbers, size), OneToOne(numbers)
  PROVE  LaidOut(Part(cell, low, size, numbers, default), cell, low..low+size-1)
BY PartIsSound

LEMMA PartCodes ==
  ASSUME NEW cell, NEW size, NEW low, NEW numbers, NEW default
  PROVE  Part(cell, low, size, numbers, default).code = InWord(numbers, low)
BY DEF Part, Row

CodesGender(row, bit) ==
  DOMAIN row.code = {"MALE", "FEMALE"} /\ row.code["MALE"] = {} /\ row.code["FEMALE"] = {bit}

LEMMA GenderIsCoded ==
  ASSUME NEW cell, NEW bit \in Nat
  PROVE  LaidOut(Gender(cell, bit), cell, {bit}) /\ CodesGender(Gender(cell, bit), bit)
BY GenderIsSound DEF CodesGender

(* What the setters of the traits that are sure store.                     *)
LEMMA GBACodes ==
  LET F == Rows["gba"]
  IN /\ F["ball"].cell = "origin_info" /\ F["levelMet"].cell = "origin_info" /\ F["originalGame"].cell = "origin_info"
     /\ F["trainerGender"].cell = "origin_info"
     /\ DOMAIN F["ball"].code = DOMAIN BallNumber
     /\ \A b \in DOMAIN BallNumber : F["ball"].code[b] = Up(BitsOf(BallNumber[b]), 11)
     /\ DOMAIN F["levelMet"].code = 0..100
     /\ \A l \in 0..100 : F["levelMet"].code[l] = Up(BitsOf(l), 0)
     /\ DOMAIN F["originalGame"].code = Gen3Games
     /\ \A g \in Gen3Games : F["originalGame"].code[g] = Up(BitsOf(AnyGame[g]), 7)
     /\ DOMAIN F["trainerGender"].code = {"MALE", "FEMALE"}
     /\ F["trainerGender"].code["MALE"] = {} /\ F["trainerGender"].code["FEMALE"] = {15}
<1> DEFINE F == Rows["gba"]
<1>1. IsGBATable(F)
  BY GBATableIs
<1> HIDE DEF F
<1>2. /\ F["ball"].cell = "origin_info"
      /\ DOMAIN F["ball"].code = DOMAIN BallNumber
      /\ \A b \in DOMAIN BallNumber : F["ball"].code[b] = Up(BitsOf(BallNumber[b]), 11)
  <2>1. F["ball"] = Part("origin_info", 11, 4, BallNumber, "INVALID")
    BY <1>1 DEF IsGBATable
  <2> DEFINE numbers == BallNumber
             row == Part("origin_info", 11, 4, numbers, "INVALID")
  <2>2. OneToOne(numbers) /\ OfSize(numbers, 4) /\ 4 \in Sizes /\ 11 \in Nat
    BY TablesAreOneToOne, TheSizes
  <2> HIDE DEF numbers
  <2>3. LaidOut(row, "origin_info", 11..11+4-1) /\ row.code = InWord(numbers, 11)
    <3>1. LaidOut(row, "origin_info", 11..11+4-1)
      BY <2>2, PartIsLaidOut
    <3>2. row.code = InWord(numbers, 11)
      BY PartCodes
    <3> QED
      BY <3>1, <3>2
  <2>4. DOMAIN InWord(numbers, 11) = DOMAIN numbers /\ \A b \in DOMAIN numbers : InWord(numbers, 11)[b] = Up(BitsOf(numbers[b]), 11)
    BY DEF InWord
  <2>5. F["ball"] = row
    BY <2>1 DEF numbers
  <2> HIDE DEF row
  <2>6. F["ball"].cell = "origin_info" /\ F["ball"].code = InWord(numbers, 11)
    BY <2>3, <2>5 DEF LaidOut
  <2> QED
    BY <2>4, <2>6 DEF numbers
<1>3. /\ F["levelMet"].cell = "origin_info" /\ DOMAIN F["levelMet"].code = 0..100
      /\ \A l \in 0..100 : F["levelMet"].code[l] = Up(BitsOf(l), 0)
  <2>1. F["levelMet"] = Number("origin_info", 0, 7, 0..100)
    BY <1>1 DEF IsGBATable
  <2>2. 0..100 \in SUBSET (0..Most(7)) /\ 7 \in Sizes /\ 0 \in Nat
    BY TheSizes
  <2> DEFINE row == Number("origin_info", 0, 7, 0..100)
  <2>3. LaidOut(row, "origin_info", 0..0+7-1) /\ CodesNumbers(row, 0, 0..100)
    BY <2>2, NumbersAreCoded
  <2>4. F["levelMet"] = row
    BY <2>1
  <2> HIDE DEF row
  <2> QED
    BY <2>3, <2>4 DEF LaidOut, CodesNumbers
<1>4. /\ F["originalGame"].cell = "origin_info" /\ DOMAIN F["originalGame"].code = Gen3Games
      /\ \A g \in Gen3Games : F["originalGame"].code[g] = Up(BitsOf(AnyGame[g]), 7)
  <2>1. F["originalGame"] = GBAGameRow
    BY <1>1 DEF IsGBATable
  <2> QED
    BY <2>1, GameRowsAreGood DEF Good, LaidOut
<1>5. /\ F["trainerGender"].cell = "origin_info" /\ DOMAIN F["trainerGender"].code = {"MALE", "FEMALE"}
      /\ F["trainerGender"].code["MALE"] = {} /\ F["trainerGender"].code["FEMALE"] = {15}
  <2>1. F["trainerGender"] = Gender("origin_info", 15)
    BY <1>1 DEF IsGBATable
  <2> DEFINE row == Gender("origin_info", 15)
  <2>2. LaidOut(row, "origin_info", {15}) /\ CodesGender(row, 15)
    BY GenderIsCoded, 15 \in Nat
  <2>3. F["trainerGender"] = row
    BY <2>1
  <2> HIDE DEF row
  <2> QED
    BY <2>2, <2>3 DEF LaidOut, CodesGender
<1> QED
  BY <1>2, <1>3, <1>4, <1>5 DEF F

LEMMA GCNCodes ==
  LET F == Rows["gcn"]
  IN /\ F["ball"].cell = "ball" /\ F["ball"].mask = {} /\ F["ball"].code = BallNumber
     /\ F["levelMet"].cell = "levelMet" /\ F["levelMet"].mask = {}
     /\ DOMAIN F["levelMet"].code = 0..100 /\ \A l \in 0..100 : F["levelMet"].code[l] = l
     /\ F["originalGame"].cell = "game" /\ F["originalGame"].mask = {}
     /\ DOMAIN F["originalGame"].code = Gen3Games /\ \A g \in Gen3Games : F["originalGame"].code[g] = AnyGame[g]
     /\ F["trainerGender"].cell = "OTGender" /\ F["trainerGender"].mask = {}
     /\ DOMAIN F["trainerGender"].code = {"MALE", "FEMALE"}
     /\ \A s \in {"MALE", "FEMALE"} : F["trainerGender"].code[s] = s
<1> DEFINE F == Rows["gcn"]
<1>1. IsGCNTable(F)
  BY GCNTableIs
<1> HIDE DEF F
<1>2. F["ball"].cell = "ball" /\ F["ball"].mask = {} /\ F["ball"].code = BallNumber
  <2> DEFINE numbers == BallNumber
  <2>1. F["ball"] = Coded("ball", numbers, "INVALID")
    BY <1>1 DEF IsGCNTable
  <2> HIDE DEF numbers
  <2>2. /\ Coded("ball", numbers, "INVALID").cell = "ball" /\ Coded("ball", numbers, "INVALID").mask = {}
        /\ Coded("ball", numbers, "INVALID").code = numbers
    BY DEF Coded, Row
  <2>3. F["ball"].cell = "ball" /\ F["ball"].mask = {} /\ F["ball"].code = numbers
    BY <2>1, <2>2
  <2> QED
    BY <2>3 DEF numbers
<1>3. \A cell, values : /\ Cell(cell, values).cell = cell /\ Cell(cell, values).mask = {}
                        /\ DOMAIN Cell(cell, values).code = values
                        /\ \A v \in values : Cell(cell, values).code[v] = v
  BY PlainIsSound, CellIsExact
<1>4. /\ F["levelMet"].cell = "levelMet" /\ F["levelMet"].mask = {}
      /\ DOMAIN F["levelMet"].code = 0..100 /\ \A l \in 0..100 : F["levelMet"].code[l] = l
  <2>1. F["levelMet"] = Cell("levelMet", 0..100)
    BY <1>1 DEF IsGCNTable
  <2> QED
    BY <1>3, <2>1
<1>5. /\ F["trainerGender"].cell = "OTGender" /\ F["trainerGender"].mask = {}
      /\ DOMAIN F["trainerGender"].code = {"MALE", "FEMALE"}
      /\ \A s \in {"MALE", "FEMALE"} : F["trainerGender"].code[s] = s
  <2>1. F["trainerGender"] = Cell("OTGender", {"MALE", "FEMALE"})
    BY <1>1 DEF IsGCNTable
  <2> QED
    BY <1>3, <2>1
<1>6. /\ F["originalGame"].cell = "game" /\ F["originalGame"].mask = {}
      /\ DOMAIN F["originalGame"].code = Gen3Games /\ \A g \in Gen3Games : F["originalGame"].code[g] = AnyGame[g]
  <2>1. F["originalGame"] = GCNGameRow
    BY <1>1 DEF IsGCNTable
  <2> QED
    BY <2>1, GameRowsAreGood DEF Good, LaidOut
<1> QED
  BY <1>2, <1>4, <1>5, <1>6 DEF F

LEMMA Gen2Codes ==
  LET row == Rows["gen2"]["levelMet"]
  IN DOMAIN row.code = 2..63 /\ \A l \in 2..63 : row.code[l] = Up(BitsOf(l), 8)
<1> DEFINE row == Number("caught_data", 8, 6, 2..63)
<1>1. 2..63 \in SUBSET (0..Most(6)) /\ 6 \in Sizes /\ 8 \in Nat
  BY TheSizes
<1>2. CodesNumbers(row, 8, 2..63)
  BY <1>1, NumbersAreCoded
<1>3. Rows["gen2"]["levelMet"].code = row.code
  BY Gen2Good
<1> HIDE DEF row
<1> QED
  BY <1>2, <1>3 DEF CodesNumbers

(* The word of the GBA, put together. *)
PackedOf(l, g, b, top) == BitsOf(l) \cup Up(BitsOf(AnyGame[g]), 7) \cup Up(BitsOf(BallNumber[b]), 11) \cup top

PackedIn(data, l, g, b, top) ==
  /\ StoredAt(Rows["gba"]["levelMet"], data) = Rows["gba"]["levelMet"].code[l]
  /\ StoredAt(Rows["gba"]["originalGame"], data) = Rows["gba"]["originalGame"].code[g]
  /\ StoredAt(Rows["gba"]["ball"], data) = Rows["gba"]["ball"].code[b]
  /\ StoredAt(Rows["gba"]["trainerGender"], data) = top

LEMMA PackedIsStored ==
  ASSUME NEW data, NEW l \in 0..100, NEW g \in Gen3Games, NEW b \in DOMAIN BallNumber, NEW top \in SUBSET {15},
         data.origin_info = PackedOf(l, g, b, top)
  PROVE  PackedIn(data, l, g, b, top)
<1> DEFINE i == AnyGame[g]
           n == BallNumber[b]
           word == BitsOf(l) \cup Up(BitsOf(i), 7) \cup Up(BitsOf(n), 11) \cup top
           F == Rows["gba"]
<1>1. l \in 0..127 /\ i \in 0..15 /\ n \in 0..15
  BY GamesAre, TablesAreOneToOne, TheSizes DEF OfSize
<1>2. data.origin_info = word
  BY DEF PackedOf
<1> HIDE DEF i, n
<1>3. Holds(word, l, i, n, top)
  BY <1>1, WordHolds
<1> HIDE DEF word
<1>4. /\ F["ball"].cell = "origin_info" /\ F["levelMet"].cell = "origin_info"
      /\ F["originalGame"].cell = "origin_info" /\ F["trainerGender"].cell = "origin_info"
      /\ F["trainerGender"].mask = {15} /\ F["ball"].mask = 11..11+4-1
      /\ F["levelMet"].mask = 0..0+7-1 /\ F["originalGame"].mask = 7..10
  BY GBACodes, GBAGood
<1>5. /\ F["levelMet"].code[l] = Up(BitsOf(l), 0) /\ F["originalGame"].code[g] = Up(BitsOf(i), 7)
      /\ F["ball"].code[b] = Up(BitsOf(n), 11)
  BY GBACodes DEF i, n
<1> HIDE DEF F
<1>6. 11..11+4-1 # {} /\ 0..0+7-1 # {} /\ 7..10 # {} /\ {15} # {}
  OBVIOUS
<1>7. /\ StoredAt(F["levelMet"], data) = word \cap (0..0+7-1)
      /\ StoredAt(F["originalGame"], data) = word \cap (7..10)
      /\ StoredAt(F["ball"], data) = word \cap (11..11+4-1)
      /\ StoredAt(F["trainerGender"], data) = word \cap {15}
  BY <1>2, <1>4, <1>6 DEF StoredAt
<1> QED
  BY <1>3, <1>5, <1>7 DEF F, Holds, PackedIn

LEMMA PackedIsProper ==
  ASSUME NEW data, DOMAIN data = CellsHeld["gba"], data.ot_id \in WholeIDs(AllIDs),
         NEW l \in 0..100, NEW g \in Gen3Games, NEW b \in DOMAIN BallNumber, NEW top \in SUBSET {15},
         data.origin_info = PackedOf(l, g, b, top)
  PROVE  Proper("gba", data)
<1> DEFINE F == Rows["gba"]
<1>1. /\ StoredAt(F["levelMet"], data) = F["levelMet"].code[l]
      /\ StoredAt(F["originalGame"], data) = F["originalGame"].code[g]
      /\ StoredAt(F["ball"], data) = F["ball"].code[b]
  <2>1. PackedIn(data, l, g, b, top)
    BY PackedIsStored
  <2> QED
    BY <2>1 DEF PackedIn
<1>2. l \in DOMAIN F["levelMet"].code /\ g \in DOMAIN F["originalGame"].code /\ b \in DOMAIN F["ball"].code
  BY GBACodes
<1>3. Settable(F["trainerId"], data)
  BY WholeIsSettable DEF IDCellOf
<1> HIDE DEF F
<1>4. Settable(F["levelMet"], data) /\ Settable(F["originalGame"], data) /\ Settable(F["ball"], data)
  BY <1>1, <1>2 DEF Settable
<1>5. \A t \in Sure["gba"] : Settable(F[t], data)
  BY <1>3, <1>4 DEF Sure
<1> QED
  BY <1>5 DEF Proper, SureIn, F

LEMMA GCNIsProper ==
  ASSUME NEW data, DOMAIN data = CellsHeld["gcn"], data.TID_SID \in WholeIDs(AllIDs), data.language \in {0, 1, 2},
         data.levelMet \in 0..100, NEW g \in Gen3Games, data.game = AnyGame[g],
         NEW b \in DOMAIN BallNumber, data.ball = BallNumber[b], data.OTGender \in {"MALE", "FEMALE"}
  PROVE  /\ Proper("gcn", data)
         /\ StoredAt(Rows["gcn"]["levelMet"], data) = data.levelMet
         /\ StoredAt(Rows["gcn"]["originalGame"], data) = AnyGame[g]
         /\ StoredAt(Rows["gcn"]["ball"], data) = BallNumber[b]
         /\ StoredAt(Rows["gcn"]["trainerGender"], data) = data.OTGender
<1> DEFINE F == Rows["gcn"]
<1>1. Settable(F["trainerId"], data)
  BY WholeIsSettable DEF IDCellOf
<1>2. /\ F["ball"].cell = "ball" /\ F["ball"].mask = {} /\ F["ball"].code = BallNumber
      /\ F["levelMet"].cell = "levelMet" /\ F["levelMet"].mask = {}
      /\ DOMAIN F["levelMet"].code = 0..100 /\ \A l \in 0..100 : F["levelMet"].code[l] = l
      /\ F["originalGame"].cell = "game" /\ F["originalGame"].mask = {}
      /\ DOMAIN F["originalGame"].code = Gen3Games /\ \A h \in Gen3Games : F["originalGame"].code[h] = AnyGame[h]
      /\ F["trainerGender"].cell = "OTGender" /\ F["trainerGender"].mask = {}
      /\ DOMAIN F["trainerGender"].code = {"MALE", "FEMALE"}
      /\ \A s \in {"MALE", "FEMALE"} : F["trainerGender"].code[s] = s
  BY GCNCodes
<1> HIDE DEF F
<1>3. /\ StoredAt(F["levelMet"], data) = data.levelMet /\ StoredAt(F["originalGame"], data) = AnyGame[g]
      /\ StoredAt(F["ball"], data) = BallNumber[b] /\ StoredAt(F["trainerGender"], data) = data.OTGender
  BY <1>2 DEF StoredAt
<1>4. Settable(F["levelMet"], data)
  BY <1>2, <1>3 DEF Settable
<1>5. Settable(F["originalGame"], data)
  BY <1>2, <1>3 DEF Settable
<1>6. Settable(F["ball"], data)
  BY <1>2, <1>3 DEF Settable
<1>7. Settable(F["trainerGender"], data)
  BY <1>2, <1>3 DEF Settable
<1>8. \A t \in Sure["gcn"] : Settable(F[t], data)
  BY <1>1, <1>4, <1>5, <1>6, <1>7 DEF Sure
<1> QED
  BY <1>3, <1>8 DEF Proper, SureIn, F

-----------------------------------------------------------------------------
LEMMA OwnGamesAreGood ==
  ASSUME NEW c \in Classes, NEW g \in GamesOf[c]
  PROVE  GoodGame(c, g)
BY DEF GoodGame, AllGames, Gen3Games, Classes

LEMMA CellsOfNames == DOMAIN GBNames = {"_nickname", "_trainer_name"}
BY DEF GBNames

LEMMA Gen1Cells ==
  ASSUME NEW a, NEW b
  PROVE  DOMAIN ([ot_id |-> a, catch_rate |-> b] ++ GBNames) = CellsHeld["gen1"]
<1> DEFINE two == [ot_id |-> a, catch_rate |-> b]
<1>1. DOMAIN two = {"ot_id", "catch_rate"}
  OBVIOUS
<1>2. Two(two ++ GBNames, two, GBNames)
  BY TwoJoined
<1> HIDE DEF two
<1>3. DOMAIN (two ++ GBNames) = {"ot_id", "catch_rate", "_nickname", "_trainer_name"}
  BY <1>1, <1>2, CellsOfNames DEF Two
<1> QED
  BY <1>3 DEF two, CellsHeld

LEMMA Gen1IsProper == \A data : DOMAIN data = CellsHeld["gen1"] => Proper("gen1", data)
BY DEF Proper, SureIn, Sure

LEMMA NewGen1IsProper == Proper("gen1", NewGen1)
BY Gen1Cells, Gen1IsProper DEF NewGen1

(* Once the level is set a structure of Generation II is proper. *)
LEMMA Gen2LevelIsSet ==
  ASSUME NEW g \in GamesOf["gen2"], NEW data, DOMAIN data = CellsHeld["gen2"], NEW v \in 2..63
  PROVE  LET new == WithTrait("gen2", g, data, "levelMet", v)
         IN Proper("gen2", new) /\ SetIn("gen2", g, data, "levelMet", v, new)
<1> DEFINE new == WithTrait("gen2", g, data, "levelMet", v)
<1>1. "gen2" \in Classes /\ GoodGame("gen2", g)
  BY OwnGamesAreGood DEF Classes
<1>2. RowOf("gen2", g, "levelMet") = Rows["gen2"]["levelMet"]
  BY RowsOfTraits
<1>3. v \in DOMAIN RowOf("gen2", g, "levelMet").code
  BY <1>2, Gen2Codes
<1>4. "levelMet" \in TraitsOf("gen2")
  BY Gen2TableIs DEF IsGen2Table, RestIsEmpty, TraitsIn, TraitsOf
<1>5. SetIn("gen2", g, data, "levelMet", v, new)
  BY <1>1, <1>3, <1>4, SetterDoes
<1>6. "levelMet" \in Sure["gen2"] /\ \A t \in Sure["gen2"] : t = "levelMet"
  BY DEF Sure
<1>7. Settable(Rows["gen2"]["levelMet"], new)
  BY <1>1, <1>3, <1>4, <1>6, SetIsSure
<1> HIDE DEF new
<1>8. Proper("gen2", new)
  BY <1>5, <1>6, <1>7 DEF Proper, SureIn, SetIn
<1> QED
  BY <1>5, <1>8 DEF new

LEMMA Gen2Cells ==
  ASSUME NEW a, DOMAIN a = {"ot_id", "item", "friendship", "pokerus", "caught_data", "_is_egg"}
  PROVE  DOMAIN (a ++ GBNames) = CellsHeld["gen2"]
<1>1. Two(a ++ GBNames, a, GBNames)
  BY TwoJoined
<1> QED
  BY <1>1, CellsOfNames DEF Two, CellsHeld

LEMMA LeastIsSmall ==
  ASSUME NEW l \in 2..100
  PROVE  Least(l, 63) \in 2..63 /\ Least(l, 100) = l
BY DEF Least

LEMMA NewGen2IsProper ==
  ASSUME NEW g \in GamesOf["gen2"], NEW l \in 2..100, NEW time
  PROVE  Proper("gen2", NewGen2(g, l, time))
<1> DEFINE base == [ot_id |-> Low(DefaultID), item |-> 0, friendship |-> BaseFriendship, pokerus |-> {},
                    caught_data |-> time, _is_egg |-> FALSE]
           data == base ++ GBNames
           met == WithTrait("gen2", g, data, "levelMet", Least(l, 63))
<1>1. NewGen2(g, l, time) = WithTrait("gen2", g, met, "location", "Special")
  BY DEF NewGen2
<1>2. DOMAIN base = {"ot_id", "item", "friendship", "pokerus", "caught_data", "_is_egg"}
  OBVIOUS
<1> HIDE DEF base
<1>3. DOMAIN data = CellsHeld["gen2"]
  BY <1>2, Gen2Cells
<1> HIDE DEF data
<1>4. Proper("gen2", met)
  BY <1>3, LeastIsSmall, Gen2LevelIsSet
<1> HIDE DEF met
<1>5. "Special" \in DOMAIN RowOf("gen2", g, "location").code
  <2> DEFINE numbers == PlaceIndex[g]
             row == Part("caught_data", 0, 7, numbers, Refused)
  <2>1. row.code = InWord(numbers, 0)
    BY PartCodes
  <2>2. RowOf("gen2", g, "location") = row
    BY Gen2Place
  <2>3. "Special" \in DOMAIN numbers
    BY PlacesAssumption
  <2> HIDE DEF row, numbers
  <2>4. DOMAIN InWord(numbers, 0) = DOMAIN numbers
    BY DEF InWord
  <2> QED
    BY <2>1, <2>2, <2>3, <2>4
<1>6. "location" \in TraitsOf("gen2") /\ "gen2" \in Classes /\ GoodGame("gen2", g)
  BY OwnGamesAreGood DEF TraitsOf, Classes
<1>7. Proper("gen2", WithTrait("gen2", g, met, "location", "Special"))
  BY <1>4, <1>5, <1>6, SetIsProper
<1> QED
  BY <1>1, <1>7

LEMMA NewGBAIsProper ==
  ASSUME NEW g \in GamesOf["gba"], NEW l \in 2..100
  PROVE  Proper("gba", NewGBA(g, l))
<1> DEFINE data == NewGBA(g, l)
<1>1. DOMAIN data = CellsHeld["gba"]
  BY DEF NewGBA, CellsHeld
<1>2. data.ot_id \in WholeIDs(AllIDs)
  BY DefaultIsWhole DEF NewGBA
<1>3. l \in 0..100 /\ g \in Gen3Games /\ "POKE_BALL" \in DOMAIN BallNumber /\ {} \in SUBSET {15}
  BY DEF Gen3Games, BallNumber
<1>4. data.origin_info = PackedOf(l, g, "POKE_BALL", {})
  <2>1. data.origin_info = BitsOf(l) \cup Up(BitsOf(AnyGame[g]), 7) \cup Up(BitsOf(BallNumber["POKE_BALL"]), 11)
    BY DEF NewGBA
  <2> DEFINE word == BitsOf(l) \cup Up(BitsOf(AnyGame[g]), 7) \cup Up(BitsOf(BallNumber["POKE_BALL"]), 11)
  <2>2. PackedOf(l, g, "POKE_BALL", {}) = word \cup {}
    BY DEF PackedOf
  <2>3. data.origin_info = word
    BY <2>1
  <2> HIDE DEF word, data
  <2> QED
    BY <2>2, <2>3
<1> HIDE DEF data
<1>5. Proper("gba", data)
  BY <1>1, <1>2, <1>3, <1>4, PackedIsProper
<1> QED
  BY <1>5 DEF data

LEMMA NewGCNIsProper ==
  ASSUME NEW l \in 2..100
  PROVE  Proper("gcn", NewGCN(l))
<1> DEFINE data == NewGCN(l)
<1>1. DOMAIN data = CellsHeld["gcn"]
  BY DEF NewGCN, CellsHeld
<1>2. data.TID_SID \in WholeIDs(AllIDs)
  BY DefaultIsWhole DEF NewGCN
<1>3. /\ data.language \in {0, 1, 2} /\ data.levelMet \in 0..100 /\ data.OTGender \in {"MALE", "FEMALE"}
      /\ data.game = AnyGame["colosseum"] /\ data.ball = BallNumber["POKE_BALL"]
  BY DEF NewGCN, GCNLanguage
<1>4. "colosseum" \in Gen3Games /\ "POKE_BALL" \in DOMAIN BallNumber
  BY GamesAre DEF BallNumber
<1> HIDE DEF data
<1>5. Proper("gcn", data)
  BY <1>1, <1>2, <1>3, <1>4, GCNIsProper
<1> QED
  BY <1>5 DEF data

LEMMA OriginBegins == OriginInit => OriginInv
<1> SUFFICES ASSUME OriginInit PROVE OriginInv
  OBVIOUS
<1>1. class \in Classes /\ game \in GamesOf[class] /\ level \in 2..100
  BY OriginAssumption DEF OriginInit
<1>2. GoodGame(class, game)
  BY <1>1, OwnGamesAreGood
<1>3. CASE class = "gen1" /\ cells = NewGen1
  BY <1>1, <1>2, <1>3, NewGen1IsProper DEF OriginInv
<1>4. CASE class = "gen2" /\ \E time \in TimesOfDay : cells = NewGen2(game, level, time)
  BY <1>1, <1>2, <1>4, NewGen2IsProper DEF OriginInv
<1>5. CASE class = "gba" /\ cells = NewGBA(game, level)
  BY <1>1, <1>2, <1>5, NewGBAIsProper DEF OriginInv
<1>6. CASE class = "gcn" /\ cells = NewGCN(level)
  BY <1>1, <1>2, <1>6, NewGCNIsProper DEF OriginInv
<1> QED
  BY <1>3, <1>4, <1>5, <1>6 DEF OriginInit

-----------------------------------------------------------------------------
LEMMA SameCellSameTold ==
  ASSUME NEW row, NEW data, NEW new, data[row.cell] = new[row.cell]
  PROVE  StoredAt(row, new) = StoredAt(row, data) /\ ToldOf(row, new) = ToldOf(row, data)
<1>1. StoredAt(row, new) = StoredAt(row, data)
  BY DEF StoredAt
<1> QED
  BY <1>1, ToldIsOfStored

LEMMA CellIsWhere ==
  ASSUME NEW c \in Classes, NEW g, GoodGame(c, g), NEW t \in Has(c), t # "location"
  PROVE  RowOf(c, g, t) = Rows[c][t] /\ Rows[c][t].cell = CellIn[c][t]
<1>1. RowOf(c, g, t) = Rows[c][t]
  BY RowsOfTraits
<1>2. RowOf(c, g, t).cell = CellIn[c][t]
  BY RowsAreInPlace DEF InPlace
<1> QED
  BY <1>1, <1>2

LEMMA DaysAreAside ==
  ASSUME NEW g \in GamesOf["gcn"], NEW data, Proper("gcn", data), NEW d, NEW new, new = [data EXCEPT !.days = d]
  PROVE  /\ Proper("gcn", new)
         /\ \A t \in Has("gcn") : /\ StoredAt(RowOf("gcn", g, t), new) = StoredAt(RowOf("gcn", g, t), data)
                                  /\ ToldOf(RowOf("gcn", g, t), new) = ToldOf(RowOf("gcn", g, t), data)
<1>1. DOMAIN data = CellsHeld["gcn"] /\ SureIn("gcn", data) /\ data.language \in {0, 1, 2}
  BY DEF Proper
<1>2. DOMAIN new = CellsHeld["gcn"] /\ \A cell \in CellsHeld["gcn"] : cell # "days" => new[cell] = data[cell]
  BY <1>1
<1>3. \A t \in Has("gcn") : CellIn["gcn"][t] \in CellsHeld["gcn"] /\ CellIn["gcn"][t] # "days"
  BY DEF Has, CellIn, CellsHeld
<1>4. "gcn" \in Classes /\ GoodGame("gcn", g)
  BY OwnGamesAreGood DEF Classes
<1>5. ASSUME NEW t \in Has("gcn")
      PROVE  /\ StoredAt(RowOf("gcn", g, t), new) = StoredAt(RowOf("gcn", g, t), data)
             /\ ToldOf(RowOf("gcn", g, t), new) = ToldOf(RowOf("gcn", g, t), data)
  <2>1. RowOf("gcn", g, t).cell = CellIn["gcn"][t]
    BY <1>4, RowsAreInPlace DEF InPlace
  <2> DEFINE row == RowOf("gcn", g, t)
  <2>2. new[row.cell] = data[row.cell]
    BY <1>2, <1>3, <2>1
  <2> HIDE DEF row
  <2>3. StoredAt(row, new) = StoredAt(row, data) /\ ToldOf(row, new) = ToldOf(row, data)
    BY <2>2, SameCellSameTold
  <2> QED
    BY <2>3 DEF row
<1>6. ASSUME NEW t \in Sure["gcn"] PROVE Settable(Rows["gcn"][t], new)
  <2>1. t \in Has("gcn") /\ RowOf("gcn", g, t) = Rows["gcn"][t]
    BY <1>4, SureIsHad, RowsOfTraits
  <2>2. StoredAt(Rows["gcn"][t], new) = StoredAt(Rows["gcn"][t], data)
    BY <1>5, <2>1
  <2>3. Settable(Rows["gcn"][t], data)
    BY <1>1 DEF SureIn
  <2> QED
    BY <2>2, <2>3 DEF Settable
<1>7. new.language = data.language
  BY <1>2 DEF CellsHeld
<1> QED
  BY <1>1, <1>2, <1>5, <1>6, <1>7 DEF Proper, SureIn

(* One setter. *)
LEMMA OneTraitIsSet ==
  ASSUME OriginInv, NEW trait, NEW value, SetTrait(trait, value)
  PROVE  /\ OriginInv'
         /\ \/ TraitTold(trait)' = Expected(trait, value)
            \/ trait = "location" /\ class = "gba" /\ PlaceNumber(game)[value] > 255
         /\ \A other \in Has(class) \ {trait} :
              TraitTold(other)' = TraitTold(other) \/ {trait, other} \subseteq IDs
<1> DEFINE data == WithTrait(class, game, cells, trait, value)
           row(t) == RowOf(class, game, t)
<1>1. /\ GoodGame(class, game) /\ class \in Classes /\ level \in 2..100
      /\ Proper(class, cells) /\ DOMAIN cells = CellsHeld[class]
  BY DEF OriginInv, GoodGame, Proper
<1>2. /\ trait \in TraitsOf(class) /\ value \in DOMAIN row(trait).code
      /\ cells' = IF class = "gcn" /\ trait = "pokerus" THEN [data EXCEPT !.days = value] ELSE data
      /\ class' = class /\ game' = game /\ level' = level
  BY DEF SetTrait
<1>3. SetIn(class, game, cells, trait, value, data)
  BY <1>1, <1>2, SetterDoes
<1>4. Proper(class, data)
  BY <1>1, <1>2, SetIsProper
<1> HIDE DEF data
<1>5. /\ Proper(class, cells')
      /\ \A t \in Has(class) : ToldOf(row(t), cells') = ToldOf(row(t), data)
  <2>1. CASE class = "gcn" /\ trait = "pokerus"
    <3>1. cells' = [data EXCEPT !.days = value] /\ Proper("gcn", data)
      BY <1>2, <1>4, <2>1
    <3>2. game \in GamesOf["gcn"]
      BY <1>1, <2>1 DEF GoodGame
    <3> QED
      BY <2>1, <3>1, <3>2, DaysAreAside
  <2>2. CASE ~(class = "gcn" /\ trait = "pokerus")
    BY <1>2, <1>4, <2>2
  <2> QED
    BY <2>1, <2>2
<1>6. OriginInv'
  BY <1>1, <1>2, <1>5 DEF OriginInv
<1>7. \A t \in Has(class) : TraitTold(t)' = ToldOf(row(t), data)
  BY <1>2, <1>5 DEF TraitTold
<1>8. \A t : TraitTold(t) = ToldOf(row(t), cells)
  BY DEF TraitTold
<1> HIDE DEF row
<1>9. /\ trait \in Has(class)
      /\ \/ ToldOf(row(trait), data) = Expected(trait, value)
         \/ trait = "location" /\ class = "gba" /\ PlaceNumber(game)[value] > 255
  BY <1>3 DEF SetIn, row
<1>10. ASSUME NEW other \in Has(class) \ {trait}
       PROVE  ToldOf(row(other), data) = ToldOf(row(other), cells) \/ {trait, other} \subseteq IDs
  <2>1. {trait, other} \subseteq IDs \/ StoredAt(row(other), data) = StoredAt(row(other), cells)
    BY <1>3 DEF SetIn, row
  <2> QED
    BY <2>1, ToldIsOfStored
<1> QED
  BY <1>6, <1>7, <1>8, <1>9, <1>10

LEMMA SettersExact == OriginInv => SettersAreExact
<1> SUFFICES ASSUME OriginInv, NEW trait \in DOMAIN Inputs, NEW value \in Inputs[trait], SetTrait(trait, value)
             PROVE  /\ \/ TraitTold(trait)' = IF trait = "originalGame" THEN Seen(value) ELSE value
                       \/ trait = "location" /\ class = "gba" /\ PlaceNumber(game)[value] > 255
                    /\ \A other \in Known \ {trait} :
                         TraitTold(other)' = TraitTold(other) \/ {trait, other} \subseteq IDs
  BY DEF SettersAreExact
<1>1. Known \subseteq Has(class)
  BY KnownIsHad DEF Known, OriginInv, GoodGame
<1> QED
  BY <1>1, OneTraitIsSet DEF Expected

-----------------------------------------------------------------------------
(* What getters tell of what is sure.                                      *)
LEMMA LevelIsTold ==
  ASSUME NEW c \in Classes \ {"gen1"}, NEW g, GoodGame(c, g), NEW data, Proper(c, data)
  PROVE  ToldOf(Rows[c]["levelMet"], data) \in 0..100
<1>1. "levelMet" \in Sure[c] /\ "levelMet" \in Has(c)
  BY SureIsHad DEF Sure, Classes
<1>2. Settable(Rows[c]["levelMet"], data)
  BY <1>1 DEF Proper, SureIn
<1>3. PICK v \in DOMAIN Rows[c]["levelMet"].code : StoredAt(Rows[c]["levelMet"], data) = Rows[c]["levelMet"].code[v]
  BY <1>2 DEF Settable
<1>4. ToldOf(Rows[c]["levelMet"], data) = v
  BY <1>1, <1>3, SureIsTold DEF Expected
<1>5. DOMAIN Rows[c]["levelMet"].code \subseteq 0..100
  <2>1. CASE c = "gen2"
    BY <2>1, Gen2Codes
  <2>2. CASE c = "gba"
    BY <2>2, GBACodes
  <2>3. CASE c = "gcn"
    BY <2>3, GCNCodes
  <2> QED
    BY <2>1, <2>2, <2>3 DEF Classes
<1> QED
  BY <1>4, <1>5

LEMMA OriginalGameIsTold ==
  ASSUME NEW c \in {"gba", "gcn"}, NEW g, GoodGame(c, g), NEW data, Proper(c, data)
  PROVE  \E v \in Gen3Games : /\ StoredAt(Rows[c]["originalGame"], data) = Rows[c]["originalGame"].code[v]
                              /\ ToldOf(Rows[c]["originalGame"], data) = Seen(v)
<1>1. c \in Classes /\ "originalGame" \in Sure[c] /\ "originalGame" \in Has(c)
  BY SureIsHad DEF Sure, Classes
<1>2. Settable(Rows[c]["originalGame"], data)
  BY <1>1 DEF Proper, SureIn
<1>3. PICK v \in DOMAIN Rows[c]["originalGame"].code :
        StoredAt(Rows[c]["originalGame"], data) = Rows[c]["originalGame"].code[v]
  BY <1>2 DEF Settable
<1>4. ToldOf(Rows[c]["originalGame"], data) = Seen(v)
  BY <1>1, <1>3, SureIsTold DEF Expected
<1>5. DOMAIN Rows[c]["originalGame"].code = Gen3Games
  BY GBACodes, GCNCodes
<1> QED
  BY <1>3, <1>4, <1>5

LEMMA OriginalGameIsOne ==
  ASSUME NEW c \in {"gba", "gcn"}, NEW g, GoodGame(c, g), NEW data, Proper(c, data)
  PROVE  /\ ToldOf(Rows[c]["originalGame"], data) \in Gen3Games \ {"xd"}
         /\ ToldOf(Rows[c]["originalGame"], data) \in GamesOf["gba"] \cup {"colosseum"}
<1>1. PICK v \in Gen3Games : ToldOf(Rows[c]["originalGame"], data) = Seen(v)
  BY OriginalGameIsTold
<1>2. Seen(v) \in Gen3Games \ {"xd"}
  BY GamesAre
<1>3. GamesOf["gcn"] = {"colosseum", "xd"}
  BY OriginAssumption
<1> QED
  BY <1>1, <1>2, <1>3 DEF Gen3Games

-----------------------------------------------------------------------------
LEMMA SecretIsKnown ==
  ASSUME NEW c \in {"gba", "gcn"}
  PROVE  {"publicId", "secretId", "trainerId"} \subseteq DOMAIN Rows[c] /\ "secretId" \in KnownTo[c]
<1> DEFINE cell == IDCellOf[c]
           any == CHOOSE g \in GamesOf[c] : TRUE
           row == IDParts(cell, AllIDs)["secretId"]
<1>1. {"publicId", "secretId", "trainerId"} \subseteq DOMAIN Rows[c]
  BY GBATableIs, GCNTableIs DEF IsGBATable, IsGCNTable, RestIsEmpty, TraitsIn
<1>2. RowOf(c, any, "secretId") = row
  <2>1. RowOf(c, any, "secretId") = Rows[c]["secretId"]
    BY RowsOfTraits
  <2> QED
    BY <2>1, WholeIsSettable DEF IDs
<1>3. Low(DefaultID) \in Halves(AllIDs)
  BY DEF Halves, AllIDs
<1>4. Sound(row) /\ DOMAIN row.code = Halves(AllIDs)
  BY IDPartsAre
<1> HIDE DEF row
<1>5. row.code[Low(DefaultID)] \in DOMAIN row.told
  BY <1>3, <1>4 DEF Sound, Exact
<1>6. DOMAIN RowOf(c, any, "secretId").told # {}
  BY <1>2, <1>5
<1> QED
  BY <1>1, <1>6 DEF KnownTo, TraitsOf, Classes

LEMMA InvIDsFit == OriginInv => IDsFit
<1> SUFFICES ASSUME OriginInv PROVE IDsFit
  OBVIOUS
<1>1. class \in Classes /\ GoodGame(class, game) /\ Proper(class, cells)
  BY DEF OriginInv, GoodGame
<1>2. TraitTold("trainerId") = TraitTold("publicId") \cup (IF "secretId" \in Known THEN Up(TraitTold("secretId"), 16) ELSE {})
  <2>1. /\ TraitTold("trainerId") = ToldOf(Rows[class]["trainerId"], cells)
        /\ TraitTold("publicId") = ToldOf(Rows[class]["publicId"], cells)
        /\ TraitTold("secretId") = ToldOf(Rows[class]["secretId"], cells)
    BY RowsOfTraits DEF TraitTold
  <2>2. CASE class \in {"gen1", "gen2"}
    <3>1. Rows[class]["trainerId"] = Rows[class]["publicId"]
      BY <2>2, Gen1TableIs, Gen2TableIs DEF IsGen1Table, IsGen2Table
    <3>2. "secretId" \notin Has(class)
      BY <2>2 DEF Has, CellIn
    <3>3. "secretId" \notin Known
      BY <1>1, <3>2, KnownIsHad DEF Known
    <3> QED
      BY <2>1, <3>1, <3>3
  <2>3. CASE class \in {"gba", "gcn"}
    <3> DEFINE cell == IDCellOf[class]
               ids == IDParts(cell, AllIDs)
    <3>1. "secretId" \in Known
      BY <2>3, SecretIsKnown DEF Known
    <3>2. /\ Rows[class]["trainerId"] = ids["trainerId"] /\ Rows[class]["publicId"] = ids["publicId"]
          /\ Rows[class]["secretId"] = ids["secretId"]
      BY <2>3, WholeIsSettable DEF IDs
    <3>3. Settable(Rows[class]["trainerId"], cells)
      BY <1>1, <2>3 DEF Proper, SureIn, Sure
    <3>4. cells[cell] \in WholeIDs(AllIDs)
      BY <2>3, <3>3, WholeIsSettable
    <3>5. ToldOf(ids["trainerId"], cells) = ToldOf(ids["publicId"], cells) \cup Up(ToldOf(ids["secretId"], cells), 16)
      BY <3>4, IDsAreRead
    <3> HIDE DEF ids
    <3> QED
      BY <2>1, <3>1, <3>2, <3>5
  <2> QED
    BY <1>1, <2>2, <2>3 DEF Classes
<1>3. ASSUME "levelMet" \in Known PROVE TraitTold("levelMet") \in 0..100
  <2>1. "levelMet" \in Has(class)
    BY <1>1, <1>3, KnownIsHad DEF Known
  <2>2. class # "gen1"
    BY <2>1 DEF Has, CellIn
  <2>3. TraitTold("levelMet") = ToldOf(Rows[class]["levelMet"], cells)
    BY RowsOfTraits DEF TraitTold
  <2> QED
    BY <1>1, <2>2, <2>3, LevelIsTold
<1> QED
  BY <1>2, <1>3 DEF IDsFit

-----------------------------------------------------------------------------
(* A structure without what is kept beside it. *)
LEMMA OverGen1Keeps ==
  ASSUME NEW data
  PROVE  LET new == OverGen1(data)
         IN /\ DOMAIN new = CellsHeld["gen1"]
            /\ new["ot_id"] = data["ot_id"] /\ new["catch_rate"] = data["catch_rate"]
<1> DEFINE two == [x \in {"ot_id", "catch_rate"} |-> data[x]]
<1>1. DOMAIN two = {"ot_id", "catch_rate"} /\ two["ot_id"] = data["ot_id"] /\ two["catch_rate"] = data["catch_rate"]
  OBVIOUS
<1>2. Two(OverGen1(data), two, GBNames)
  BY TwoJoined DEF OverGen1
<1> HIDE DEF two
<1> QED
  BY <1>1, <1>2, CellsOfNames DEF Two, CellsHeld

InGen2 == {"ot_id", "item", "friendship", "pokerus", "caught_data"}

LEMMA OverGen2Keeps ==
  ASSUME NEW data
  PROVE  LET new == OverGen2(data)
         IN DOMAIN new = CellsHeld["gen2"] /\ \A x \in InGen2 : new[x] = data[x]
<1> DEFINE five == [x \in InGen2 |-> data[x]]
           egg == [_is_egg |-> FALSE]
<1>1. DOMAIN five = InGen2 /\ \A x \in InGen2 : five[x] = data[x]
  OBVIOUS
<1>2. DOMAIN egg = {"_is_egg"}
  OBVIOUS
<1>3. Three(OverGen2(data), five, egg, GBNames)
  BY ThreeJoined DEF OverGen2, InGen2
<1> HIDE DEF five, egg
<1> QED
  BY <1>1, <1>2, <1>3, CellsOfNames DEF Three, CellsHeld, InGen2

LEMMA LoadedAsBefore ==
  ASSUME NEW c \in {"gen1", "gen2"}, NEW g, GoodGame(c, g), NEW data, Proper(c, data), NEW new,
         new = IF c = "gen1" THEN OverGen1(data) ELSE OverGen2(data)
  PROVE  /\ Proper(c, new)
         /\ \A t \in Has(c) \ {"location", "nickname", "trainerName", "egg"} :
              ToldOf(Rows[c][t], new) = ToldOf(Rows[c][t], data)
<1>1. c \in Classes
  BY DEF Classes
<1>2. DOMAIN new = CellsHeld[c]
  BY OverGen1Keeps, OverGen2Keeps
<1>3. \A t \in Has(c) \ {"location", "nickname", "trainerName", "egg"} : new[CellIn[c][t]] = data[CellIn[c][t]]
  <2>1. CASE c = "gen1"
    <3>1. new["ot_id"] = data["ot_id"] /\ new["catch_rate"] = data["catch_rate"]
      BY <2>1, OverGen1Keeps
    <3>2. \A t \in Has("gen1") \ {"location", "nickname", "trainerName", "egg"} : CellIn["gen1"][t] \in {"ot_id", "catch_rate"}
      BY DEF Has, CellIn
    <3> QED
      BY <2>1, <3>1, <3>2
  <2>2. CASE c = "gen2"
    <3>1. \A x \in InGen2 : new[x] = data[x]
      BY <2>2, OverGen2Keeps
    <3>2. \A t \in Has("gen2") \ {"location", "nickname", "trainerName", "egg"} : CellIn["gen2"][t] \in InGen2
      BY DEF Has, CellIn, InGen2
    <3> QED
      BY <2>2, <3>1, <3>2
  <2> QED
    BY <2>1, <2>2
<1>4. ASSUME NEW t \in Has(c) \ {"location", "nickname", "trainerName", "egg"}
      PROVE  /\ StoredAt(Rows[c][t], new) = StoredAt(Rows[c][t], data)
             /\ ToldOf(Rows[c][t], new) = ToldOf(Rows[c][t], data)
  <2> DEFINE row == Rows[c][t]
  <2>1. row.cell = CellIn[c][t]
    BY <1>1, CellIsWhere
  <2>2. new[row.cell] = data[row.cell]
    BY <1>3, <2>1
  <2> HIDE DEF row
  <2>3. StoredAt(row, new) = StoredAt(row, data) /\ ToldOf(row, new) = ToldOf(row, data)
    BY <2>2, SameCellSameTold
  <2> QED
    BY <2>3 DEF row
<1>5. ASSUME NEW t \in Sure[c] PROVE Settable(Rows[c][t], new)
  <2>1. t = "levelMet" /\ t \in Has(c)
    BY <1>1, SureIsHad DEF Sure
  <2>2. Settable(Rows[c][t], data)
    BY DEF Proper, SureIn
  <2> QED
    BY <1>4, <2>1, <2>2 DEF Settable
<1> QED
  BY <1>2, <1>4, <1>5 DEF Proper, SureIn

LEMMA FileLoaded ==
  ASSUME OriginInv, ReloadPokemon
  PROVE  OriginInv' /\ FilesKeepStructure /\ OnlyFilesMisplace
<1>1. /\ class \in Classes /\ GoodGame(class, game) /\ Proper(class, cells) /\ level \in 2..100
      /\ class' = class /\ level' = level
  BY DEF OriginInv, GoodGame, ReloadPokemon
<1>2. Known \subseteq Has(class)
  BY <1>1, KnownIsHad DEF Known
<1>3. \A t : t # "location" => /\ TraitTold(t) = ToldOf(Rows[class][t], cells)
                               /\ TraitTold(t)' = ToldOf(Rows[class][t], cells')
  BY <1>1, RowsOfTraits DEF TraitTold
<1>4. CASE LoadPk1 \/ LoadPk2
  <2>1. /\ class \in {"gen1", "gen2"} /\ cells' = IF class = "gen1" THEN OverGen1(cells) ELSE OverGen2(cells)
        /\ game' = IF class = "gen1" THEN "red" ELSE "gold"
    BY <1>4 DEF LoadPk1, LoadPk2
  <2>2. game' \in GamesOf[class]
    BY <2>1, OriginAssumption
  <2>3. /\ Proper(class, cells')
        /\ \A t \in Has(class) \ {"location", "nickname", "trainerName", "egg"} :
             ToldOf(Rows[class][t], cells') = ToldOf(Rows[class][t], cells)
    BY <1>1, <2>1, LoadedAsBefore
  <2>4. GoodGame(class, game')
    BY <1>1, <2>2, OwnGamesAreGood
  <2>5. OriginInv'
    BY <1>1, <2>3, <2>4 DEF OriginInv
  <2>6. FilesKeepStructure
    BY <1>2, <1>3, <2>1, <2>3 DEF FilesKeepStructure
  <2>7. OnlyFilesMisplace
    BY <1>1, <2>2 DEF OnlyFilesMisplace
  <2> QED
    BY <2>5, <2>6, <2>7
<1>5. CASE Load3gpkm
  <2>1. class = "gba" /\ game' = TraitTold("originalGame") /\ cells' = cells
    BY <1>5 DEF Load3gpkm
  <2>2. game' \in Gen3Games \ {"xd"} /\ game' \in GamesOf["gba"] \cup {"colosseum"}
    BY <1>1, <1>3, <2>1, OriginalGameIsOne
  <2>3. GoodGame(class, game')
    BY <1>1, <2>1, <2>2 DEF GoodGame, AllGames, Gen3Games, Classes
  <2>4. OriginInv'
    BY <1>1, <2>1, <2>3 DEF OriginInv
  <2>5. FilesKeepStructure
    BY <1>3, <2>1 DEF FilesKeepStructure
  <2>6. OnlyFilesMisplace
    BY <1>1, <2>1, <2>2 DEF OnlyFilesMisplace
  <2> QED
    BY <2>4, <2>5, <2>6
<1>6. CASE LoadCk3OrXk3
  <2>1. class = "gcn" /\ cells' = cells /\ game' = game
    BY <1>6 DEF LoadCk3OrXk3
  <2>2. OriginInv'
    BY <1>1, <2>1 DEF OriginInv
  <2>3. FilesKeepStructure
    BY <1>3, <2>1 DEF FilesKeepStructure
  <2>4. OnlyFilesMisplace
    BY <1>1, <2>1 DEF OnlyFilesMisplace
  <2> QED
    BY <2>2, <2>3, <2>4
<1> QED
  BY <1>4, <1>5, <1>6 DEF ReloadPokemon

-----------------------------------------------------------------------------
(* Trades.  What both classes know is told as before.                      *)
Shared(c, d) == (Has(c) \cap Has(d)) \ {"levelMet", "location", "originalGame", "egg"}

Kept(c, data, d, new) == \A t \in Shared(c, d) : ToldOf(Rows[d][t], new) = ToldOf(Rows[c][t], data)

LEMMA ClassOfIs ==
  ASSUME NEW target \in AllGames
  PROVE  ClassOf(target) \in Classes /\ target \in GamesOf[ClassOf(target)] /\ GoodGame(ClassOf(target), target)
<1>1. \E c \in Classes : target \in GamesOf[c]
  BY DEF AllGames
<1>2. ClassOf(target) \in Classes /\ target \in GamesOf[ClassOf(target)]
  BY <1>1 DEF ClassOf
<1> QED
  BY <1>2, OwnGamesAreGood

LEMMA OtherCellsStay ==
  ASSUME NEW c, NEW g, NEW data, NEW t, NEW v, NEW x \in DOMAIN data, x # RowOf(c, g, t).cell
  PROVE  WithTrait(c, g, data, t, v)[x] = data[x]
BY DEF WithTrait, Stored

(* The names are set after the conversion. *)
LEMMA NamesAreSet ==
  ASSUME NEW data, {"_nickname", "_trainer_name"} \subseteq DOMAIN data
  PROVE  /\ DOMAIN Named(data) = DOMAIN data
         /\ Named(data)["_nickname"] = cells["_nickname"] /\ Named(data)["_trainer_name"] = cells["_trainer_name"]
         /\ \A x \in DOMAIN data \ {"_nickname", "_trainer_name"} : Named(data)[x] = data[x]
BY DEF Named

LEMMA ToGen1 ==
  ASSUME NEW data
  PROVE  LET new == Named(OverGen1(data))
         IN /\ Proper("gen1", new)
            /\ new["_nickname"] = cells["_nickname"] /\ new["_trainer_name"] = cells["_trainer_name"]
            /\ new["ot_id"] = data["ot_id"] /\ new["catch_rate"] = data["catch_rate"]
<1> DEFINE over == OverGen1(data)
           new == Named(over)
<1>1. /\ DOMAIN over = CellsHeld["gen1"]
      /\ over["ot_id"] = data["ot_id"] /\ over["catch_rate"] = data["catch_rate"]
  BY OverGen1Keeps
<1> HIDE DEF over
<1>2. {"_nickname", "_trainer_name", "ot_id", "catch_rate"} = CellsHeld["gen1"]
  BY DEF CellsHeld
<1>3. /\ DOMAIN new = DOMAIN over
      /\ new["_nickname"] = cells["_nickname"] /\ new["_trainer_name"] = cells["_trainer_name"]
      /\ \A x \in DOMAIN over \ {"_nickname", "_trainer_name"} : new[x] = over[x]
  BY <1>1, <1>2, NamesAreSet
<1> HIDE DEF new
<1>4. new["ot_id"] = data["ot_id"] /\ new["catch_rate"] = data["catch_rate"]
  BY <1>1, <1>2, <1>3
<1>5. Proper("gen1", new)
  BY <1>1, <1>3, Gen1IsProper
<1> QED
  BY <1>3, <1>4, <1>5 DEF new, over

LEMMA ToGen2 ==
  ASSUME OriginInv, NEW g \in GamesOf["gen2"], NEW data
  PROVE  LET new == Named(WithLevelMet("gen2", g, OverGen2(data)))
             gender == Rows["gen2"]["trainerGender"]
         IN /\ Proper("gen2", new)
            /\ new["_nickname"] = cells["_nickname"] /\ new["_trainer_name"] = cells["_trainer_name"]
            /\ \A x \in InGen2 \ {"caught_data"} : new[x] = data[x]
            /\ StoredAt(gender, new) = StoredAt(gender, data)
            /\ ToldOf(Rows["gen2"]["levelMet"], new) = Least(level, 63)
<1> DEFINE over == OverGen2(data)
           l == Least(level, 63)
           met == WithTrait("gen2", g, over, "levelMet", l)
           new == Named(met)
           gender == Rows["gen2"]["trainerGender"]
           row == Rows["gen2"]["levelMet"]
<1>1. Named(WithLevelMet("gen2", g, OverGen2(data))) = new
  BY DEF WithLevelMet
<1>2. l \in 2..63
  BY LeastIsSmall DEF OriginInv
<1>3. DOMAIN over = CellsHeld["gen2"] /\ \A x \in InGen2 : over[x] = data[x]
  BY OverGen2Keeps
<1> HIDE DEF over, l
<1>4. Proper("gen2", met) /\ SetIn("gen2", g, over, "levelMet", l, met)
  BY <1>2, <1>3, Gen2LevelIsSet
<1>5. "gen2" \in Classes /\ GoodGame("gen2", g)
  BY OwnGamesAreGood DEF Classes
<1>6. /\ RowOf("gen2", g, "levelMet") = row /\ RowOf("gen2", g, "trainerGender") = gender
      /\ row.cell = "caught_data" /\ gender.cell = "caught_data"
      /\ "levelMet" \in Has("gen2") /\ "trainerGender" \in Has("gen2")
  <2>1. "levelMet" \in Has("gen2") /\ "trainerGender" \in Has("gen2")
    BY DEF Has, CellIn
  <2>2. CellIn["gen2"]["levelMet"] = "caught_data" /\ CellIn["gen2"]["trainerGender"] = "caught_data"
    BY DEF CellIn
  <2> QED
    BY <1>5, <2>1, <2>2, CellIsWhere
<1>7. \A x \in CellsHeld["gen2"] \ {"caught_data"} : met[x] = over[x]
  BY <1>3, <1>6, OtherCellsStay
<1> HIDE DEF met, row, gender
<1>8. DOMAIN met = CellsHeld["gen2"]
  BY <1>4 DEF Proper
<1>9. /\ "_nickname" \in CellsHeld["gen2"] /\ "_trainer_name" \in CellsHeld["gen2"]
      /\ InGen2 \subseteq CellsHeld["gen2"] \ {"_nickname", "_trainer_name"}
  BY DEF CellsHeld, InGen2
<1>10. /\ DOMAIN new = CellsHeld["gen2"]
       /\ new["_nickname"] = cells["_nickname"] /\ new["_trainer_name"] = cells["_trainer_name"]
       /\ \A x \in InGen2 : new[x] = met[x]
  BY <1>8, <1>9, NamesAreSet
<1> HIDE DEF new
<1>11. "caught_data" \in InGen2
  BY DEF InGen2
<1>12. StoredAt(row, new) = StoredAt(row, met) /\ StoredAt(gender, new) = StoredAt(gender, met)
       /\ ToldOf(row, new) = ToldOf(row, met)
  BY <1>6, <1>10, <1>11, SameCellSameTold
<1>13. /\ StoredAt(row, met) = row.code[l] /\ ToldOf(row, met) = l
       /\ StoredAt(gender, met) = StoredAt(gender, over)
  BY <1>4, <1>6 DEF SetIn, Expected, IDs
<1>14. StoredAt(gender, over) = StoredAt(gender, data)
  BY <1>3, <1>6, <1>11, SameCellSameTold
<1>15. Proper("gen2", new)
  <2>1. Settable(row, met)
    BY <1>4 DEF Proper, SureIn, Sure, row
  <2>2. Settable(row, new)
    BY <1>12, <2>1 DEF Settable
  <2>3. \A t \in Sure["gen2"] : t = "levelMet"
    BY DEF Sure
  <2> QED
    BY <1>10, <2>2, <2>3 DEF Proper, SureIn, row
<1>16. \A x \in InGen2 \ {"caught_data"} : new[x] = data[x]
  BY <1>3, <1>7, <1>9, <1>10
<1>17. /\ Proper("gen2", new)
       /\ new["_nickname"] = cells["_nickname"] /\ new["_trainer_name"] = cells["_trainer_name"]
       /\ \A x \in InGen2 \ {"caught_data"} : new[x] = data[x]
       /\ StoredAt(gender, new) = StoredAt(gender, data)
       /\ ToldOf(row, new) = l
  BY <1>10, <1>12, <1>13, <1>14, <1>15, <1>16
<1> QED
  BY <1>1, <1>17 DEF gender, row, l

-----------------------------------------------------------------------------
(* The Game Boys have the same rows for what both know. *)
LEMMA GameBoysAgree ==
  /\ Shared("gen1", "gen1") = {"nickname", "trainerName", "publicId", "trainerId", "catchRate"}
  /\ Shared("gen1", "gen2") = {"nickname", "trainerName", "publicId", "trainerId"}
  /\ Shared("gen2", "gen1") = {"nickname", "trainerName", "publicId", "trainerId"}
  /\ Shared("gen2", "gen2") = {"nickname", "trainerName", "publicId", "trainerId", "heldItem", "pokerus",
                               "trainerGender", "friendship"}
  /\ \A t \in {"nickname", "trainerName", "publicId", "trainerId"} :
       /\ Rows["gen1"][t] = Rows["gen2"][t] /\ Rows["gen1"][t].cell = CellIn["gen1"][t]
       /\ CellIn["gen1"][t] \in {"_nickname", "_trainer_name", "ot_id"}
<1>1. /\ Shared("gen1", "gen1") = {"nickname", "trainerName", "publicId", "trainerId", "catchRate"}
      /\ Shared("gen1", "gen2") = {"nickname", "trainerName", "publicId", "trainerId"}
      /\ Shared("gen2", "gen1") = {"nickname", "trainerName", "publicId", "trainerId"}
      /\ Shared("gen2", "gen2") = {"nickname", "trainerName", "publicId", "trainerId", "heldItem", "pokerus",
                                   "trainerGender", "friendship"}
  BY DEF Shared, Has, CellIn
<1>2. \A t \in {"nickname", "trainerName", "publicId", "trainerId"} : Rows["gen1"][t] = Rows["gen2"][t]
  BY Gen1TableIs, Gen2TableIs DEF IsGen1Table, IsGen2Table
<1>3. \A t \in {"nickname", "trainerName", "publicId", "trainerId"} :
        t \in Has("gen1") /\ CellIn["gen1"][t] \in {"_nickname", "_trainer_name", "ot_id"}
  BY DEF Has, CellIn
<1>4. \A t \in {"nickname", "trainerName", "publicId", "trainerId"} : Rows["gen1"][t].cell = CellIn["gen1"][t]
  BY <1>3, Gen1Good DEF Good, LaidOut
<1> QED
  BY <1>1, <1>2, <1>3, <1>4

LEMMA SameNamesAndID ==
  ASSUME NEW data, NEW new, new["_nickname"] = data["_nickname"], new["_trainer_name"] = data["_trainer_name"],
         new["ot_id"] = data["ot_id"], NEW c \in {"gen1", "gen2"}, NEW d \in {"gen1", "gen2"},
         NEW t \in {"nickname", "trainerName", "publicId", "trainerId"}
  PROVE  ToldOf(Rows[d][t], new) = ToldOf(Rows[c][t], data)
<1> DEFINE row == Rows["gen1"][t]
<1>1. Rows[c][t] = row /\ Rows[d][t] = row /\ row.cell \in {"_nickname", "_trainer_name", "ot_id"}
  BY GameBoysAgree
<1> HIDE DEF row
<1>2. data[row.cell] = new[row.cell]
  BY <1>1
<1> QED
  BY <1>1, <1>2, SameCellSameTold

TradedFromGameBoy(d) ==
  /\ d \in {"gen1", "gen2"} /\ Proper(d, cells') /\ Kept(class, cells, d, cells')
  /\ d = "gen2" => ToldOf(Rows["gen2"]["levelMet"], cells') = Least(level, 63)
  /\ class = "gen1" /\ d = "gen2" => cells'.item = cells.catch_rate
  /\ class = "gen2" /\ d = "gen1" => cells'.catch_rate = cells.item

LEMMA FromGen1Keeps ==
  ASSUME OriginInv, class = "gen1", NEW target \in AllGames, FromGen1(target)
  PROVE  TradedFromGameBoy(ClassOf(target))
<1> DEFINE d == ClassOf(target)
<1>1. CASE d = "gen1" /\ cells' = Named(OverGen1(cells))
  <2>1. /\ Proper("gen1", cells')
        /\ cells'["_nickname"] = cells["_nickname"] /\ cells'["_trainer_name"] = cells["_trainer_name"]
        /\ cells'["ot_id"] = cells["ot_id"] /\ cells'["catch_rate"] = cells["catch_rate"]
    BY <1>1, ToGen1
  <2>2. ASSUME NEW t \in Shared("gen1", "gen1") PROVE ToldOf(Rows["gen1"][t], cells') = ToldOf(Rows["gen1"][t], cells)
    <3>1. CASE t = "catchRate"
      <4> DEFINE row == Rows["gen1"]["catchRate"]
      <4>1. row.cell = "catch_rate"
        BY Gen1Good DEF Good, LaidOut, Has, CellIn
      <4> HIDE DEF row
      <4>2. ToldOf(row, cells') = ToldOf(row, cells)
        BY <2>1, <4>1, SameCellSameTold
      <4> QED
        BY <3>1, <4>2 DEF row
    <3>2. CASE t # "catchRate"
      BY <2>1, <3>2, GameBoysAgree, SameNamesAndID
    <3> QED
      BY <3>1, <3>2
  <2> QED
    BY <1>1, <2>1, <2>2 DEF TradedFromGameBoy, Kept
<1>2. CASE d = "gen2" /\ \E time \in TimesOfDay :
               cells' = Named(WithLevelMet("gen2", target, OverGen2(Gen1ToGen2(time))))
  <2>1. PICK time \in TimesOfDay : cells' = Named(WithLevelMet("gen2", target, OverGen2(Gen1ToGen2(time))))
    BY <1>2
  <2> DEFINE base == Gen1ToGen2(time)
  <2>2. base["ot_id"] = cells["ot_id"] /\ base["item"] = cells["catch_rate"]
    BY DEF Gen1ToGen2
  <2>3. target \in GamesOf["gen2"]
    BY <1>2, ClassOfIs
  <2> HIDE DEF base
  <2>4. /\ Proper("gen2", cells')
        /\ cells'["_nickname"] = cells["_nickname"] /\ cells'["_trainer_name"] = cells["_trainer_name"]
        /\ \A x \in InGen2 \ {"caught_data"} : cells'[x] = base[x]
        /\ ToldOf(Rows["gen2"]["levelMet"], cells') = Least(level, 63)
    BY <2>1, <2>3, ToGen2 DEF base
  <2>5. cells'["ot_id"] = cells["ot_id"] /\ cells'["item"] = cells["catch_rate"]
    BY <2>2, <2>4 DEF InGen2
  <2>6. Kept("gen1", cells, "gen2", cells')
    BY <2>4, <2>5, GameBoysAgree, SameNamesAndID DEF Kept
  <2> QED
    BY <1>2, <2>4, <2>5, <2>6 DEF TradedFromGameBoy
<1> QED
  BY <1>1, <1>2 DEF FromGen1

LEMMA FromGen2Keeps ==
  ASSUME OriginInv, class = "gen2", NEW target \in AllGames, FromGen2(target)
  PROVE  TradedFromGameBoy(ClassOf(target))
<1> DEFINE d == ClassOf(target)
<1>1. CASE d = "gen1" /\ cells' = Named(OverGen1(Gen2ToGen1))
  <2>1. Gen2ToGen1["ot_id"] = cells["ot_id"] /\ Gen2ToGen1["catch_rate"] = cells["item"]
    BY DEF Gen2ToGen1
  <2>2. /\ Proper("gen1", cells')
        /\ cells'["_nickname"] = cells["_nickname"] /\ cells'["_trainer_name"] = cells["_trainer_name"]
        /\ cells'["ot_id"] = Gen2ToGen1["ot_id"] /\ cells'["catch_rate"] = Gen2ToGen1["catch_rate"]
    BY <1>1, ToGen1
  <2>3. Kept("gen2", cells, "gen1", cells')
    BY <2>1, <2>2, GameBoysAgree, SameNamesAndID DEF Kept
  <2> QED
    BY <1>1, <2>1, <2>2, <2>3 DEF TradedFromGameBoy
<1>2. CASE d = "gen2" /\ cells' = Named(WithLevelMet("gen2", target, OverGen2(cells)))
  <2>1. target \in GamesOf["gen2"]
    BY <1>2, ClassOfIs
  <2>2. /\ Proper("gen2", cells')
        /\ cells'["_nickname"] = cells["_nickname"] /\ cells'["_trainer_name"] = cells["_trainer_name"]
        /\ \A x \in InGen2 \ {"caught_data"} : cells'[x] = cells[x]
        /\ StoredAt(Rows["gen2"]["trainerGender"], cells') = StoredAt(Rows["gen2"]["trainerGender"], cells)
        /\ ToldOf(Rows["gen2"]["levelMet"], cells') = Least(level, 63)
    BY <1>2, <2>1, ToGen2
  <2>3. cells'["ot_id"] = cells["ot_id"]
    BY <2>2 DEF InGen2
  <2>4. ASSUME NEW t \in Shared("gen2", "gen2") PROVE ToldOf(Rows["gen2"][t], cells') = ToldOf(Rows["gen2"][t], cells)
    <3>1. CASE t \in {"nickname", "trainerName", "publicId", "trainerId"}
      BY <2>2, <2>3, <3>1, SameNamesAndID
    <3>2. CASE t = "trainerGender"
      BY <2>2, <3>2, ToldIsOfStored
    <3>3. CASE t \in {"heldItem", "pokerus", "friendship"}
      <4> DEFINE row == Rows["gen2"][t]
      <4>1. "gen2" \in Classes /\ GoodGame("gen2", target) /\ t \in Has("gen2") /\ t # "location"
        BY <2>1, <3>3, OwnGamesAreGood DEF Classes, Has, CellIn
      <4>2. row.cell = CellIn["gen2"][t]
        BY <4>1, CellIsWhere
      <4>3. CellIn["gen2"][t] \in InGen2 \ {"caught_data"}
        BY <3>3 DEF CellIn, InGen2
      <4> HIDE DEF row
      <4>4. ToldOf(row, cells') = ToldOf(row, cells)
        BY <2>2, <4>2, <4>3, SameCellSameTold
      <4> QED
        BY <4>4 DEF row
    <3> QED
      BY <3>1, <3>2, <3>3, GameBoysAgree
  <2> QED
    BY <1>2, <2>2, <2>4 DEF TradedFromGameBoy, Kept
<1> QED
  BY <1>1, <1>2 DEF FromGen2

-----------------------------------------------------------------------------
(* What the getters of Generation III tell, and of which numbers.          *)
LEMMA BallIsTold ==
  ASSUME NEW c \in {"gba", "gcn"}, NEW g, GoodGame(c, g), NEW data, Proper(c, data)
  PROVE  \E b \in DOMAIN BallNumber : /\ StoredAt(Rows[c]["ball"], data) = Rows[c]["ball"].code[b]
                                      /\ ToldOf(Rows[c]["ball"], data) = b
<1>1. c \in Classes /\ "ball" \in Sure[c] /\ "ball" \in Has(c)
  BY SureIsHad DEF Sure, Classes
<1>2. Settable(Rows[c]["ball"], data)
  BY <1>1 DEF Proper, SureIn
<1>3. PICK b \in DOMAIN Rows[c]["ball"].code : StoredAt(Rows[c]["ball"], data) = Rows[c]["ball"].code[b]
  BY <1>2 DEF Settable
<1>4. ToldOf(Rows[c]["ball"], data) = b
  BY <1>1, <1>3, SureIsTold DEF Expected
<1>5. DOMAIN Rows[c]["ball"].code = DOMAIN BallNumber
  BY GBACodes, GCNCodes
<1> QED
  BY <1>3, <1>4, <1>5

LEMMA GBAGenderIsTold ==
  ASSUME NEW g, GoodGame("gba", g), NEW data
  PROVE  ToldOf(Rows["gba"]["trainerGender"], data) =
           IF StoredAt(Rows["gba"]["trainerGender"], data) = {} THEN "MALE" ELSE "FEMALE"
<1> DEFINE row == Rows["gba"]["trainerGender"]
<1>1. /\ row.mask = {15} /\ DOMAIN row.code = {"MALE", "FEMALE"}
      /\ row.code["MALE"] = {} /\ row.code["FEMALE"] = {15}
  BY GBAGood, GBACodes
<1>2. "trainerGender" \in Has("gba")
  BY DEF Has, CellIn
<1>3. \A s \in {"MALE", "FEMALE"} : StoredAt(row, data) = row.code[s] => ToldOf(row, data) = s
  BY <1>1, <1>2, SureIsTold DEF Expected
<1> HIDE DEF row
<1>4. StoredAt(row, data) = data[row.cell] \cap {15}
  BY <1>1 DEF StoredAt
<1>5. StoredAt(row, data) = {} \/ StoredAt(row, data) = {15}
  BY <1>4
<1>6. CASE StoredAt(row, data) = {}
  BY <1>1, <1>3, <1>6 DEF row
<1>7. CASE StoredAt(row, data) = {15}
  BY <1>1, <1>3, <1>7 DEF row
<1> QED
  BY <1>5, <1>6, <1>7

(* Two rows that differ in their cells alone. *)
Alike(row, other) == row.mask = other.mask /\ row.told = other.told /\ row.default = other.default

LEMMA AlikeAreTold ==
  ASSUME NEW row, NEW other, Alike(row, other), NEW data, NEW new, data[row.cell] = new[other.cell]
  PROVE  ToldOf(other, new) = ToldOf(row, data)
<1>1. StoredAt(other, new) = StoredAt(row, data)
  BY DEF StoredAt, Alike
<1>2. \A x : Says(other, x) = Says(row, x)
  BY DEF Says, Alike
<1> QED
  BY <1>1, <1>2, ToldIsOfStored

LEMMA KindsAreAlike ==
  /\ \A a, b, limit : Alike(Text(a, limit), Text(b, limit))
  /\ \A a, b, values : Alike(Cell(a, values), Cell(b, values))
  /\ \A a, b, ids : \A t \in IDs : Alike(IDParts(a, ids)[t], IDParts(b, ids)[t])
<1>1. \A a, b, limit : Alike(Text(a, limit), Text(b, limit))
  BY DEF Alike, Text, Row
<1>2. \A a, b, values : Alike(Cell(a, values), Cell(b, values))
  BY DEF Alike, Cell, Row
<1>3. ASSUME NEW a, NEW b, NEW ids, NEW t \in IDs PROVE Alike(IDParts(a, ids)[t], IDParts(b, ids)[t])
  <2> DEFINE upper == [h \in Halves(ids) |-> Up(h, 16)]
             back == Inverse(upper)
             half == Same(Halves(ids))
             whole == {Whole(h, k) : h, k \in Halves(ids)}
  <2>1. \A cell : IDParts(cell, ids) = [ publicId |-> Row(cell, 0..15, half, half, Refused),
                                         secretId |-> Row(cell, 16..31, upper, back, Refused),
                                         trainerId |-> Cell(cell, whole) ]
    BY DEF IDParts
  <2> HIDE DEF upper, back, half, whole
  <2>2. \A cell : /\ IDParts(cell, ids)["publicId"] = Row(cell, 0..15, half, half, Refused)
                  /\ IDParts(cell, ids)["secretId"] = Row(cell, 16..31, upper, back, Refused)
                  /\ IDParts(cell, ids)["trainerId"] = Cell(cell, whole)
    BY <2>1
  <2>3. Alike(Row(a, 0..15, half, half, Refused), Row(b, 0..15, half, half, Refused))
    BY DEF Alike, Row
  <2>4. Alike(Row(a, 16..31, upper, back, Refused), Row(b, 16..31, upper, back, Refused))
    BY DEF Alike, Row
  <2>5. Alike(Cell(a, whole), Cell(b, whole))
    BY <1>2
  <2>6. CASE t = "publicId"
    BY <2>2, <2>3, <2>6
  <2>7. CASE t = "secretId"
    BY <2>2, <2>4, <2>7
  <2>8. CASE t = "trainerId"
    BY <2>2, <2>5, <2>8
  <2> QED
    BY <2>6, <2>7, <2>8 DEF IDs
<1> QED
  BY <1>1, <1>2, <1>3

(* The traits that both consoles keep in the same way. *)
Plainly == {"nickname", "egg", "publicId", "secretId", "trainerId", "trainerName", "pokerus", "friendship"}

LEMMA ConsolesAreAlike ==
  \A t \in Plainly : Alike(Rows["gba"][t], Rows["gcn"][t]) /\ Alike(Rows["gcn"][t], Rows["gba"][t])
<1>1. IsGBATable(Rows["gba"]) /\ IsGCNTable(Rows["gcn"])
  BY GBATableIs, GCNTableIs
<1>2. \A x, y : Alike(x, y) => Alike(y, x)
  BY DEF Alike
<1>3. Alike(Rows["gba"]["nickname"], Rows["gcn"]["nickname"])
  BY <1>1, KindsAreAlike DEF IsGBATable, IsGCNTable
<1>4. Alike(Rows["gba"]["trainerName"], Rows["gcn"]["trainerName"])
  BY <1>1, KindsAreAlike DEF IsGBATable, IsGCNTable
<1>5. Alike(Rows["gba"]["egg"], Rows["gcn"]["egg"])
  BY <1>1, KindsAreAlike DEF IsGBATable, IsGCNTable
<1>6. Alike(Rows["gba"]["friendship"], Rows["gcn"]["friendship"])
  BY <1>1, KindsAreAlike DEF IsGBATable, IsGCNTable
<1>7. Rows["gba"]["pokerus"] = Rows["gcn"]["pokerus"]
  BY <1>1 DEF IsGBATable, IsGCNTable
<1>8. Alike(Rows["gba"]["pokerus"], Rows["gcn"]["pokerus"])
  BY <1>7 DEF Alike
<1>9. \A t \in IDs : Alike(Rows["gba"][t], Rows["gcn"][t])
  <2>1. \A t \in IDs : /\ Rows["gba"][t] = IDParts("ot_id", AllIDs)[t]
                       /\ Rows["gcn"][t] = IDParts("TID_SID", AllIDs)[t]
    BY <1>1 DEF IsGBATable, IsGCNTable
  <2> QED
    BY <2>1, KindsAreAlike
<1> QED
  BY <1>2, <1>3, <1>4, <1>5, <1>6, <1>8, <1>9 DEF Plainly, IDs

LEMMA PlainlyKept ==
  ASSUME NEW c \in {"gba", "gcn"}, NEW d \in {"gba", "gcn"}, c # d, NEW g, GoodGame(c, g), NEW h, GoodGame(d, h),
         NEW data, NEW new, \A t \in Plainly : data[CellIn[c][t]] = new[CellIn[d][t]]
  PROVE  \A t \in Plainly : ToldOf(Rows[d][t], new) = ToldOf(Rows[c][t], data)
<1> SUFFICES ASSUME NEW t \in Plainly PROVE ToldOf(Rows[d][t], new) = ToldOf(Rows[c][t], data)
  OBVIOUS
<1> DEFINE row == Rows[c][t]
           other == Rows[d][t]
<1>1. c \in Classes /\ d \in Classes
  BY DEF Classes
<1>2. t \in Has("gba") /\ t \in Has("gcn") /\ t # "location"
  BY DEF Plainly, Has, CellIn
<1>3. row.cell = CellIn[c][t] /\ other.cell = CellIn[d][t]
  BY <1>1, <1>2, CellIsWhere
<1>4. Alike(row, other)
  BY ConsolesAreAlike
<1> HIDE DEF row, other
<1>5. data[row.cell] = new[other.cell]
  BY <1>3
<1>6. ToldOf(other, new) = ToldOf(row, data)
  BY <1>4, <1>5, AlikeAreTold
<1> QED
  BY <1>6 DEF row, other

(* Languages: each console has numbers of its own. *)
LEMMA LanguagesAre ==
  /\ DOMAIN LanguageOnBoth = {0, 513, 514}
  /\ LanguageOnBoth[0] = 0 /\ LanguageOnBoth[513] = 1 /\ LanguageOnBoth[514] = 2
  /\ Inverse(LanguageOnBoth)[0] = 0 /\ Inverse(LanguageOnBoth)[1] = 513 /\ Inverse(LanguageOnBoth)[2] = 514
<1> DEFINE f == LanguageOnBoth
<1>1. /\ DOMAIN GCNLanguage = {"JAPANESE", "ENGLISH"} /\ GCNLanguage["JAPANESE"] = 1 /\ GCNLanguage["ENGLISH"] = 2
  BY DEF GCNLanguage
<1>2. /\ DOMAIN GBALanguage = {"JAPANESE", "ENGLISH", "KOREAN"} /\ GBALanguage["JAPANESE"] = 513
      /\ GBALanguage["ENGLISH"] = 514 /\ GBALanguage["KOREAN"] = 518
  BY DEF GBALanguage
<1>3. Inverse(GBALanguage)[513] = "JAPANESE" /\ Inverse(GBALanguage)[514] = "ENGLISH"
  <2> DEFINE n == GBALanguage
  <2>1. OneToOne(n) /\ "JAPANESE" \in DOMAIN n /\ "ENGLISH" \in DOMAIN n /\ n["JAPANESE"] = 513 /\ n["ENGLISH"] = 514
    BY <1>2, TablesAreOneToOne
  <2> HIDE DEF n
  <2>2. Inverse(n)[n["JAPANESE"]] = "JAPANESE" /\ Inverse(n)[n["ENGLISH"]] = "ENGLISH"
    BY <2>1, InverseIsExact DEF OneToOne
  <2> QED
    BY <2>1, <2>2 DEF n
<1>4. {GBALanguage[l] : l \in DOMAIN GCNLanguage} = {513, 514}
  BY <1>1, <1>2
<1>5. DOMAIN f = {0, 513, 514}
  BY <1>4 DEF LanguageOnBoth
<1>6. \A n \in DOMAIN f : f[n] = IF n = 0 THEN 0 ELSE GCNLanguage[Inverse(GBALanguage)[n]]
  BY DEF LanguageOnBoth
<1>7. f[0] = 0
  BY <1>5, <1>6
<1>8. f[513] = 1
  BY <1>1, <1>3, <1>5, <1>6
<1>9. f[514] = 2
  BY <1>1, <1>3, <1>5, <1>6
<1> HIDE DEF f
<1>10. OneToOne(f)
  BY <1>5, <1>7, <1>8, <1>9 DEF OneToOne
<1>11. Inverse(f)[f[0]] = 0 /\ Inverse(f)[f[513]] = 513 /\ Inverse(f)[f[514]] = 514
  BY <1>5, <1>10, InverseIsExact DEF OneToOne
<1> QED
  BY <1>5, <1>7, <1>8, <1>9, <1>11 DEF f

LEMMA CodedSays ==
  ASSUME NEW cell, NEW numbers, NEW default, OneToOne(numbers), NEW x
  PROVE  Says(Coded(cell, numbers, default), x) =
           IF x \in {numbers[v] : v \in DOMAIN numbers} THEN Inverse(numbers)[x] ELSE default
<1> DEFINE row == Coded(cell, numbers, default)
<1>1. row.told = Inverse(numbers) /\ row.default = default
  BY DEF Coded, Row
<1>2. DOMAIN Inverse(numbers) = {numbers[v] : v \in DOMAIN numbers}
  BY DEF Inverse
<1> HIDE DEF row
<1>3. Says(row, x) = IF x \in {numbers[v] : v \in DOMAIN numbers} THEN Inverse(numbers)[x] ELSE default
  BY <1>1, <1>2 DEF Says
<1> QED
  BY <1>3 DEF row

LEMMA LanguagesTell ==
  LET a == Rows["gba"]["language"]
      b == Rows["gcn"]["language"]
  IN /\ a.cell = "language" /\ a.mask = {} /\ b.cell = "language" /\ b.mask = {}
     /\ Says(a, 0) = "ENGLISH" /\ Says(a, 513) = "JAPANESE" /\ Says(a, 514) = "ENGLISH"
     /\ Says(b, 0) = "ENGLISH" /\ Says(b, 1) = "JAPANESE" /\ Says(b, 2) = "ENGLISH"
<1> DEFINE a == Rows["gba"]["language"]
           b == Rows["gcn"]["language"]
           n == GBALanguage
           k == GCNLanguage
<1>1. a = Coded("language", n, "ENGLISH") /\ b = Coded("language", k, "ENGLISH")
  BY GBATableIs, GCNTableIs DEF IsGBATable, IsGCNTable
<1>2. OneToOne(n) /\ OneToOne(k)
  BY TablesAreOneToOne
<1>3. DOMAIN n = {"JAPANESE", "ENGLISH", "KOREAN"} /\ n["JAPANESE"] = 513 /\ n["ENGLISH"] = 514 /\ n["KOREAN"] = 518
  BY DEF GBALanguage
<1>4. DOMAIN k = {"JAPANESE", "ENGLISH"} /\ k["JAPANESE"] = 1 /\ k["ENGLISH"] = 2
  BY DEF GCNLanguage
<1> HIDE DEF a, b, n, k
<1>5. a.cell = "language" /\ a.mask = {} /\ b.cell = "language" /\ b.mask = {}
  BY <1>1 DEF Coded, Row
<1>6. \A x : Says(a, x) = IF x \in {n[v] : v \in DOMAIN n} THEN Inverse(n)[x] ELSE "ENGLISH"
  BY <1>1, <1>2, CodedSays
<1>7. \A x : Says(b, x) = IF x \in {k[v] : v \in DOMAIN k} THEN Inverse(k)[x] ELSE "ENGLISH"
  BY <1>1, <1>2, CodedSays
<1>8. \A v \in DOMAIN n : n[v] \in DOMAIN Inverse(n) /\ Inverse(n)[n[v]] = v
  BY <1>2, InverseIsExact DEF OneToOne
<1>9. \A v \in DOMAIN k : k[v] \in DOMAIN Inverse(k) /\ Inverse(k)[k[v]] = v
  BY <1>2, InverseIsExact DEF OneToOne
<1>10. {n[v] : v \in DOMAIN n} = {513, 514, 518} /\ {k[v] : v \in DOMAIN k} = {1, 2}
  BY <1>3, <1>4
<1>11. Inverse(n)[513] = "JAPANESE" /\ Inverse(n)[514] = "ENGLISH"
  BY <1>3, <1>8
<1>12. Inverse(k)[1] = "JAPANESE" /\ Inverse(k)[2] = "ENGLISH"
  BY <1>4, <1>9
<1>13. Says(a, 0) = "ENGLISH" /\ Says(a, 513) = "JAPANESE" /\ Says(a, 514) = "ENGLISH"
  BY <1>6, <1>10, <1>11
<1>14. Says(b, 0) = "ENGLISH" /\ Says(b, 1) = "JAPANESE" /\ Says(b, 2) = "ENGLISH"
  BY <1>7, <1>10, <1>12
<1> QED
  BY <1>5, <1>13, <1>14 DEF a, b

-----------------------------------------------------------------------------
(* What a conversion or a setter of Generation III makes of a Pokemon.     *)
Converted(c, data, d, new, from) ==
  /\ Proper(d, new) /\ Kept(c, data, d, new)
  /\ ToldOf(Rows[d]["egg"], new) = ToldOf(Rows[c]["egg"], data)
  /\ ToldOf(Rows[d]["levelMet"], new) = level
  /\ ToldOf(Rows[d]["originalGame"], new) = from

LEMMA SharedOfGen3 ==
  /\ Shared("gba", "gcn") = (Plainly \ {"egg"}) \cup {"trainerGender", "language", "ball"}
  /\ Shared("gcn", "gba") = (Plainly \ {"egg"}) \cup {"trainerGender", "language", "ball"}
  /\ \A c \in {"gba", "gcn"} : Has(c) = Plainly \cup {"trainerGender", "language", "ball", "levelMet",
                                                       "originalGame", "location"}
BY DEF Shared, Has, CellIn, Plainly

LEMMA FromGBAToGCN ==
  ASSUME OriginInv, class = "gba", cells.language \in DOMAIN LanguageOnBoth
  PROVE  Converted("gba", cells, "gcn", GBAToGCN, TraitTold("originalGame"))
<1> DEFINE new == GBAToGCN
           ball == ToldOf(Rows["gba"]["ball"], cells)
           from == ToldOf(Rows["gba"]["originalGame"], cells)
           gender == ToldOf(Rows["gba"]["trainerGender"], cells)
<1>1. GoodGame("gba", game) /\ Proper("gba", cells) /\ level \in 2..100
  BY DEF OriginInv
<1>2. TraitTold("ball") = ball /\ TraitTold("originalGame") = from /\ TraitTold("trainerGender") = gender
  BY RowsOfTraits DEF TraitTold
<1>3. ball \in DOMAIN BallNumber /\ from \in Gen3Games \ {"xd"} /\ gender \in {"MALE", "FEMALE"}
  BY <1>1, BallIsTold, OriginalGameIsOne, GBAGenderIsTold
<1>4. Settable(Rows["gba"]["trainerId"], cells)
  BY <1>1 DEF Proper, SureIn, Sure
<1>5. cells["ot_id"] \in WholeIDs(AllIDs)
  BY <1>4, WholeIsSettable DEF IDCellOf
<1> HIDE DEF ball, from, gender
<1>6. /\ DOMAIN new = CellsHeld["gcn"]
      /\ new["name"] = cells["nickname"] /\ new["OTName"] = cells["otname"] /\ new["TID_SID"] = cells["ot_id"]
      /\ new["language"] = LanguageOnBoth[cells["language"]] /\ new["friendship"] = cells["friendship"]
      /\ new["egg"] = cells["egg"] /\ new["pokerus"] = cells["pokerus"] /\ new["OTGender"] = gender
      /\ new["ball"] = BallNumber[ball] /\ new["game"] = AnyGame[from] /\ new["levelMet"] = level
  BY <1>2 DEF GBAToGCN, NewGCN, CellsHeld
<1> HIDE DEF new
<1>7. cells["language"] \in {0, 513, 514} /\ new["language"] \in {0, 1, 2}
  BY <1>6, LanguagesAre
<1>8. /\ Proper("gcn", new)
      /\ StoredAt(Rows["gcn"]["levelMet"], new) = level
      /\ StoredAt(Rows["gcn"]["originalGame"], new) = AnyGame[from]
      /\ StoredAt(Rows["gcn"]["ball"], new) = BallNumber[ball]
      /\ StoredAt(Rows["gcn"]["trainerGender"], new) = gender
  BY <1>1, <1>3, <1>5, <1>6, <1>7, GCNIsProper
<1>9. GoodGame("gcn", "colosseum")
  BY OwnGamesAreGood, OriginAssumption DEF Classes
<1>10. /\ {"levelMet", "originalGame", "ball", "trainerGender"} \subseteq Has("gcn")
       /\ level \in DOMAIN Rows["gcn"]["levelMet"].code /\ Rows["gcn"]["levelMet"].code[level] = level
       /\ from \in DOMAIN Rows["gcn"]["originalGame"].code /\ Rows["gcn"]["originalGame"].code[from] = AnyGame[from]
       /\ ball \in DOMAIN Rows["gcn"]["ball"].code /\ Rows["gcn"]["ball"].code[ball] = BallNumber[ball]
       /\ gender \in DOMAIN Rows["gcn"]["trainerGender"].code /\ Rows["gcn"]["trainerGender"].code[gender] = gender
  BY <1>1, <1>3, GCNCodes DEF Has, CellIn
<1>11. /\ ToldOf(Rows["gcn"]["levelMet"], new) = Expected("levelMet", level)
       /\ ToldOf(Rows["gcn"]["originalGame"], new) = Expected("originalGame", from)
       /\ ToldOf(Rows["gcn"]["ball"], new) = Expected("ball", ball)
       /\ ToldOf(Rows["gcn"]["trainerGender"], new) = Expected("trainerGender", gender)
  BY <1>8, <1>9, <1>10, SureIsTold
<1>12. /\ ToldOf(Rows["gcn"]["levelMet"], new) = level /\ ToldOf(Rows["gcn"]["originalGame"], new) = from
       /\ ToldOf(Rows["gcn"]["ball"], new) = ball /\ ToldOf(Rows["gcn"]["trainerGender"], new) = gender
  BY <1>3, <1>11, GamesAre DEF Expected
<1>13. \A t \in Plainly : ToldOf(Rows["gcn"][t], new) = ToldOf(Rows["gba"][t], cells)
  <2>1. \A t \in Plainly : cells[CellIn["gba"][t]] = new[CellIn["gcn"][t]]
    BY <1>6 DEF Plainly, CellIn
  <2> QED
    BY <1>1, <1>9, <2>1, PlainlyKept
<1>14. ToldOf(Rows["gcn"]["language"], new) = ToldOf(Rows["gba"]["language"], cells)
  <2> DEFINE a == Rows["gba"]["language"]
             b == Rows["gcn"]["language"]
  <2>1. /\ a.cell = "language" /\ a.mask = {} /\ b.cell = "language" /\ b.mask = {}
        /\ Says(a, 0) = "ENGLISH" /\ Says(a, 513) = "JAPANESE" /\ Says(a, 514) = "ENGLISH"
        /\ Says(b, 0) = "ENGLISH" /\ Says(b, 1) = "JAPANESE" /\ Says(b, 2) = "ENGLISH"
    BY LanguagesTell
  <2> HIDE DEF a, b
  <2>2. ToldOf(a, cells) = Says(a, cells["language"]) /\ ToldOf(b, new) = Says(b, new["language"])
    BY <2>1, ToldIsOfStored DEF StoredAt
  <2>3. Says(b, LanguageOnBoth[cells["language"]]) = Says(a, cells["language"])
    BY <1>7, <2>1, LanguagesAre
  <2>4. ToldOf(b, new) = ToldOf(a, cells)
    BY <1>6, <2>2, <2>3
  <2> QED
    BY <2>4 DEF a, b
<1>15. Kept("gba", cells, "gcn", new)
  BY <1>12, <1>13, <1>14, SharedOfGen3 DEF Kept, gender, ball
<1> QED
  BY <1>2, <1>8, <1>12, <1>13, <1>15 DEF Converted, new, Plainly

LEMMA FromGCNToGBA ==
  ASSUME OriginInv, class = "gcn", NEW g \in GamesOf["gba"]
  PROVE  Converted("gcn", cells, "gba", GCNToGBA, TraitTold("originalGame"))
<1> DEFINE new == GCNToGBA
           gender == cells["OTGender"]
           top == IF gender = "FEMALE" THEN {15} ELSE {}
<1>1. GoodGame("gcn", game) /\ Proper("gcn", cells) /\ level \in 2..100 /\ cells["language"] \in {0, 1, 2}
  BY DEF OriginInv, Proper
<1>2. TraitTold("originalGame") = ToldOf(Rows["gcn"]["originalGame"], cells)
  BY RowsOfTraits DEF TraitTold
<1>3. PICK b \in DOMAIN BallNumber : /\ StoredAt(Rows["gcn"]["ball"], cells) = Rows["gcn"]["ball"].code[b]
                                     /\ ToldOf(Rows["gcn"]["ball"], cells) = b
  BY <1>1, BallIsTold
<1>4. PICK v \in Gen3Games : /\ StoredAt(Rows["gcn"]["originalGame"], cells) = Rows["gcn"]["originalGame"].code[v]
                             /\ ToldOf(Rows["gcn"]["originalGame"], cells) = Seen(v)
  BY <1>1, OriginalGameIsTold
<1>5. cells["ball"] = BallNumber[b] /\ cells["game"] = AnyGame[v]
  BY <1>3, <1>4, GCNCodes DEF StoredAt
<1>6. gender \in {"MALE", "FEMALE"} /\ ToldOf(Rows["gcn"]["trainerGender"], cells) = gender
  <2> DEFINE row == Rows["gcn"]["trainerGender"]
  <2>1. Settable(row, cells)
    BY <1>1 DEF Proper, SureIn, Sure
  <2>2. /\ row.cell = "OTGender" /\ row.mask = {} /\ DOMAIN row.code = {"MALE", "FEMALE"}
        /\ \A s \in {"MALE", "FEMALE"} : row.code[s] = s
    BY GCNCodes
  <2> HIDE DEF row
  <2>3. PICK s \in DOMAIN row.code : StoredAt(row, cells) = row.code[s]
    BY <2>1 DEF Settable
  <2>4. gender \in {"MALE", "FEMALE"} /\ s = gender
    BY <2>2, <2>3 DEF StoredAt
  <2>5. "trainerGender" \in Has("gcn")
    BY DEF Has, CellIn
  <2>6. ToldOf(row, cells) = s
    BY <1>1, <2>3, <2>5, SureIsTold DEF Expected, row
  <2> QED
    BY <2>4, <2>6 DEF row
<1>7. Settable(Rows["gcn"]["trainerId"], cells)
  BY <1>1 DEF Proper, SureIn, Sure
<1>8. cells["TID_SID"] \in WholeIDs(AllIDs)
  BY <1>7, WholeIsSettable DEF IDCellOf
<1> HIDE DEF gender
<1>9. top \in SUBSET {15} /\ level \in 0..100
  BY <1>1
<1>10. /\ DOMAIN new = CellsHeld["gba"]
       /\ new["nickname"] = cells["name"] /\ new["otname"] = cells["OTName"] /\ new["ot_id"] = cells["TID_SID"]
       /\ new["egg"] = cells["egg"] /\ new["language"] = Inverse(LanguageOnBoth)[cells["language"]]
       /\ new["friendship"] = cells["friendship"] /\ new["pokerus"] = cells["pokerus"]
       /\ new["origin_info"] = BitsOf(level) \cup Up(BitsOf(cells["game"]), 7) \cup Up(BitsOf(cells["ball"]), 11) \cup top
  BY DEF GCNToGBA, CellsHeld, gender
<1> HIDE DEF new, top
<1>11. new["origin_info"] = PackedOf(level, v, b, top)
  BY <1>5, <1>10 DEF PackedOf
<1>12. Proper("gba", new)
  BY <1>8, <1>9, <1>10, <1>11, PackedIsProper
<1>13. PackedIn(new, level, v, b, top)
  BY <1>9, <1>11, PackedIsStored
<1>14. GoodGame("gba", g)
  BY OwnGamesAreGood DEF Classes
<1>15. /\ {"levelMet", "originalGame", "ball", "trainerGender"} \subseteq Has("gba")
       /\ level \in DOMAIN Rows["gba"]["levelMet"].code /\ v \in DOMAIN Rows["gba"]["originalGame"].code
       /\ b \in DOMAIN Rows["gba"]["ball"].code
  BY <1>9, GBACodes DEF Has, CellIn
<1>16. /\ ToldOf(Rows["gba"]["levelMet"], new) = Expected("levelMet", level)
       /\ ToldOf(Rows["gba"]["originalGame"], new) = Expected("originalGame", v)
       /\ ToldOf(Rows["gba"]["ball"], new) = Expected("ball", b)
  BY <1>13, <1>14, <1>15, SureIsTold DEF PackedIn
<1>17. /\ ToldOf(Rows["gba"]["levelMet"], new) = level /\ ToldOf(Rows["gba"]["originalGame"], new) = Seen(v)
       /\ ToldOf(Rows["gba"]["ball"], new) = b
  BY <1>16 DEF Expected
<1>18. ToldOf(Rows["gba"]["trainerGender"], new) = gender
  <2>1. StoredAt(Rows["gba"]["trainerGender"], new) = top
    BY <1>13 DEF PackedIn
  <2>2. ToldOf(Rows["gba"]["trainerGender"], new) = IF top = {} THEN "MALE" ELSE "FEMALE"
    BY <1>14, <2>1, GBAGenderIsTold
  <2> QED
    BY <1>6, <2>2 DEF top
<1>19. \A t \in Plainly : ToldOf(Rows["gba"][t], new) = ToldOf(Rows["gcn"][t], cells)
  <2>1. \A t \in Plainly : cells[CellIn["gcn"][t]] = new[CellIn["gba"][t]]
    BY <1>10 DEF Plainly, CellIn
  <2> QED
    BY <1>1, <1>14, <2>1, PlainlyKept
<1>20. ToldOf(Rows["gba"]["language"], new) = ToldOf(Rows["gcn"]["language"], cells)
  <2> DEFINE a == Rows["gba"]["language"]
             b2 == Rows["gcn"]["language"]
  <2>1. /\ a.cell = "language" /\ a.mask = {} /\ b2.cell = "language" /\ b2.mask = {}
        /\ Says(a, 0) = "ENGLISH" /\ Says(a, 513) = "JAPANESE" /\ Says(a, 514) = "ENGLISH"
        /\ Says(b2, 0) = "ENGLISH" /\ Says(b2, 1) = "JAPANESE" /\ Says(b2, 2) = "ENGLISH"
    BY LanguagesTell
  <2> HIDE DEF a, b2
  <2>2. ToldOf(a, new) = Says(a, new["language"]) /\ ToldOf(b2, cells) = Says(b2, cells["language"])
    BY <2>1, ToldIsOfStored DEF StoredAt
  <2>3. Says(a, Inverse(LanguageOnBoth)[cells["language"]]) = Says(b2, cells["language"])
    BY <1>1, <2>1, LanguagesAre
  <2>4. ToldOf(a, new) = ToldOf(b2, cells)
    BY <1>10, <2>2, <2>3
  <2> QED
    BY <2>4 DEF a, b2
<1>21. Kept("gcn", cells, "gba", new)
  BY <1>3, <1>6, <1>17, <1>18, <1>19, <1>20, SharedOfGen3 DEF Kept
<1> QED
  BY <1>2, <1>4, <1>12, <1>17, <1>19, <1>21 DEF Converted, new, Plainly

-----------------------------------------------------------------------------
(* The setters that to_game() calls. *)
LEMMA AlsoSet ==
  ASSUME NEW c \in {"gba", "gcn"}, NEW g, GoodGame(c, g), NEW data, Proper(c, data),
         NEW t \in {"levelMet", "originalGame"}, NEW v \in DOMAIN Rows[c][t].code
  PROVE  LET new == WithTrait(c, g, data, t, v)
         IN /\ Proper(c, new) /\ ToldOf(Rows[c][t], new) = Expected(t, v)
            /\ \A o \in Has(c) \ {t, "location"} : ToldOf(Rows[c][o], new) = ToldOf(Rows[c][o], data)
<1> DEFINE new == WithTrait(c, g, data, t, v)
<1>1. c \in Classes /\ t # "location" /\ t \notin IDs
  BY DEF Classes, IDs
<1>2. \A o : o # "location" => RowOf(c, g, o) = Rows[c][o]
  BY RowsOfTraits
<1>3. t \in TraitsOf(c) /\ v \in DOMAIN RowOf(c, g, t).code
  BY <1>1, <1>2, GBATableIs, GCNTableIs DEF IsGBATable, IsGCNTable, RestIsEmpty, TraitsIn, TraitsOf
<1>4. Proper(c, new)
  BY <1>1, <1>3, SetIsProper
<1>5. DOMAIN data = CellsHeld[c]
  BY DEF Proper
<1>6. SetIn(c, g, data, t, v, new)
  BY <1>1, <1>3, <1>5, SetterDoes
<1> HIDE DEF new
<1>7. ToldOf(Rows[c][t], new) = Expected(t, v)
  BY <1>1, <1>2, <1>6 DEF SetIn
<1>8. ASSUME NEW o \in Has(c) \ {t, "location"} PROVE ToldOf(Rows[c][o], new) = ToldOf(Rows[c][o], data)
  <2>1. StoredAt(RowOf(c, g, o), new) = StoredAt(RowOf(c, g, o), data)
    BY <1>1, <1>6 DEF SetIn
  <2> QED
    BY <1>2, <2>1, ToldIsOfStored
<1> QED
  BY <1>4, <1>7, <1>8 DEF new

LEMMA GameIsAlsoSet ==
  ASSUME NEW c, NEW data, NEW d \in {"gba", "gcn"}, NEW new, NEW any, Converted(c, data, d, new, any),
         NEW g, GoodGame(d, g), NEW h \in Gen3Games
  PROVE  Converted(c, data, d, WithTrait(d, g, new, "originalGame", h), Seen(h))
<1> DEFINE last == WithTrait(d, g, new, "originalGame", h)
<1>1. h \in DOMAIN Rows[d]["originalGame"].code
  BY GBACodes, GCNCodes
<1>2. Proper(d, new)
  BY DEF Converted
<1>3. /\ Proper(d, last) /\ ToldOf(Rows[d]["originalGame"], last) = Expected("originalGame", h)
      /\ \A o \in Has(d) \ {"originalGame", "location"} : ToldOf(Rows[d][o], last) = ToldOf(Rows[d][o], new)
  BY <1>1, <1>2, AlsoSet
<1> HIDE DEF last
<1>4. "egg" \in Has(d) /\ "levelMet" \in Has(d) /\ \A t \in Shared(c, d) : t \in Has(d) \ {"originalGame", "location"}
  BY SharedOfGen3 DEF Shared, Plainly
<1>5. Converted(c, data, d, last, Seen(h))
  BY <1>3, <1>4 DEF Converted, Kept, Expected
<1> QED
  BY <1>5 DEF last

LEMMA LevelIsAlsoSet ==
  ASSUME OriginInv, NEW c \in {"gba", "gcn"}, class = c, NEW g \in GamesOf[c]
  PROVE  \E any : Converted(c, cells, c, WithLevelMet(c, g, cells), any)
<1> DEFINE new == WithTrait(c, g, cells, "levelMet", level)
<1>1. WithLevelMet(c, g, cells) = new
  BY DEF WithLevelMet
<1>2. c \in Classes /\ GoodGame(c, g) /\ Proper(c, cells) /\ level \in 2..100
  BY OwnGamesAreGood DEF OriginInv, Classes
<1>3. level \in DOMAIN Rows[c]["levelMet"].code
  BY <1>2, GBACodes, GCNCodes
<1>4. /\ Proper(c, new) /\ ToldOf(Rows[c]["levelMet"], new) = Expected("levelMet", level)
      /\ \A o \in Has(c) \ {"levelMet", "location"} : ToldOf(Rows[c][o], new) = ToldOf(Rows[c][o], cells)
  BY <1>2, <1>3, AlsoSet
<1> HIDE DEF new
<1>5. "egg" \in Has(c) /\ \A t \in Shared(c, c) : t \in Has(c) \ {"levelMet", "location"}
  BY SharedOfGen3 DEF Shared, Plainly
<1>6. Converted(c, cells, c, new, ToldOf(Rows[c]["originalGame"], new))
  BY <1>4, <1>5 DEF Converted, Kept, Expected
<1> QED
  BY <1>1, <1>6

-----------------------------------------------------------------------------
(* The game that a trade in Generation III leaves in the structure.        *)
LeftFrom(d) == IF class = "gba" /\ d = "gba" THEN Seen(game) ELSE TraitTold("originalGame")

TradedInGen3(d) == d \in {"gba", "gcn"} /\ Converted(class, cells, d, cells', LeftFrom(d))

LEMMA FromGBAKeeps ==
  ASSUME OriginInv, class = "gba", NEW target \in AllGames, FromGBA(target)
  PROVE  TradedInGen3(ClassOf(target))
<1> DEFINE d == ClassOf(target)
<1>1. target \in GamesOf[d] /\ GoodGame(d, target)
  BY ClassOfIs
<1>2. CASE d = "gba" /\ cells' = WithTrait("gba", target, WithLevelMet("gba", target, cells), "originalGame", game)
  <2> DEFINE met == WithLevelMet("gba", target, cells)
  <2>1. \E any : Converted("gba", cells, "gba", met, any)
    BY <1>1, <1>2, LevelIsAlsoSet
  <2> HIDE DEF met
  <2>2. PICK any : Converted("gba", cells, "gba", met, any)
    BY <2>1
  <2>3. game \in Gen3Games /\ GoodGame("gba", target)
    BY <1>1, <1>2 DEF OriginInv, GoodGame
  <2>4. Converted("gba", cells, "gba", WithTrait("gba", target, met, "originalGame", game), Seen(game))
    BY <2>2, <2>3, GameIsAlsoSet
  <2>5. LeftFrom("gba") = Seen(game)
    BY DEF LeftFrom
  <2>6. cells' = WithTrait("gba", target, met, "originalGame", game)
    BY <1>2 DEF met
  <2>7. Converted("gba", cells, "gba", cells', LeftFrom("gba"))
    BY <2>4, <2>5, <2>6
  <2> QED
    BY <1>2, <2>7 DEF TradedInGen3
<1>3. CASE d = "gcn" /\ cells.language \in DOMAIN LanguageOnBoth /\ cells' = GBAToGCN
  <2>1. Converted("gba", cells, "gcn", GBAToGCN, TraitTold("originalGame"))
    BY <1>3, FromGBAToGCN
  <2>2. LeftFrom("gcn") = TraitTold("originalGame")
    BY DEF LeftFrom
  <2>3. Converted("gba", cells, "gcn", cells', LeftFrom("gcn"))
    BY <1>3, <2>1, <2>2
  <2> QED
    BY <1>3, <2>3 DEF TradedInGen3
<1> QED
  BY <1>2, <1>3 DEF FromGBA

LEMMA FromGCNKeeps ==
  ASSUME OriginInv, class = "gcn", NEW target \in AllGames, FromGCN(target)
  PROVE  TradedInGen3(ClassOf(target))
<1> DEFINE d == ClassOf(target)
           converted == IF d = "gba" THEN GCNToGBA ELSE WithLevelMet("gcn", target, cells)
           h == TraitTold("originalGame")
<1>1. target \in GamesOf[d] /\ GoodGame(d, target)
  BY ClassOfIs
<1>2. d \in {"gba", "gcn"} /\ cells' = WithTrait(d, target, converted, "originalGame", h)
  BY DEF FromGCN
<1>3. h \in Gen3Games \ {"xd"}
  <2>1. h = ToldOf(Rows["gcn"]["originalGame"], cells)
    BY RowsOfTraits DEF TraitTold
  <2>2. GoodGame("gcn", game) /\ Proper("gcn", cells)
    BY DEF OriginInv
  <2> QED
    BY <2>1, <2>2, OriginalGameIsOne
<1>4. LeftFrom(d) = h /\ Seen(h) = h
  BY <1>3 DEF LeftFrom, Seen
<1> HIDE DEF h
<1>5. \E any : Converted("gcn", cells, d, converted, any)
  <2>1. CASE d = "gba"
    BY <1>1, <2>1, FromGCNToGBA
  <2>2. CASE d = "gcn"
    BY <1>1, <2>2, LevelIsAlsoSet
  <2> QED
    BY <1>2, <2>1, <2>2
<1> HIDE DEF converted
<1>6. PICK any : Converted("gcn", cells, d, converted, any)
  BY <1>5
<1>7. Converted("gcn", cells, d, WithTrait(d, target, converted, "originalGame", h), Seen(h))
  BY <1>1, <1>2, <1>3, <1>6, GameIsAlsoSet
<1>8. Converted(class, cells, d, cells', LeftFrom(d))
  BY <1>2, <1>4, <1>7
<1> QED
  BY <1>2, <1>8 DEF TradedInGen3

-----------------------------------------------------------------------------
(* One trade. *)
TradeKeeps ==
  /\ \A t \in (Known \cap Known') \ {"levelMet", "location", "originalGame", "egg"} : TraitTold(t)' = TraitTold(t)
  /\ "levelMet" \in Known' => TraitTold("levelMet")' = Least(level, IF class' = "gen2" THEN 63 ELSE 100)
  /\ "originalGame" \in Known =>
       TraitTold("originalGame")' = IF class = "gba" /\ class' = "gba" THEN Seen(game)
                                                                       ELSE TraitTold("originalGame")
  /\ class \in {"gba", "gcn"} => TraitTold("egg")' = TraitTold("egg")
  /\ class = "gen1" /\ class' = "gen2" => cells'.item = cells.catch_rate
  /\ class = "gen2" /\ class' = "gen1" => cells'.catch_rate = cells.item

LEMMA OneTrade ==
  ASSUME OriginInv, NEW target \in AllGames, ToGame(target)
  PROVE  OriginInv' /\ TradeKeeps /\ OnlyFilesMisplace
<1> DEFINE d == ClassOf(target)
<1>1. /\ class \in Classes /\ d \in Classes /\ class' = d /\ game' = target /\ level' = level
      /\ level \in 2..100 /\ target \in GamesOf[d] /\ GoodGame(d, target)
  BY ClassOfIs DEF ToGame, OriginInv, GoodGame
<1>2. \A t : t # "location" => /\ TraitTold(t) = ToldOf(Rows[class][t], cells)
                               /\ TraitTold(t)' = ToldOf(Rows[d][t], cells')
  BY <1>1, RowsOfTraits DEF TraitTold
<1>3. Known \subseteq Has(class) /\ Known' \subseteq Has(d)
  BY <1>1, KnownIsHad DEF Known
<1>4. (Known \cap Known') \ {"levelMet", "location", "originalGame", "egg"} \subseteq Shared(class, d)
  BY <1>3 DEF Shared
<1>5. \A c \in {"gen1", "gen2"} : "originalGame" \notin Has(c)
  BY DEF Has, CellIn
<1>6. "levelMet" \notin Has("gen1")
  BY DEF Has, CellIn
<1>7. OnlyFilesMisplace
  BY <1>1 DEF OnlyFilesMisplace
<1>8. ASSUME Proper(d, cells'), Kept(class, cells, d, cells')
      PROVE  /\ OriginInv'
             /\ \A t \in (Known \cap Known') \ {"levelMet", "location", "originalGame", "egg"} : TraitTold(t)' = TraitTold(t)
  <2>1. OriginInv'
    BY <1>1, <1>8 DEF OriginInv
  <2>2. \A t \in Shared(class, d) : ToldOf(Rows[d][t], cells') = ToldOf(Rows[class][t], cells) /\ t # "location"
    BY <1>8 DEF Kept, Shared
  <2> QED
    BY <1>2, <1>4, <2>1, <2>2
<1>9. CASE TradedFromGameBoy(d) /\ class \in {"gen1", "gen2"}
  <2>1. /\ d \in {"gen1", "gen2"} /\ Proper(d, cells') /\ Kept(class, cells, d, cells')
        /\ d = "gen2" => ToldOf(Rows["gen2"]["levelMet"], cells') = Least(level, 63)
        /\ class = "gen1" /\ d = "gen2" => cells'.item = cells.catch_rate
        /\ class = "gen2" /\ d = "gen1" => cells'.catch_rate = cells.item
    BY <1>9 DEF TradedFromGameBoy
  <2>2. "originalGame" \notin Known
    BY <1>3, <1>5, <1>9
  <2>3. "levelMet" \in Known' => d = "gen2"
    BY <1>3, <1>6, <2>1
  <2>4. "levelMet" \in Known' => TraitTold("levelMet")' = Least(level, IF class' = "gen2" THEN 63 ELSE 100)
    BY <1>1, <1>2, <2>1, <2>3
  <2> QED
    BY <1>1, <1>7, <1>8, <1>9, <2>1, <2>2, <2>4 DEF TradeKeeps
<1>10. CASE TradedInGen3(d) /\ class \in {"gba", "gcn"}
  <2>1. d \in {"gba", "gcn"} /\ Converted(class, cells, d, cells', LeftFrom(d))
    BY <1>10 DEF TradedInGen3
  <2>2. /\ Proper(d, cells') /\ Kept(class, cells, d, cells')
        /\ TraitTold("egg")' = TraitTold("egg")
        /\ TraitTold("levelMet")' = level
        /\ TraitTold("originalGame")' = LeftFrom(d)
    BY <1>2, <2>1 DEF Converted
  <2>3. Least(level, 100) = level
    BY <1>1, LeastIsSmall
  <2>4. TraitTold("levelMet")' = Least(level, IF class' = "gen2" THEN 63 ELSE 100)
    BY <1>1, <2>1, <2>2, <2>3
  <2>5. TraitTold("originalGame")' = IF class = "gba" /\ class' = "gba" THEN Seen(game) ELSE TraitTold("originalGame")
    BY <1>1, <2>2 DEF LeftFrom
  <2>6. ~(class = "gen1") /\ ~(class = "gen2")
    BY <1>10
  <2> QED
    BY <1>7, <1>8, <2>2, <2>4, <2>5, <2>6 DEF TradeKeeps
<1>11. CASE class = "gen1" /\ FromGen1(target)
  BY <1>9, <1>11, FromGen1Keeps
<1>12. CASE class = "gen2" /\ FromGen2(target)
  BY <1>9, <1>12, FromGen2Keeps
<1>13. CASE class = "gba" /\ FromGBA(target)
  BY <1>10, <1>13, FromGBAKeeps
<1>14. CASE class = "gcn" /\ FromGCN(target)
  BY <1>10, <1>14, FromGCNKeeps
<1> QED
  BY <1>11, <1>12, <1>13, <1>14 DEF ToGame

LEMMA OriginStep == OriginInv /\ [OriginNext]_originVars => OriginInv'
<1> SUFFICES ASSUME OriginInv, [OriginNext]_originVars PROVE OriginInv'
  OBVIOUS
<1>1. CASE \E trait \in DOMAIN Inputs : \E value \in Inputs[trait] : SetTrait(trait, value)
  BY <1>1, OneTraitIsSet
<1>2. CASE \E target \in AllGames : ToGame(target)
  BY <1>2, OneTrade
<1>3. CASE ReloadPokemon
  BY <1>3, FileLoaded
<1>4. CASE UNCHANGED originVars
  BY <1>4 DEF originVars, OriginInv
<1> QED
  BY <1>1, <1>2, <1>3, <1>4 DEF OriginNext

LEMMA OriginActions ==
  OriginInv /\ [OriginNext]_originVars =>
    [SettersAreExact /\ TradesKeepOrigin /\ FilesKeepStructure /\ OnlyFilesMisplace]_originVars
<1> SUFFICES ASSUME OriginInv, OriginNext
             PROVE  SettersAreExact /\ TradesKeepOrigin /\ FilesKeepStructure /\ OnlyFilesMisplace
  OBVIOUS
<1>1. SettersAreExact
  BY SettersExact
<1>2. TradesKeepOrigin
  BY OneTrade DEF TradesKeepOrigin, TradeKeeps
<1>3. FilesKeepStructure
  <2>1. CASE ReloadPokemon
    BY <2>1, FileLoaded
  <2>2. CASE ~ReloadPokemon
    BY <2>2 DEF FilesKeepStructure
  <2> QED
    BY <2>1, <2>2
<1>4. OnlyFilesMisplace
  <2>1. CASE \E trait \in DOMAIN Inputs : \E value \in Inputs[trait] : SetTrait(trait, value)
    <3>1. class' = class /\ game' = game
      BY <2>1 DEF SetTrait
    <3> QED
      BY <3>1 DEF OnlyFilesMisplace
  <2>2. CASE \E target \in AllGames : ToGame(target)
    BY <2>2, OneTrade
  <2>3. CASE ReloadPokemon
    BY <2>3, FileLoaded
  <2> QED
    BY <2>1, <2>2, <2>3 DEF OriginNext
<1> QED
  BY <1>1, <1>2, <1>3, <1>4

(* Where a Pokemon is from and whose it is survives setters, trades and    *)
(* files, for every table of games, places and numbers: setters set one    *)
(* trait, trades tell the next class what the last one told, files bring   *)
(* back the structure, and IDs and levels stay numbers that fit.           *)
THEOREM OriginsTheorem == OriginSpec => OriginsAreKept
<1>1. OriginInit => OriginInv
  BY OriginBegins
<1>2. OriginInv /\ [OriginNext]_originVars => OriginInv'
  BY OriginStep
<1>3. OriginInv' => IDsFit'
  BY InvIDsFit, PTL
<1>4. OriginInv /\ [OriginNext]_originVars =>
        [IDsFit' /\ SettersAreExact /\ TradesKeepOrigin /\ FilesKeepStructure /\ OnlyFilesMisplace]_originVars
  BY <1>2, <1>3, OriginActions
<1> QED
  BY <1>1, <1>2, <1>4, PTL DEF OriginSpec, OriginsAreKept
=============================================================================
