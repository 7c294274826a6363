------------------------- MODULE CachedMemoryProofs -------------------------
(***************************************************************************)
(* Proofs about CachedMemory for a cache of any size, any memory and any   *)
(* set of requests, with and without FAST_HIT.                             *)
(***************************************************************************)
EXTENDS CachedMemory, TLAPS

-----------------------------------------------------------------------------
(***************************************************************************)
(* Words and lines.                                                        *)
(***************************************************************************)

\* The word of a request is the only one the request touches.
LEMMA WordFacts ==
  ASSUME NEW req \in Request, Cacheable(req)
  PROVE  /\ WordOf(req) \in Word /\ WordOf(req) \subseteq Byte
         /\ req.bytes \subseteq WordOf(req) /\ req.bytes # {}
         /\ IndexOf[WordOf(req)] \in Index
         /\ \A w \in Word : w \cap req.bytes # {} => w = WordOf(req)
<1>1. WordOf(req) \in Word /\ req.bytes \subseteq WordOf(req)
  BY DEF WordOf, Cacheable
<1>2. req.bytes # {}
  BY BytesAssumption
<1>3. WordOf(req) \subseteq Byte /\ IndexOf[WordOf(req)] \in Index
  BY <1>1, WordAssumption, RequestAssumption
<1>4. \A w \in Word : w \cap req.bytes # {} => w = WordOf(req)
  BY <1>1, WordAssumption
<1> QED
  BY <1>1, <1>2, <1>3, <1>4

\* What a line is made of.
LEMMA LineFacts ==
  /\ \A l \in Line : /\ l.word \in Word /\ l.word \subseteq Ddr /\ l.word \subseteq Byte
                     /\ l.data \in [l.word -> Value]
  /\ \A w \in Word : \A d \in [w -> Value] : [word |-> w, data |-> d] \in Line
<1>1. ASSUME NEW l \in Line
      PROVE  /\ l.word \in Word /\ l.word \subseteq Ddr /\ l.word \subseteq Byte
             /\ l.data \in [l.word -> Value]
  <2>1. /\ l.word \in Word /\ DOMAIN l.data = l.word
        /\ \E w \in Word : l.data \in [w -> Value]
    BY DEF Line
  <2>2. l.word \subseteq Ddr /\ l.word \subseteq Byte
    BY <2>1, WordAssumption, RequestAssumption
  <2> QED
    BY <2>1, <2>2
<1>2. ASSUME NEW w \in Word, NEW d \in [w -> Value]
      PROVE  [word |-> w, data |-> d] \in Line
  <2>1. d \in UNION {[v -> Value] : v \in Word} /\ DOMAIN d = w
    OBVIOUS
  <2> QED
    BY <2>1 DEF Line
<1> QED
  BY <1>1, <1>2

\* Bytes read from anything that covers them make a response.
LEMMA ReadIsReply ==
  ASSUME NEW domain, NEW m \in [domain -> Value], NEW bytes, bytes \subseteq domain,
         bytes \subseteq Byte
  PROVE  [data |-> ReadFrom(m, bytes), err |-> FALSE] \in Reply
<1>1. ReadFrom(m, bytes) \in [bytes -> Value]
  BY DEF ReadFrom
<1>2. ReadFrom(m, bytes) \in UNION {[B -> Value] : B \in SUBSET Byte}
  BY <1>1
<1> QED
  BY <1>2 DEF Reply

-----------------------------------------------------------------------------
(***************************************************************************)
(* The request under way.                                                  *)
(***************************************************************************)

\* A hit is answered with what the memory holds at that moment.
LEMMA HitFacts ==
  ASSUME IInv, NEW invalidate \in BOOLEAN, ReadHit(invalidate)
  PROVE  /\ HitData = [data |-> ReadFrom(ddr, held.bytes), err |-> FALSE]
         /\ HitData \in Reply
         /\ ~invalidate /\ held \in Request /\ ~held.write
<1>1. /\ held \in Request /\ ~held.write /\ Cacheable(held) /\ ~invalidate
      /\ line # None /\ line \in Line /\ line.word = WordOf(held) /\ ~poisoned /\ state = "LOOKUP"
  BY DEF ReadHit, Hit, IInv, TypeOK, Registers, Idle
<1>2. /\ line.data \in [line.word -> Value] /\ line.word \subseteq Byte
      /\ held.bytes \subseteq line.word
  BY <1>1, LineFacts, WordFacts
<1>3. \A b \in held.bytes : line.data[b] = ddr[b]
  BY <1>1, <1>2 DEF IInv, CapturedLine
<1>4. ReadFrom(line.data, held.bytes) = ReadFrom(ddr, held.bytes)
  BY <1>3 DEF ReadFrom
<1>5. HitData \in Reply
  BY <1>2, ReadIsReply DEF HitData
<1> QED
  BY <1>1, <1>4, <1>5 DEF HitData

\* What the memory answers, and how the cache passes it on: the response is one
\* the memory could have given to the request the requester made.
LEMMA AnswerFacts ==
  ASSUME IInv, MemRspReady, NEW outcome \in Outcomes(ddr, inFlight)
  PROVE  /\ held \in Request
         /\ outcome[1] \in [Byte -> Value]
         /\ outcome[2] \in Reply
         /\ ReplyToHeld(outcome[2]) \in Reply
         /\ ~held.write => outcome[1] = ddr
         /\ ~held.write /\ Cacheable(held) /\ ~outcome[2].err
              => outcome[2].data = ReadFrom(ddr, WordOf(held))
         /\ held.write /\ ~outcome[2].err => outcome[1] = Stored(ddr, held, held.bytes)
         /\ held.write => \A b \in Byte \ held.bytes : outcome[1][b] = ddr[b]
         /\ \E performed \in Outcomes(ddr, held) :
              performed[1] = outcome[1] /\ performed[2] = ReplyToHeld(outcome[2])
<1>1. held \in Request /\ held \in AnyRequest /\ ddr \in [Byte -> Value]
  BY RequestAssumption DEF IInv, TypeOK, Registers, Idle, MemRspReady
<1>2. inFlight = IF Cacheable(held) /\ ~held.write
                   THEN [held EXCEPT !.bytes = WordOf(held)] ELSE held
  BY DEF IInv, Registers
<1>3. CASE held.write
  <2>1. inFlight = held
    BY <1>2, <1>3
  <2>2. /\ outcome[1] \in [Byte -> Value] /\ outcome[2] \in Reply
        /\ ~outcome[2].err => outcome[1] = Stored(ddr, held, held.bytes)
    BY <1>1, <1>3, <2>1, OutcomeFacts
  <2>3. /\ outcome[2] = Blank(outcome[2].err)
        /\ \A b \in Byte \ held.bytes : outcome[1][b] = ddr[b]
    BY <1>1, <1>3, <2>1, StoreOutcome
  <2>4. ReplyToHeld(outcome[2]) = outcome[2]
    BY <1>3, <2>3 DEF ReplyToHeld
  <2> QED
    BY <1>1, <1>3, <2>1, <2>2, <2>3, <2>4
<1>4. CASE ~held.write
  <2>1. /\ inFlight \in AnyRequest /\ ~inFlight.write
        /\ held.bytes \subseteq inFlight.bytes
        /\ Cacheable(held) => inFlight.bytes = WordOf(held)
    BY <1>1, <1>2, <1>4, WordFacts DEF AnyRequest
  <2>2. /\ outcome[1] = ddr
        /\ \/ outcome[2] = Blank(TRUE) /\ outcome[2].err
           \/ outcome[2] = [data |-> ReadFrom(ddr, inFlight.bytes), err |-> FALSE]
    BY <1>1, <2>1, LoadOutcome DEF Blank
  <2>3. outcome[2] \in Reply
    BY <1>1, <2>1, OutcomeFacts
  <2>4. CASE outcome[2] = Blank(TRUE) /\ outcome[2].err
    <3>1. ReplyToHeld(outcome[2]) = Blank(TRUE)
      BY <2>4 DEF ReplyToHeld
    <3>2. <<ddr, Blank(TRUE)>> \in Outcomes(ddr, held)
      BY <1>4 DEF Outcomes
    <3>3. Blank(TRUE) \in Reply
      BY BlankIsReply
    <3> QED
      BY <1>1, <1>4, <2>2, <2>3, <2>4, <3>1, <3>2, <3>3
  <2>5. CASE outcome[2] = [data |-> ReadFrom(ddr, inFlight.bytes), err |-> FALSE]
    <3>1. outcome[2].data = ReadFrom(ddr, inFlight.bytes) /\ outcome[2].err = FALSE
      BY <2>5
    <3>2. ReadFrom(outcome[2].data, held.bytes) = ReadFrom(ddr, held.bytes)
      BY <2>1, <3>1 DEF ReadFrom
    <3>3. ReplyToHeld(outcome[2]) = [data |-> ReadFrom(ddr, held.bytes), err |-> FALSE]
      BY <1>4, <3>1, <3>2 DEF ReplyToHeld
    <3>4. ReplyToHeld(outcome[2]) \in Reply
      BY <1>1, <3>3, ReadIsReply DEF AnyRequest
    <3>5. <<ddr, ReplyToHeld(outcome[2])>> \in Outcomes(ddr, held)
      BY <1>4, <3>3 DEF Outcomes
    <3> QED
      BY <1>1, <1>4, <2>1, <2>2, <2>3, <3>1, <3>4, <3>5
  <2> QED
    BY <2>2, <2>4, <2>5
<1> QED
  BY <1>3, <1>4

-----------------------------------------------------------------------------
(***************************************************************************)
(* One edge, whoever acts on it.                                           *)
(***************************************************************************)
AnswerOrQuiet(memTakes, reply, invalidate) ==
  \/ /\ reply = None /\ ddr' \in [Byte -> Value] /\ (invalidate \/ ddr' = ddr)
     /\ memTakes => MemRequest # None
     /\ inFlight' = IF memTakes THEN MemRequest ELSE inFlight
  \/ /\ MemRspReady /\ inFlight' = None
     /\ \E outcome \in Outcomes(ddr, inFlight) : ddr' = outcome[1] /\ reply = outcome[2]

Edge(rspTaken, memTakes, reply, invalidate) ==
  /\ Clock(want, rspTaken, memTakes, reply, invalidate)
  /\ AnswerOrQuiet(memTakes, reply, invalidate)
  /\ RequesterHolds(invalidate) /\ Answers(reply, invalidate)

\* Every action but reset is such an edge.
LEMMA StepIsEdge ==
  ASSUME IInv, Next, ~SystemReset
  PROVE  \E rspTaken, memTakes, invalidate \in BOOLEAN, reply \in Reply \cup {None} :
           Edge(rspTaken, memTakes, reply, invalidate)
<1>0. ddr \in [Byte -> Value]
  BY DEF IInv, TypeOK
<1>1. ASSUME NEW rspTaken \in BOOLEAN, NEW memTakes \in BOOLEAN, NEW invalidate \in BOOLEAN,
             QuietCycle(rspTaken, memTakes, invalidate)
      PROVE  Edge(rspTaken, memTakes, None, invalidate)
  BY <1>0, <1>1 DEF QuietCycle, Edge, AnswerOrQuiet
<1>2. ASSUME NEW rspTaken \in BOOLEAN, NEW invalidate \in BOOLEAN,
             AnswerCycle(rspTaken, invalidate)
      PROVE  \E reply \in Reply : Edge(rspTaken, FALSE, reply, invalidate)
  <2>1. PICK outcome \in Outcomes(ddr, inFlight) :
          /\ Clock(want, rspTaken, FALSE, outcome[2], invalidate)
          /\ ddr' = outcome[1]
          /\ Answers(outcome[2], invalidate)
    BY <1>2 DEF AnswerCycle
  <2>2. MemRspReady /\ inFlight' = None /\ RequesterHolds(invalidate)
    BY <1>2 DEF AnswerCycle
  <2>3. outcome[2] \in Reply
    BY <2>2, AnswerFacts
  <2>4. Edge(rspTaken, FALSE, outcome[2], invalidate)
    BY <2>1, <2>2 DEF Edge, AnswerOrQuiet
  <2> QED
    BY <2>3, <2>4
<1>3. ASSUME NEW rspTaken \in BOOLEAN, ForeignCycle(rspTaken)
      PROVE  Edge(rspTaken, FALSE, None, TRUE)
  <2>1. PICK b \in Ddr, v \in Value : ddr' = [ddr EXCEPT ![b] = v]
    BY <1>3 DEF ForeignCycle
  <2>2. ddr' \in [Byte -> Value]
    BY <1>0, <2>1
  <2> QED
    BY <1>3, <2>2 DEF ForeignCycle, Edge, AnswerOrQuiet
<1> QED
  BY <1>1, <1>2, <1>3 DEF Next

\* The requester's side of an edge.
LEMMA RequesterFacts ==
  ASSUME IInv, NEW reply \in Reply \cup {None}, NEW invalidate \in BOOLEAN,
         RequesterHolds(invalidate), Answers(reply, invalidate),
         MemRspReady /\ reply # None => ReplyToHeld(reply) \in Reply
  PROVE  want' \in Request \cup {None} /\ last' \in Reply \cup {None}
<1>1. ReadHit(invalidate) => HitData \in Reply
  BY HitFacts
<1> QED
  BY <1>1 DEF IInv, TypeOK, RequesterHolds, Answers

\* What is kept mirrors memory if what the state machine asked to keep does.
LEMMA KeepFacts ==
  ASSUME NEW updated \in [Index -> Line \cup {None}], NEW invalidate \in BOOLEAN,
         poisoned \in BOOLEAN, Keep(updated, invalidate),
         ~invalidate => \A i \in Index : updated[i] # None =>
           /\ IndexOf[updated[i].word] = i
           /\ \A b \in updated[i].word : updated[i].data[b] = ddr'[b]
  PROVE  /\ lines' \in [Index -> Line \cup {None}] /\ poisoned' \in BOOLEAN
         /\ LinesMirrorMemory'
         /\ poisoned' = (poisoned \/ invalidate)
         /\ \A i \in Index : lines'[i] # None => lines'[i] = updated[i]
<1>1. CASE invalidate
  BY <1>1 DEF Keep, NoLines, LinesMirrorMemory
<1>2. CASE ~invalidate
  BY <1>2 DEF Keep, LinesMirrorMemory
<1> QED
  BY <1>1, <1>2

\* An edge without an answer on which the lines are only ever dropped.
LEMMA QuietLines ==
  ASSUME IInv, NEW updated \in [Index -> Line \cup {None}], NEW invalidate \in BOOLEAN,
         invalidate \/ ddr' = ddr, Keep(updated, invalidate),
         \A i \in Index : updated[i] # None => updated[i] = lines[i]
  PROVE  /\ lines' \in [Index -> Line \cup {None}] /\ poisoned' \in BOOLEAN
         /\ LinesMirrorMemory'
         /\ poisoned' = (poisoned \/ invalidate)
         /\ \A i \in Index : lines'[i] # None => lines'[i] = updated[i] /\ lines'[i] = lines[i]
<1>1. ~invalidate => \A i \in Index : updated[i] # None =>
        /\ IndexOf[updated[i].word] = i
        /\ \A b \in updated[i].word : updated[i].data[b] = ddr'[b]
  BY DEF IInv, LinesMirrorMemory
<1>2. poisoned \in BOOLEAN
  BY DEF IInv, TypeOK
<1> QED
  BY <1>1, <1>2, KeepFacts

-----------------------------------------------------------------------------
(***************************************************************************)
(* The states of the machine.  Each lemma shows that an edge keeps the     *)
(* invariant and is a step, or a stutter, of the atomic memory.            *)
(***************************************************************************)

\* Nothing happens while idle; other masters may write.
LEMMA AwaitStep ==
  ASSUME IInv, NEW rspTaken \in BOOLEAN, NEW memTakes \in BOOLEAN,
         NEW invalidate \in BOOLEAN, NEW reply \in Reply \cup {None},
         Edge(rspTaken, memTakes, reply, invalidate), Await(want, invalidate)
  PROVE  IInv' /\ [Atomic!Next]_(Atomic!vars)
<1>1. /\ state = "IDLE" /\ ~Taken(want, invalidate)
      /\ UNCHANGED <<state, held, line, writeHit, rsp>> /\ Keep(lines, invalidate)
  BY DEF Await, Idle
<1>2. /\ ddr' \in [Byte -> Value] /\ (invalidate \/ ddr' = ddr)
      /\ inFlight = None /\ inFlight' = None
  BY <1>1 DEF Edge, AnswerOrQuiet, MemRequest, MemRspReady, IInv, Registers
<1>3. /\ lines' \in [Index -> Line \cup {None}] /\ poisoned' \in BOOLEAN
      /\ LinesMirrorMemory'
  BY <1>1, <1>2, QuietLines DEF IInv, TypeOK
<1>4. want' \in Request \cup {None} /\ last' \in Reply \cup {None} /\ last' = last
  BY <1>1, RequesterFacts DEF Edge, Answers, MemRspReady, ReadHit
<1>5. TypeOK'
  BY <1>1, <1>2, <1>3, <1>4 DEF IInv, TypeOK
<1>6. Registers' /\ CapturedLine' /\ WriteHit' /\ StoreUncached'
  BY <1>1, <1>2 DEF IInv, Registers, CapturedLine, WriteHit, StoreUncached, Idle,
     MemRspReady
<1>7. Atomic!OtherMaster
  BY <1>1, <1>2, <1>4 DEF Atomic!OtherMaster
<1> QED
  BY <1>3, <1>5, <1>6, <1>7 DEF IInv, Atomic!Next

\* A request is accepted on an edge on which nobody else has the memory.
LEMMA AcceptStep ==
  ASSUME IInv, NEW rspTaken \in BOOLEAN, NEW memTakes \in BOOLEAN,
         NEW invalidate \in BOOLEAN, NEW reply \in Reply \cup {None},
         Edge(rspTaken, memTakes, reply, invalidate), Accept(want, invalidate)
  PROVE  IInv' /\ [Atomic!Next]_(Atomic!vars)
<1>1. /\ state = "IDLE" /\ ~invalidate /\ want \in Request /\ Taken(want, invalidate)
      /\ state' = "LOOKUP" /\ held' = want /\ rsp' = rsp /\ poisoned' = FALSE
      /\ line' = IF Cacheable(want) THEN lines[IndexOf[WordOf(want)]] ELSE None
      /\ lines' = IF Bypasses(want) THEN NoLines ELSE lines
      /\ writeHit' = FALSE
  BY DEF Accept, Taken, ReqReady, Idle, IInv, TypeOK
<1>2. ddr' = ddr /\ ddr' \in [Byte -> Value] /\ inFlight' = None
  BY <1>1 DEF Edge, AnswerOrQuiet, MemRequest, MemRspReady, IInv, Registers
<1>3. want' \in Request \cup {None} /\ last' \in Reply \cup {None} /\ last' = None
  BY <1>1, RequesterFacts DEF Edge, Answers, MemRspReady
<1>4. /\ lines \in [Index -> Line \cup {None}] /\ lines' \in [Index -> Line \cup {None}]
      /\ \A i \in Index : lines'[i] # None => lines'[i] = lines[i]
  BY <1>1 DEF IInv, TypeOK, NoLines
<1>5. LinesMirrorMemory'
  BY <1>2, <1>4 DEF IInv, LinesMirrorMemory
<1>6. /\ line' \in Line \cup {None}
      /\ line' # None => \A b \in line'.word : line'.data[b] = ddr'[b]
  <2>1. CASE Cacheable(want)
    BY <1>1, <1>2, <1>4, <2>1, WordFacts DEF IInv, LinesMirrorMemory
  <2>2. CASE ~Cacheable(want)
    BY <1>1, <2>2
  <2> QED
    BY <2>1, <2>2
<1>7. TypeOK'
  BY <1>1, <1>2, <1>3, <1>4, <1>6 DEF IInv, TypeOK, CacheStates
<1>8. want # None
  BY <1>1, NoneAssumption, RequestAssumption
<1>9. Registers' /\ CapturedLine' /\ WriteHit'
  BY <1>1, <1>2, <1>6, <1>8 DEF Registers, CapturedLine, WriteHit, Idle, MemRspReady
<1>10. StoreUncached'
  <2> SUFFICES ASSUME want.write, ~Cacheable(want), NEW i \in Index, lines'[i] # None
               PROVE  lines'[i].word \cap want.bytes = {}
    BY <1>1 DEF StoreUncached, Cacheable
  <2>1. ~Bypasses(want) /\ lines'[i] \in Line
    BY <1>1, <1>4 DEF NoLines
  <2>2. want.bytes \cap Ddr = {} /\ lines'[i].word \subseteq Ddr
    BY <2>1, LineFacts DEF Bypasses
  <2> QED
    BY <2>2
<1>11. Atomic!Open
  BY <1>1, <1>2, <1>3 DEF Atomic!Open
<1> QED
  BY <1>5, <1>7, <1>9, <1>10, <1>11 DEF IInv, Atomic!Next

\* A load that hits is performed in the LOOKUP cycle, without the memory.
LEMMA HitStep ==
  ASSUME IInv, NEW rspTaken \in BOOLEAN, NEW memTakes \in BOOLEAN,
         NEW invalidate \in BOOLEAN, NEW reply \in Reply \cup {None},
         Edge(rspTaken, memTakes, reply, invalidate), AnswerHit(rspTaken, invalidate)
  PROVE  IInv' /\ [Atomic!Next]_(Atomic!vars)
<1>1. /\ state = "LOOKUP" /\ ReadHit(invalidate) /\ Keep(lines, invalidate)
      /\ \/ /\ state' = "IDLE" /\ held' = None /\ line' = None
            /\ writeHit' = FALSE /\ rsp' = None
         \/ /\ state' = "RESPONSE" /\ rsp' = HitData
            /\ UNCHANGED <<held, line, writeHit>>
  BY DEF AnswerHit, ReadHit, Release
<1>2. /\ HitData = [data |-> ReadFrom(ddr, held.bytes), err |-> FALSE]
      /\ HitData \in Reply /\ HitData # None
      /\ ~invalidate /\ held \in Request /\ held # None /\ ~held.write
  BY <1>1, HitFacts, NoneAssumption, RequestAssumption
<1>3. ddr' = ddr /\ ddr' \in [Byte -> Value] /\ inFlight' = None
  BY <1>1, <1>2 DEF Edge, AnswerOrQuiet, MemRequest, MemRspReady, IInv, Registers
<1>4. want' \in Request \cup {None} /\ last' \in Reply \cup {None} /\ last' = HitData
  BY <1>1, RequesterFacts DEF Edge, Answers, MemRspReady, Taken, ReqReady, Idle
<1>5. /\ lines' \in [Index -> Line \cup {None}] /\ poisoned' \in BOOLEAN
      /\ LinesMirrorMemory'
  BY <1>1, <1>3, QuietLines DEF IInv, TypeOK
<1>6. TypeOK'
  BY <1>1, <1>2, <1>3, <1>4, <1>5 DEF IInv, TypeOK, CacheStates
<1>7. Registers' /\ CapturedLine' /\ StoreUncached'
  BY <1>1, <1>2, <1>3 DEF Registers, CapturedLine, StoreUncached, Idle, MemRspReady
<1>8. WriteHit'
  <2>1. UNCHANGED <<held, line, writeHit>> => WordOf(held)' = WordOf(held)
    BY DEF WordOf
  <2> QED
    BY <1>1, <2>1 DEF IInv, WriteHit, Idle
<1>9. Atomic!Perform
  <2>1. <<ddr, HitData>> \in Atomic!Outcomes(ddr, held)
    BY <1>2 DEF Atomic!Outcomes, Atomic!ReadFrom, ReadFrom
  <2> QED
    BY <1>1, <1>2, <1>3, <1>4, <2>1 DEF Atomic!Perform
<1> QED
  BY <1>5, <1>6, <1>7, <1>8, <1>9 DEF IInv, Atomic!Next

\* A miss, or a store, gives up the line the request may change.
LEMMA MissStep ==
  ASSUME IInv, NEW rspTaken \in BOOLEAN, NEW memTakes \in BOOLEAN,
         NEW invalidate \in BOOLEAN, NEW reply \in Reply \cup {None},
         Edge(rspTaken, memTakes, reply, invalidate), Miss(invalidate)
  PROVE  IInv' /\ [Atomic!Next]_(Atomic!vars)
<1> DEFINE updated == IF Cacheable(held) THEN [lines EXCEPT ![IndexOf[WordOf(held)]] = None]
                                         ELSE lines
<1>1. /\ state = "LOOKUP" /\ ~ReadHit(invalidate) /\ state' = "SEND"
      /\ writeHit' = (Cacheable(held) /\ held.write /\ Hit(invalidate))
      /\ Keep(updated, invalidate) /\ UNCHANGED <<held, line, rsp>>
  BY DEF Miss
<1>2. /\ ddr' \in [Byte -> Value] /\ (invalidate \/ ddr' = ddr)
      /\ inFlight = None /\ inFlight' = None
      /\ held \in Request /\ held # None
  BY <1>1 DEF Edge, AnswerOrQuiet, MemRequest, MemRspReady, IInv, TypeOK, Registers, Idle
<1>3. want' \in Request \cup {None} /\ last' \in Reply \cup {None} /\ last' = last
  BY <1>1, RequesterFacts DEF Edge, Answers, MemRspReady, Taken, ReqReady, Idle
<1>4. /\ lines \in [Index -> Line \cup {None}] /\ updated \in [Index -> Line \cup {None}]
      /\ \A i \in Index : updated[i] # None => updated[i] = lines[i]
      /\ Cacheable(held) => updated[IndexOf[WordOf(held)]] = None
  BY <1>2, WordFacts DEF IInv, TypeOK
<1>5. /\ lines' \in [Index -> Line \cup {None}] /\ poisoned' \in BOOLEAN
      /\ LinesMirrorMemory' /\ poisoned' = (poisoned \/ invalidate)
      /\ \A i \in Index : lines'[i] # None => lines'[i] = updated[i] /\ lines'[i] = lines[i]
  BY <1>1, <1>2, <1>4, QuietLines
<1>6. TypeOK'
  <2>1. writeHit' \in BOOLEAN
    BY <1>1 DEF Hit, Cacheable
  <2> QED
    BY <1>1, <1>2, <1>3, <1>5, <2>1 DEF IInv, TypeOK, CacheStates
<1>7. Registers' /\ CapturedLine'
  BY <1>1, <1>2, <1>5 DEF IInv, Registers, CapturedLine, Idle, MemRspReady
<1>8. WriteHit'
  <2>1. WordOf(held)' = WordOf(held)
    BY <1>1 DEF WordOf
  <2> QED
    BY <1>1, <2>1 DEF WriteHit, Idle, Hit
<1>9. StoreUncached'
  <2> SUFFICES ASSUME held.write, NEW i \in Index, lines'[i] # None
               PROVE  lines'[i].word \cap held.bytes = {}
    BY <1>1 DEF StoreUncached
  <2>1. lines'[i] = lines[i] /\ lines[i] = updated[i] /\ lines[i] \in Line /\ lines[i] # None
    BY <1>4, <1>5
  <2>2. CASE Cacheable(held)
    <3>1. i # IndexOf[WordOf(held)]
      BY <1>4, <2>1, <2>2
    <3>2. IndexOf[lines[i].word] = i /\ lines[i].word \in Word
      BY <2>1, LineFacts DEF IInv, LinesMirrorMemory
    <3> QED
      BY <1>2, <2>1, <2>2, <3>1, <3>2, WordFacts
  <2>3. CASE ~Cacheable(held)
    BY <1>1, <2>1, <2>3 DEF IInv, StoreUncached
  <2> QED
    BY <2>2, <2>3
<1>10. Atomic!OtherMaster
  BY <1>1, <1>2, <1>3 DEF Atomic!OtherMaster
<1> QED
  BY <1>5, <1>6, <1>7, <1>8, <1>9, <1>10 DEF IInv, Atomic!Next

\* Waiting for the memory to take the request.
LEMMA SendStep ==
  ASSUME IInv, NEW rspTaken \in BOOLEAN, NEW memTakes \in BOOLEAN,
         NEW invalidate \in BOOLEAN, NEW reply \in Reply \cup {None},
         Edge(rspTaken, memTakes, reply, invalidate), Send(memTakes, invalidate)
  PROVE  IInv' /\ [Atomic!Next]_(Atomic!vars)
<1>1. /\ state = "SEND" /\ state' = (IF memTakes THEN "WAIT_DATA" ELSE "SEND")
      /\ Keep(lines, invalidate) /\ UNCHANGED <<held, line, writeHit, rsp>>
  BY DEF Send
<1>2. /\ ddr' \in [Byte -> Value] /\ (invalidate \/ ddr' = ddr)
      /\ inFlight = None
      /\ inFlight' = IF memTakes THEN MemRequest ELSE None
      /\ held \in Request /\ held # None
  BY <1>1 DEF Edge, AnswerOrQuiet, MemRspReady, IInv, TypeOK, Registers, Idle
<1>3. want' \in Request \cup {None} /\ last' \in Reply \cup {None} /\ last' = last
  BY <1>1, RequesterFacts DEF Edge, Answers, MemRspReady, Taken, ReqReady, Idle, ReadHit
<1>4. /\ lines' \in [Index -> Line \cup {None}] /\ poisoned' \in BOOLEAN
      /\ LinesMirrorMemory' /\ poisoned' = (poisoned \/ invalidate)
      /\ \A i \in Index : lines'[i] # None => lines'[i] = lines[i]
  BY <1>1, <1>2, QuietLines DEF IInv, TypeOK
<1>5. TypeOK'
  BY <1>1, <1>2, <1>3, <1>4 DEF IInv, TypeOK, CacheStates
<1>6. WordOf(held)' = WordOf(held) /\ Cacheable(held)' = Cacheable(held)
  BY <1>1 DEF WordOf, Cacheable
<1>7. Registers'
  BY <1>1, <1>2, <1>6 DEF Registers, Idle, MemRspReady, MemRequest
<1>8. CapturedLine' /\ WriteHit'
  BY <1>1, <1>2, <1>4, <1>6 DEF IInv, CapturedLine, WriteHit, Idle
<1>9. StoreUncached'
  BY <1>1, <1>4, <1>6 DEF IInv, StoreUncached
<1>10. Atomic!OtherMaster
  BY <1>1, <1>2, <1>3 DEF Atomic!OtherMaster
<1> QED
  BY <1>4, <1>5, <1>7, <1>8, <1>9, <1>10 DEF IInv, Atomic!Next

\* Waiting for the memory to answer.
LEMMA AwaitDataStep ==
  ASSUME IInv, NEW rspTaken \in BOOLEAN, NEW memTakes \in BOOLEAN,
         NEW invalidate \in BOOLEAN, NEW reply \in Reply \cup {None},
         Edge(rspTaken, memTakes, reply, invalidate), AwaitData(reply, invalidate)
  PROVE  IInv' /\ [Atomic!Next]_(Atomic!vars)
<1>1. /\ state = "WAIT_DATA" /\ MemRspReady /\ reply = None
      /\ Keep(lines, invalidate) /\ UNCHANGED <<state, held, line, writeHit, rsp>>
  BY DEF AwaitData, MemRspReady
<1>2. /\ ddr' \in [Byte -> Value] /\ (invalidate \/ ddr' = ddr) /\ inFlight' = inFlight
  <2>1. ~\E outcome \in Outcomes(ddr, inFlight) : ddr' = outcome[1] /\ reply = outcome[2]
    BY <1>1, AnswerFacts, NoneAssumption
  <2> QED
    BY <1>1, <2>1 DEF Edge, AnswerOrQuiet, MemRequest
<1>3. want' \in Request \cup {None} /\ last' \in Reply \cup {None} /\ last' = last
  BY <1>1, RequesterFacts DEF Edge, Answers, Taken, ReqReady, Idle, ReadHit
<1>4. /\ lines' \in [Index -> Line \cup {None}] /\ poisoned' \in BOOLEAN
      /\ LinesMirrorMemory' /\ poisoned' = (poisoned \/ invalidate)
      /\ \A i \in Index : lines'[i] # None => lines'[i] = lines[i]
  BY <1>1, <1>2, QuietLines DEF IInv, TypeOK
<1>5. TypeOK'
  BY <1>1, <1>2, <1>3, <1>4 DEF IInv, TypeOK
<1>6. WordOf(held)' = WordOf(held) /\ Cacheable(held)' = Cacheable(held)
  BY <1>1 DEF WordOf, Cacheable
<1>7. Registers'
  BY <1>1, <1>2, <1>6 DEF IInv, Registers, Idle, MemRspReady
<1>8. CapturedLine' /\ WriteHit'
  BY <1>1, <1>2, <1>4, <1>6 DEF IInv, CapturedLine, WriteHit, Idle
<1>9. StoreUncached'
  BY <1>1, <1>4, <1>6 DEF IInv, StoreUncached
<1>10. Atomic!OtherMaster
  BY <1>1, <1>2, <1>3 DEF Atomic!OtherMaster
<1> QED
  BY <1>4, <1>5, <1>7, <1>8, <1>9, <1>10 DEF IInv, Atomic!Next

\* Holding a response until it is taken.
LEMMA RespondStep ==
  ASSUME IInv, NEW rspTaken \in BOOLEAN, NEW memTakes \in BOOLEAN,
         NEW invalidate \in BOOLEAN, NEW reply \in Reply \cup {None},
         Edge(rspTaken, memTakes, reply, invalidate), Respond(rspTaken, invalidate)
  PROVE  IInv' /\ [Atomic!Next]_(Atomic!vars)
<1>1. /\ state = "RESPONSE" /\ Keep(lines, invalidate)
      /\ \/ /\ state' = "IDLE" /\ held' = None /\ line' = None
            /\ writeHit' = FALSE /\ rsp' = None
         \/ UNCHANGED <<state, held, line, writeHit, rsp>>
  BY DEF Respond, Release
<1>2. /\ ddr' \in [Byte -> Value] /\ (invalidate \/ ddr' = ddr)
      /\ inFlight = None /\ inFlight' = None
  BY <1>1 DEF Edge, AnswerOrQuiet, MemRequest, MemRspReady, IInv, Registers
<1>3. want' \in Request \cup {None} /\ last' \in Reply \cup {None} /\ last' = last
  BY <1>1, RequesterFacts DEF Edge, Answers, MemRspReady, Taken, ReqReady, Idle, ReadHit
<1>4. /\ lines' \in [Index -> Line \cup {None}] /\ poisoned' \in BOOLEAN
      /\ LinesMirrorMemory'
  BY <1>1, <1>2, QuietLines DEF IInv, TypeOK
<1>5. TypeOK'
  BY <1>1, <1>2, <1>3, <1>4 DEF IInv, TypeOK, CacheStates
<1>6. Registers' /\ CapturedLine' /\ StoreUncached'
  BY <1>1, <1>2 DEF IInv, Registers, CapturedLine, StoreUncached, Idle, MemRspReady
<1>7. WriteHit'
  <2>1. UNCHANGED <<held, line, writeHit>> => WordOf(held)' = WordOf(held)
    BY DEF WordOf
  <2> QED
    BY <1>1, <2>1 DEF IInv, WriteHit, Idle
<1>8. Atomic!OtherMaster
  BY <1>1, <1>2, <1>3 DEF Atomic!OtherMaster
<1> QED
  BY <1>4, <1>5, <1>6, <1>7, <1>8 DEF IInv, Atomic!Next

\* The line kept when the memory answers holds the word as the memory now has it.
LEMMA FreshFacts ==
  ASSUME IInv, MemRspReady, NEW outcome \in Outcomes(ddr, inFlight), ddr' = outcome[1],
         NEW invalidate \in BOOLEAN, Keeps(outcome[2], invalidate)
  PROVE  /\ held \in Request /\ Cacheable(held)
         /\ Fresh(outcome[2]) \in Line
         /\ Fresh(outcome[2]).word = WordOf(held)
         /\ \A b \in WordOf(held) : Fresh(outcome[2]).data[b] = ddr'[b]
<1>1. /\ held \in Request /\ ddr \in [Byte -> Value]
      /\ Cacheable(held) /\ ~outcome[2].err /\ ~poisoned /\ (held.write => writeHit)
  BY DEF Keeps, IInv, TypeOK, Registers, Idle, MemRspReady
<1>2. WordOf(held) \in Word /\ WordOf(held) \subseteq Byte
  BY <1>1, WordFacts
<1>3. CASE ~held.write
  <2>1. outcome[2].data = ReadFrom(ddr, WordOf(held)) /\ outcome[1] = ddr
    BY <1>1, <1>3, AnswerFacts
  <2>2. ReadFrom(ddr, WordOf(held)) \in [WordOf(held) -> Value]
    BY <1>1, <1>2 DEF ReadFrom
  <2>3. Fresh(outcome[2]) = [word |-> WordOf(held), data |-> ReadFrom(ddr, WordOf(held))]
    BY <1>3, <2>1 DEF Fresh
  <2>4. Fresh(outcome[2]) \in Line
    BY <1>2, <2>2, <2>3, LineFacts
  <2>5. \A b \in WordOf(held) : ReadFrom(ddr, WordOf(held))[b] = ddr[b]
    BY DEF ReadFrom
  <2> QED
    BY <1>1, <2>1, <2>3, <2>4, <2>5
<1>4. CASE held.write
  <2>1. ddr' = Stored(ddr, held, held.bytes)
    BY <1>1, <1>4, AnswerFacts
  <2>2. /\ line # None /\ line \in Line /\ line.word = WordOf(held)
        /\ \A b \in line.word : line.data[b] = ddr[b]
    BY <1>1, <1>4 DEF IInv, TypeOK, WriteHit, CapturedLine, Idle, MemRspReady
  <2>3. held.data \in Value /\ line.data \in [line.word -> Value]
    BY <1>1, <2>2, LineFacts, RequestAssumption DEF AnyRequest
  <2>4. /\ Merged \in [WordOf(held) -> Value]
        /\ \A b \in WordOf(held) :
             Merged[b] = IF b \in held.bytes THEN held.data ELSE line.data[b]
    BY <2>2, <2>3 DEF Merged
  <2>5. \A b \in WordOf(held) : Merged[b] = ddr'[b]
    BY <1>2, <2>1, <2>2, <2>4 DEF Stored
  <2>6. Fresh(outcome[2]) = [word |-> WordOf(held), data |-> Merged]
    BY <1>4 DEF Fresh
  <2>7. Fresh(outcome[2]) \in Line
    BY <1>2, <2>4, <2>6, LineFacts
  <2> QED
    BY <1>1, <2>5, <2>6, <2>7
<1> QED
  BY <1>3, <1>4

\* The memory answers: the request is performed at this instant.
LEMMA FinishStep ==
  ASSUME IInv, NEW rspTaken \in BOOLEAN, NEW memTakes \in BOOLEAN,
         NEW invalidate \in BOOLEAN, NEW reply \in Reply \cup {None},
         Edge(rspTaken, memTakes, reply, invalidate), Finish(reply, invalidate)
  PROVE  IInv' /\ [Atomic!Next]_(Atomic!vars)
<1> DEFINE place == IndexOf[WordOf(held)]
           updated == IF Keeps(reply, invalidate)
                        THEN [lines EXCEPT ![place] = Fresh(reply)] ELSE lines
<1>1. /\ state = "WAIT_DATA" /\ MemRspReady /\ reply # None
      /\ state' = "RESPONSE" /\ rsp' = ReplyToHeld(reply)
      /\ Keep(updated, invalidate) /\ UNCHANGED <<held, line, writeHit>>
  BY DEF Finish, MemRspReady
<1>2. inFlight' = None
  BY <1>1 DEF Edge, AnswerOrQuiet
<1>3. PICK outcome \in Outcomes(ddr, inFlight) : ddr' = outcome[1] /\ reply = outcome[2]
  BY <1>1 DEF Edge, AnswerOrQuiet
<1>4. /\ held \in Request /\ held # None
      /\ ddr' \in [Byte -> Value]
      /\ ReplyToHeld(reply) \in Reply /\ ReplyToHeld(reply) # None
      /\ ~held.write => ddr' = ddr
      /\ held.write => \A b \in Byte \ held.bytes : ddr'[b] = ddr[b]
      /\ \E performed \in Outcomes(ddr, held) :
           performed[1] = ddr' /\ performed[2] = ReplyToHeld(reply)
  BY <1>1, <1>3, AnswerFacts, NoneAssumption, RequestAssumption
<1>5. want' \in Request \cup {None} /\ last' \in Reply \cup {None} /\ last' = ReplyToHeld(reply)
  BY <1>1, <1>4, RequesterFacts DEF Edge, Answers, Taken, ReqReady, Idle, ReadHit
<1>6. Keeps(reply, invalidate) =>
        /\ Cacheable(held) /\ Fresh(reply) \in Line /\ Fresh(reply).word = WordOf(held)
        /\ \A b \in WordOf(held) : Fresh(reply).data[b] = ddr'[b]
        /\ place \in Index
  BY <1>1, <1>3, <1>4, FreshFacts, WordFacts
<1>7. /\ lines \in [Index -> Line \cup {None}] /\ updated \in [Index -> Line \cup {None}]
      /\ poisoned \in BOOLEAN
  BY <1>6 DEF IInv, TypeOK
<1>8. ASSUME NEW i \in Index, updated[i] # None
      PROVE  /\ IndexOf[updated[i].word] = i
             /\ \A b \in updated[i].word : updated[i].data[b] = ddr'[b]
  <2>1. CASE Keeps(reply, invalidate) /\ i = place
    <3>1. updated[i] = Fresh(reply)
      BY <1>7, <2>1
    <3> QED
      BY <1>6, <2>1, <3>1
  <2>2. CASE ~(Keeps(reply, invalidate) /\ i = place)
    <3>1. updated[i] = lines[i] /\ lines[i] # None /\ lines[i] \in Line
      BY <1>7, <1>8, <2>2
    <3>2. /\ IndexOf[lines[i].word] = i /\ lines[i].word \subseteq Byte
          /\ \A b \in lines[i].word : lines[i].data[b] = ddr[b]
      BY <3>1, LineFacts DEF IInv, LinesMirrorMemory
    <3>3. \A b \in lines[i].word : ddr'[b] = ddr[b]
      <4>1. held.write => lines[i].word \cap held.bytes = {}
        BY <1>1, <3>1 DEF IInv, StoreUncached
      <4> QED
        BY <1>4, <3>2, <4>1
    <3> QED
      BY <3>1, <3>2, <3>3
  <2> QED
    BY <2>1, <2>2
<1> HIDE DEF updated
<1>9. /\ lines' \in [Index -> Line \cup {None}] /\ poisoned' \in BOOLEAN
      /\ LinesMirrorMemory'
  BY <1>1, <1>7, <1>8, KeepFacts
<1>10. TypeOK'
  BY <1>1, <1>2, <1>4, <1>5, <1>9 DEF IInv, TypeOK, CacheStates
<1>11. Registers' /\ CapturedLine' /\ StoreUncached'
  BY <1>1, <1>2, <1>4 DEF Registers, CapturedLine, StoreUncached, Idle, MemRspReady
<1>12. WriteHit'
  <2>1. WordOf(held)' = WordOf(held)
    BY <1>1 DEF WordOf
  <2> QED
    BY <1>1, <2>1 DEF IInv, WriteHit, Idle
<1>13. Atomic!Perform
  <2>1. Atomic!Outcomes(ddr, held) = Outcomes(ddr, held)
    BY DEF Outcomes, Atomic!Outcomes, Stored, Atomic!Stored, Blank, Atomic!Blank,
       ReadFrom, Atomic!ReadFrom
  <2> QED
    BY <1>1, <1>4, <1>5, <2>1 DEF Atomic!Perform
<1> QED
  BY <1>9, <1>10, <1>11, <1>12, <1>13 DEF IInv, Atomic!Next

\* Reset empties the cache; a store under way may still be performed.
LEMMA ResetStep ==
  ASSUME IInv, SystemReset
  PROVE  IInv' /\ [Atomic!Next]_(Atomic!vars)
<1>1. /\ state' = "IDLE" /\ lines' = [i \in Index |-> None]
      /\ held' = None /\ line' = None /\ rsp' = None /\ writeHit' = FALSE
      /\ poisoned' = FALSE /\ want' = None /\ inFlight' = None /\ last' = None
  BY DEF SystemReset, Reset, NoLines
<1>2. \/ ddr' = ddr
      \/ /\ MemRspReady /\ held \in Request /\ held # None
         /\ \E outcome \in Outcomes(ddr, held) : ddr' = outcome[1]
  <2>1. \/ ddr' = ddr
        \/ inFlight # None /\ \E outcome \in Outcomes(ddr, inFlight) : ddr' = outcome[1]
    BY Zenon DEF SystemReset
  <2>2. ASSUME inFlight # None, NEW outcome \in Outcomes(ddr, inFlight), ddr' = outcome[1]
        PROVE  /\ MemRspReady /\ held \in Request /\ held # None
               /\ \E performed \in Outcomes(ddr, held) : ddr' = performed[1]
    <3>1. MemRspReady
      BY <2>2 DEF IInv, Registers
    <3> QED
      BY <2>2, <3>1, AnswerFacts, NoneAssumption, RequestAssumption
  <2> QED
    BY <2>1, <2>2
<1>3. ddr' \in [Byte -> Value]
  <2>1. ddr \in [Byte -> Value]
    BY DEF IInv, TypeOK
  <2> QED
    BY <1>2, <2>1, RequestAssumption, OutcomeFacts
<1>4. IInv'
  BY <1>1, <1>3 DEF IInv, TypeOK, Registers, CapturedLine, WriteHit, StoreUncached,
     LinesMirrorMemory, CacheStates, Idle, MemRspReady
<1>5. Atomic!Reset
  <2>1. Atomic!Outcomes(ddr, held) = Outcomes(ddr, held)
    BY DEF Outcomes, Atomic!Outcomes, Stored, Atomic!Stored, Blank, Atomic!Blank,
       ReadFrom, Atomic!ReadFrom
  <2> QED
    BY <1>1, <1>2, <2>1 DEF Atomic!Reset, MemRspReady
<1> QED
  BY <1>4, <1>5 DEF Atomic!Next

\* Power-up: an empty cache.
LEMMA InitStep == CMInit => IInv /\ Atomic!Init
BY DEF CMInit, Init, NoLines, IInv, TypeOK, Registers, CapturedLine, WriteHit,
   StoreUncached, LinesMirrorMemory, CacheStates, Idle, MemRspReady, Atomic!Init

\* Every step keeps the invariant and is a step of the atomic memory.
LEMMA NextStep == IInv /\ [Next]_vars => IInv' /\ [Atomic!Next]_(Atomic!vars)
<1> SUFFICES ASSUME IInv, [Next]_vars PROVE IInv' /\ [Atomic!Next]_(Atomic!vars)
  OBVIOUS
<1>1. CASE SystemReset
  BY <1>1, ResetStep
<1>2. CASE Next /\ ~SystemReset
  <2>1. PICK rspTaken \in BOOLEAN, memTakes \in BOOLEAN, invalidate \in BOOLEAN,
             reply \in Reply \cup {None} : Edge(rspTaken, memTakes, reply, invalidate)
    BY <1>2, StepIsEdge
  <2>2. Clock(want, rspTaken, memTakes, reply, invalidate)
    BY <2>1 DEF Edge
  <2> QED
    BY <2>1, <2>2, AwaitStep, AcceptStep, HitStep, MissStep, SendStep, FinishStep,
       AwaitDataStep, RespondStep DEF Clock
<1>3. CASE UNCHANGED vars
  BY <1>3 DEF vars, cacheVars, IInv, TypeOK, Registers, CapturedLine, WriteHit,
     StoreUncached, LinesMirrorMemory, Idle, MemRspReady, WordOf, Cacheable, Atomic!vars
<1> QED
  BY <1>1, <1>2, <1>3

-----------------------------------------------------------------------------
(***************************************************************************)
(* Theorems of the specification.                                          *)
(***************************************************************************)

\* The inductive invariant, for a cache of any size.
THEOREM CacheInvariance == Spec => []IInv
BY InitStep, NextStep, PTL DEF Spec

\* The registers and the lines hold what they may hold.
THEOREM CacheTypeCorrect == Spec => []TypeOK
<1>1. IInv => TypeOK
  BY DEF IInv
<1> QED
  BY <1>1, CacheInvariance, PTL

\* A valid line never differs from the memory, whatever the stores, failures and
\* invalidations before (the lines of rv_ddr_cache.sv:85-132).
THEOREM LinesAreTrue == Spec => []LinesMirrorMemory
<1>1. IInv => LinesMirrorMemory
  BY DEF IInv
<1> QED
  BY <1>1, CacheInvariance, PTL

\* The requester cannot tell the cache from the memory (rv_ddr_cache.sv:2-3).
THEOREM CacheIsTransparent == Spec => ImplementsAtomicMemory
BY InitStep, NextStep, PTL DEF Spec, ImplementsAtomicMemory, Atomic!Spec
=============================================================================
