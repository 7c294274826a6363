---------------------------- MODULE DeviceProofs ----------------------------
(***************************************************************************)
(* Proofs about Interrupts, for any sources with the UART and the DMA      *)
(* among them, a receive queue of any size, any bytes, and a program that  *)
(* changes enables, priorities and the threshold at any moment; and about  *)
(* Timer, for halves of any size, any deadlines, milliseconds of any       *)
(* length that wrap anywhere, and any sleep.  The counter does not wrap    *)
(* (Horizon is a value of it), as Timer assumes.                           *)
(***************************************************************************)
EXTENDS Interrupts, Timer, SequenceTheorems, WellFoundedInduction, TLAPS

-----------------------------------------------------------------------------
(***************************************************************************)
(* The invariant.                                                          *)
(***************************************************************************)
PlicTyped ==
  /\ irqPriority \in [Source -> Priority] /\ threshold \in Priority
  /\ pending \subseteq Source /\ enable \subseteq Source /\ inService \subseteq Source

\* The ring of the receive queue; its cells are 0 until they are written.
Datum == Byte \cup {0}

UartTyped ==
  /\ rxCount \in 0 .. FifoDepth /\ rxReadPtr \in Cell
  /\ rxWritePtr = (rxReadPtr + rxCount) % FifoDepth
  /\ rxFifo \in [Cell -> Datum] /\ rxOverflow \in BOOLEAN

\* The access is on the bus: it was taken and is not answered yet.
Taken == tState # "TARGET_IDLE"
HandlerTaken == OfHandler /\ Taken

\* One access at a time, and whose it is does not change on the way.
BusShape ==
  /\ tState \in {"TARGET_IDLE", "TARGET_WAIT", "TARGET_RESPONSE"}
  /\ main \in {"run", "status", "read", "setting"}
  /\ handler \in {"none", "claim", "status", "read", "ack", "complete"}
  /\ access = None => ~Taken
  /\ access # None =>
       IF access.by = "handler" THEN handler # "none" /\ access = HandlerAccess
       ELSE handler \in {"none", "claim"} /\ main # "run" /\ access \in MainAccess

\* The sources the handler has taken over from the PLIC and not given back.
InHand ==
  CASE handler = "none" -> {}
    [] handler = "claim" -> IF HandlerTaken THEN {tReply} \ {0} ELSE {}
    [] handler \in {"status", "read", "ack"} -> {source}
    [] handler = "complete" -> IF HandlerTaken THEN {} ELSE {source} \ {0}

Service ==
  /\ pending \cap inService = {}
  /\ inService = InHand
  /\ source \in Source \cup {0}
  /\ handler = "claim" /\ HandlerTaken => tReply \in Source \cup {0}

\* Once the handler has seen the byte, nobody takes it away.
ByteStays ==
  /\ handler = "status" /\ HandlerTaken => tReply \in BOOLEAN /\ (tReply => RxValid)
  /\ handler = "read" /\ ~HandlerTaken => RxValid

IInv == PlicTyped /\ UartTyped /\ BusShape /\ Service /\ ByteStays

-----------------------------------------------------------------------------
(***************************************************************************)
(* The PLIC.                                                               *)
(***************************************************************************)

\* A set of numbers that is not empty has a least one.
LEMMA LeastNumber == ASSUME NEW T, T \subseteq Nat, T # {} PROVE \E x \in T : \A y \in T : x <= y
<1> DEFINE R == OpToRel(<, Nat)
<1>1. IsWellFoundedOn(R, Nat)
  BY NatLessThanWellFounded
<1> HIDE DEF R
<1>2. PICK x \in T : \A y \in T : ~(<<y, x>> \in R)
  BY <1>1, WFMin
<1>3. ASSUME NEW y \in T PROVE x <= y
  <2>1. ~(<<y, x>> \in R) /\ x \in Nat /\ y \in Nat
    BY <1>2
  <2>2. ~(y < x)
    BY <2>1 DEF R, OpToRel
  <2> QED
    BY <2>1, <2>2
<1> QED
  BY <1>3

\* Among sources that can be claimed, one goes before all of them.
LEMMA ClaimFacts ==
  ASSUME PlicTyped
  PROVE  /\ ClaimId \in Source \cup {0}
         /\ ClaimId # 0 => ClaimId \in Claimable /\ \A t \in Claimable : Before(ClaimId, t)
<1>1. Claimable \subseteq Source /\ Source \subseteq Nat \ {0}
  BY SourceAssumption DEF PlicTyped, Claimable
<1>2. CASE Claimable = {}
  BY <1>2 DEF ClaimId
<1>3. CASE Claimable # {}
  <2>1. \A s \in Claimable : irqPriority[s] \in 0 .. 7
    BY <1>1 DEF PlicTyped, Priority
  <2> DEFINE Lack == {7 - irqPriority[s] : s \in Claimable}
  <2>2. Lack \subseteq Nat /\ Lack # {}
    BY <1>3, <2>1
  <2>3. PICK l \in Lack : \A m \in Lack : l <= m
    BY <2>2, LeastNumber
  <2>4. \A s \in Claimable : l <= 7 - irqPriority[s]
    BY <2>3
  <2> DEFINE Top == {s \in Claimable : 7 - irqPriority[s] = l}
  <2>5. Top \subseteq Nat /\ Top # {}
    BY <1>1, <2>3
  <2>6. PICK s \in Top : \A t \in Top : s <= t
    BY <2>5, LeastNumber
  <2>7. ASSUME NEW t \in Claimable PROVE Before(s, t)
    <3>1. irqPriority[s] \in 0 .. 7 /\ irqPriority[t] \in 0 .. 7 /\ 7 - irqPriority[s] = l
          /\ l <= 7 - irqPriority[t]
      BY <2>1, <2>4, <2>6
    <3>2. CASE 7 - irqPriority[t] = l
      <4>1. s <= t
        BY <2>6, <3>2
      <4> QED
        BY <3>1, <3>2, <4>1 DEF Before
    <3>3. CASE 7 - irqPriority[t] # l
      <4>1. irqPriority[s] > irqPriority[t]
        BY <3>1, <3>3
      <4> QED
        BY <4>1 DEF Before
    <3> QED
      BY <3>2, <3>3
  <2>8. s \in Claimable /\ \A t \in Claimable : Before(s, t)
    BY <2>6, <2>7
  <2> HIDE DEF Lack, Top
  <2>9. ClaimId = CHOOSE c \in Claimable : \A t \in Claimable : Before(c, t)
    BY <1>3 DEF ClaimId
  <2>10. ClaimId \in Claimable /\ \A t \in Claimable : Before(ClaimId, t)
    BY <2>8, <2>9
  <2> QED
    BY <1>1, <2>10
<1> QED
  BY <1>2, <1>3

\* An access the bus may carry, as far as the PLIC is concerned.
Proper(taken) ==
  taken # None /\ taken.write =>
    /\ taken.register = "PRIORITY" => taken.value[2] \in Priority
    /\ taken.register = "THRESHOLD" => taken.value \in Priority

\* A clock edge keeps the registers typed, and latches nothing that is in service.
LEMMA PlicStep ==
  ASSUME PlicTyped, pending \cap inService = {},
         NEW taken, Proper(taken), Clock(Lines, taken)
  PROVE  PlicTyped' /\ (pending \cap inService)' = {}
<1>1. Lines \subseteq Source
  BY SettingAssumption DEF Lines
<1>2. Claimed(taken) \subseteq Source
  BY ClaimFacts DEF Claimed
<1>3. /\ pending' = (pending \cup (Lines \ inService)) \ Claimed(taken)
      /\ inService' = (inService \cup Claimed(taken)) \ Completed(taken)
  BY DEF Clock, Latch
<1>4. enable' \subseteq Source
  BY DEF Clock, PlicTyped
<1>5. threshold' \in Priority
  BY DEF Clock, PlicTyped, Proper, Writes
<1>6. irqPriority' \in [Source -> Priority]
  <2>1. CASE Writes(taken, "PRIORITY")
    <3>1. taken.value[2] \in Priority
      BY <2>1 DEF Proper, Writes
    <3> QED
      BY <2>1, <3>1 DEF Clock, PlicTyped
  <2>2. CASE ~Writes(taken, "PRIORITY")
    BY <2>2 DEF Clock, PlicTyped
  <2> QED
    BY <2>1, <2>2
<1>7. pending' \subseteq Source /\ inService' \subseteq Source /\ (pending \cap inService)' = {}
  BY <1>1, <1>2, <1>3 DEF PlicTyped
<1> QED
  BY <1>4, <1>5, <1>6, <1>7 DEF PlicTyped

-----------------------------------------------------------------------------
(***************************************************************************)
(* The receive queue.                                                      *)
(***************************************************************************)

\* Going round the ring.
LEMMA RingFacts ==
  ASSUME NEW a \in Cell, NEW n \in 0 .. FifoDepth
  PROVE  /\ (a + n) % FifoDepth = IF a + n < FifoDepth THEN a + n ELSE a + n - FifoDepth
         /\ (a + n) % FifoDepth \in Cell
<1>1. FifoDepth \in Nat \ {0} /\ a \in Nat /\ a < FifoDepth /\ a + n \in Nat /\ a + n < 2 * FifoDepth
  BY FifoDepthAssumption DEF Cell
<1>2. CASE a + n < FifoDepth
  BY <1>1, <1>2 DEF Cell
<1>3. CASE ~(a + n < FifoDepth)
  <2>1. a + n - FifoDepth \in 0 .. FifoDepth - 1
    BY <1>1, <1>3
  <2>2. (a + n) % FifoDepth = (a + n - FifoDepth) % FifoDepth
    BY <1>1
  <2>3. (a + n - FifoDepth) % FifoDepth = a + n - FifoDepth
    BY <1>1, <2>1
  <2> QED
    BY <1>1, <1>3, <2>1, <2>2, <2>3 DEF Cell
<1> QED
  BY <1>2, <1>3

\* A clock edge keeps the ring; a byte that is there stays unless it is read.
LEMMA UartStep ==
  ASSUME UartTyped, NEW arrives \in BOOLEAN, NEW byte \in Datum, NEW read \in BOOLEAN,
         UartClock(arrives, byte, read)
  PROVE  UartTyped' /\ (RxValid /\ ~read => RxValid')
<1>1. /\ FifoDepth \in Nat \ {0} /\ rxCount \in 0 .. FifoDepth /\ rxReadPtr \in Cell
      /\ rxWritePtr = (rxReadPtr + rxCount) % FifoDepth /\ rxWritePtr \in Cell
  BY FifoDepthAssumption, RingFacts DEF UartTyped
<1> DEFINE push == Push(arrives, read)
           pop == Pop(read)
<1>2. push \in BOOLEAN /\ pop \in BOOLEAN /\ (pop => read /\ rxCount # 0)
      /\ (push => rxCount < FifoDepth \/ pop)
  BY DEF Push, Pop, RxValid
<1>3. /\ rxWritePtr' = IF push THEN (rxWritePtr + 1) % FifoDepth ELSE rxWritePtr
      /\ rxReadPtr' = IF pop THEN (rxReadPtr + 1) % FifoDepth ELSE rxReadPtr
      /\ rxCount' = IF push = pop THEN rxCount ELSE IF push THEN rxCount + 1 ELSE rxCount - 1
      /\ rxFifo' \in [Cell -> Datum] /\ rxOverflow' \in BOOLEAN
  BY <1>1 DEF UartClock, UartTyped
<1> HIDE DEF push, pop
<1>4. rxCount' \in 0 .. FifoDepth /\ (rxCount # 0 /\ ~read => rxCount' # 0)
  BY <1>1, <1>2, <1>3
<1>5. rxReadPtr' \in Cell
  <2>1. 1 \in 0 .. FifoDepth
    BY <1>1
  <2> QED
    BY <1>1, <1>3, <2>1, RingFacts
<1>6. rxWritePtr' = (rxReadPtr' + rxCount') % FifoDepth
  <2>1. ASSUME NEW a \in Cell
        PROVE  (a + 1) % FifoDepth = IF a = FifoDepth - 1 THEN 0 ELSE a + 1
    <3>1. 1 \in 0 .. FifoDepth /\ a \in Nat /\ a < FifoDepth
      BY <1>1 DEF Cell
    <3> QED
      BY <1>1, <3>1, RingFacts
  <2>2. /\ rxWritePtr = IF rxReadPtr + rxCount < FifoDepth THEN rxReadPtr + rxCount
                        ELSE rxReadPtr + rxCount - FifoDepth
        /\ (rxReadPtr' + rxCount') % FifoDepth =
             IF rxReadPtr' + rxCount' < FifoDepth THEN rxReadPtr' + rxCount'
             ELSE rxReadPtr' + rxCount' - FifoDepth
    BY <1>1, <1>4, <1>5, RingFacts
  <2>3. /\ rxReadPtr \in Nat /\ rxReadPtr < FifoDepth /\ rxWritePtr \in Nat /\ rxWritePtr < FifoDepth
        /\ rxCount \in Nat /\ rxCount <= FifoDepth /\ FifoDepth \in Nat /\ FifoDepth > 0
    BY <1>1 DEF Cell
  <2>4. /\ (rxWritePtr + 1) % FifoDepth = IF rxWritePtr = FifoDepth - 1 THEN 0 ELSE rxWritePtr + 1
        /\ (rxReadPtr + 1) % FifoDepth = IF rxReadPtr = FifoDepth - 1 THEN 0 ELSE rxReadPtr + 1
    BY <1>1, <2>1
  <2>5. CASE push /\ ~pop
    <3>1. push # pop
      BY <1>2, <2>5
    <3>2. /\ rxReadPtr' = rxReadPtr /\ rxCount' = rxCount + 1 /\ rxCount + 1 <= FifoDepth
          /\ rxWritePtr' = IF rxWritePtr = FifoDepth - 1 THEN 0 ELSE rxWritePtr + 1
      BY <1>2, <1>3, <2>3, <2>4, <2>5, <3>1
    <3> QED
      BY <2>2, <2>3, <3>2
  <2>6. CASE ~push /\ pop
    <3>1. push # pop
      BY <1>2, <2>6
    <3>2. /\ rxWritePtr' = rxWritePtr /\ rxCount' = rxCount - 1 /\ rxCount > 0
          /\ rxReadPtr' = IF rxReadPtr = FifoDepth - 1 THEN 0 ELSE rxReadPtr + 1
      BY <1>2, <1>3, <2>3, <2>4, <2>6, <3>1
    <3> QED
      BY <2>2, <2>3, <3>2
  <2>7. CASE push /\ pop
    <3>1. /\ rxCount' = rxCount /\ rxCount > 0
          /\ rxWritePtr' = IF rxWritePtr = FifoDepth - 1 THEN 0 ELSE rxWritePtr + 1
          /\ rxReadPtr' = IF rxReadPtr = FifoDepth - 1 THEN 0 ELSE rxReadPtr + 1
      BY <1>2, <1>3, <2>3, <2>4, <2>7
    <3> QED
      BY <2>2, <2>3, <3>1
  <2>8. CASE ~push /\ ~pop
    BY <1>1, <1>2, <1>3, <2>8
  <2> QED
    BY <1>2, <2>5, <2>6, <2>7, <2>8
<1> QED
  BY <1>3, <1>4, <1>5, <1>6 DEF UartTyped, RxValid

-----------------------------------------------------------------------------
(***************************************************************************)
(* A clock edge.                                                           *)
(***************************************************************************)

\* At power-up the invariant holds.
LEMMA InitIInv == InterruptsInit => IInv
<1> SUFFICES ASSUME InterruptsInit PROVE IInv
  OBVIOUS
<1> USE DEF InterruptsInit
<1>1. PlicTyped
  BY DEF Init, PlicTyped, Priority
<1>2. UartTyped
  <2>1. rxCount = 0 /\ rxReadPtr = 0 /\ rxWritePtr = 0 /\ rxFifo = [i \in Cell |-> 0]
        /\ rxOverflow = FALSE
    BY DEF UartInit
  <2>2. 0 \in Cell /\ 0 \in 0 .. FifoDepth /\ (0 + 0) % FifoDepth = 0
    BY FifoDepthAssumption DEF Cell
  <2>3. rxFifo \in [Cell -> Datum]
    BY <2>1 DEF Datum
  <2> QED
    BY <2>1, <2>2, <2>3 DEF UartTyped
<1>3. BusShape /\ Service /\ ByteStays
  BY DEF Init, Target!Init, BusShape, Taken, Service, InHand, ByteStays
<1> QED
  BY <1>1, <1>2, <1>3 DEF IInv

\* What the program and the handler put on the bus.
LEMMA MainFacts ==
  ASSUME NEW a \in MainAccess
  PROVE  a.by = "main" /\ a.register # "CLAIM" /\ Proper(a)
<1>1. CASE main = "setting"
  <2>1. PICK s \in Setting : a = Store("main", s.register, s.value)
    BY <1>1 DEF MainAccess
  <2>2. a.by = "main" /\ a.register = s.register /\ a.value = s.value
    BY <2>1 DEF Store, Load
  <2> QED
    BY <2>2, SettingAssumption DEF Proper
<1>2. CASE main # "setting"
  BY <1>2 DEF MainAccess, Load, Proper
<1> QED
  BY <1>1, <1>2

\* Where the handler goes, place by place.
LEMMA HandlerFacts ==
  ASSUME handler \in {"claim", "status", "read", "ack", "complete"}
  PROVE  /\ HandlerAccess.by = "handler"
         /\ HandlerAccess.register = CASE handler = "status" -> "UART_STATUS"
                                       [] handler = "read" -> "UART_RX"
                                       [] handler = "ack" -> "DMA_STATUS"
                                       [] handler \in {"claim", "complete"} -> "CLAIM"
         /\ HandlerAccess.write <=> handler \in {"ack", "complete"}
         /\ handler = "complete" => HandlerAccess.value = source
         /\ HandlerAccess.bytes = {}
         /\ Proper(HandlerAccess)
BY DEF HandlerAccess, Load, Store, Proper

\* An edge on which the fabric takes the access that is offered.
LEMMA TakenStep ==
  ASSUME IInv, access # None, ~Taken, ~Stalled,
         NEW arrives \in BOOLEAN, NEW byte \in Datum,
         Clock(Lines, access), UartClock(arrives, byte, Reads(access, "UART_RX")),
         Target!Clock(access, AnswerTo(access), None, Target!Response # None),
         CpuStep
  PROVE  IInv'
<1> USE DEF IInv
<1>1. tState = "TARGET_IDLE" /\ Target!Response = None
  BY DEF Taken, Target!Response
<1>2. access' = access /\ main' = main /\ handler' = handler /\ source' = source
  BY <1>1 DEF CpuStep, Run, IssueMain, IssueHandler, AwaitAnswer, Answer, cpuVars
<1>3. tState' = "TARGET_WAIT" /\ tReply' = AnswerTo(access)
  BY <1>1 DEF Target!Clock, Target!Accept, Target!Rest, Target!Latch, Target!Respond,
     Target!Collect, Target!MemRspReady, Target!External
<1>4. Proper(access)
  BY MainFacts, HandlerFacts DEF BusShape
<1>5. PlicTyped' /\ (pending \cap inService)' = {}
  BY <1>4, PlicStep DEF Service
<1>6. UartTyped' /\ (RxValid /\ ~Reads(access, "UART_RX") => RxValid')
  <2>1. Reads(access, "UART_RX") \in BOOLEAN
    BY DEF Reads
  <2> QED
    BY <2>1, UartStep
<1>7. BusShape'
  BY <1>2, <1>3 DEF BusShape, Taken, HandlerAccess, MainAccess
<1>8. inService' = (inService \cup Claimed(access)) \ Completed(access)
  BY DEF Clock
<1>9. Taken'
  BY <1>3 DEF Taken
<1>10. CASE access.by # "handler"
  <2>1. handler \in {"none", "claim"} /\ access \in MainAccess
    BY <1>10 DEF BusShape
  <2>2. inService' = inService
    BY <1>8, <2>1, MainFacts DEF Claimed, Completed, Reads, Writes
  <2>3. ~OfHandler /\ ~OfHandler' /\ source' = source /\ handler' = handler
    BY <1>2, <1>10 DEF OfHandler
  <2>4. Service'
    BY <1>5, <2>1, <2>2, <2>3 DEF Service, InHand, HandlerTaken
  <2>5. ByteStays'
    BY <2>1, <2>3 DEF ByteStays
  <2> QED
    BY <1>5, <1>6, <1>7, <2>4, <2>5
<1>11. CASE access.by = "handler"
  <2>1. handler \in {"claim", "status", "read", "ack", "complete"} /\ access = HandlerAccess
    BY <1>11 DEF BusShape
  <2>2. OfHandler /\ ~HandlerTaken /\ HandlerTaken' /\ handler' = handler /\ source' = source
    BY <1>2, <1>9, <1>11 DEF OfHandler, HandlerTaken
  <2>3. source \in Source \cup {0} /\ inService = InHand /\ 0 \notin Source
    BY SourceAssumption DEF Service
  <2>4. CASE handler = "claim"
    <3>1. Reads(access, "CLAIM") /\ ~Writes(access, "CLAIM") /\ ~access.write
      BY <2>1, <2>4, HandlerFacts DEF Reads, Writes
    <3>2. tReply' = ClaimId
      BY <1>3, <2>1, <2>4, <3>1, HandlerFacts DEF AnswerTo, ReadValue
    <3>3. inService' = {ClaimId} \ {0}
      BY <1>8, <2>2, <2>3, <2>4, <3>1 DEF Claimed, Completed, InHand
    <3>4. ClaimId \in Source \cup {0}
      BY ClaimFacts
    <3>5. Service'
      BY <1>5, <2>2, <2>3, <2>4, <3>2, <3>3, <3>4 DEF Service, InHand
    <3>6. ByteStays'
      BY <2>2, <2>4 DEF ByteStays
    <3> QED
      BY <1>5, <1>6, <1>7, <3>5, <3>6
  <2>5. CASE handler \in {"status", "read", "ack"}
    <3>1. access.register # "CLAIM"
      BY <2>1, <2>5, HandlerFacts
    <3>2. inService' = inService
      BY <1>8, <3>1 DEF Claimed, Completed, Reads, Writes
    <3>3. Service'
      BY <1>5, <2>2, <2>3, <2>5, <3>2 DEF Service, InHand
    <3>4. handler = "status" => tReply' = RxValid /\ (RxValid => RxValid')
      <4> SUFFICES ASSUME handler = "status" PROVE tReply' = RxValid /\ (RxValid => RxValid')
        OBVIOUS
      <4>1. access.register = "UART_STATUS" /\ ~access.write
        BY <2>1, HandlerFacts
      <4> QED
        BY <1>3, <1>6, <4>1 DEF AnswerTo, ReadValue, Reads
    <3>5. ByteStays'
      BY <2>2, <2>5, <3>4 DEF ByteStays, RxValid
    <3> QED
      BY <1>5, <1>6, <1>7, <3>3, <3>5
  <2>6. CASE handler = "complete"
    <3>1. ~Reads(access, "CLAIM") /\ Writes(access, "CLAIM") /\ access.value = source
      BY <2>1, <2>6, HandlerFacts DEF Reads, Writes
    <3>2. inService' = {}
      BY <1>8, <2>2, <2>3, <2>6, <3>1 DEF Claimed, Completed, InHand
    <3>3. Service'
      BY <1>5, <2>2, <2>3, <2>6, <3>2 DEF Service, InHand
    <3>4. ByteStays'
      BY <2>2, <2>6 DEF ByteStays
    <3> QED
      BY <1>5, <1>6, <1>7, <3>3, <3>4
  <2> QED
    BY <2>1, <2>4, <2>5, <2>6
<1> QED
  BY <1>10, <1>11

\* What the steps of the hart do to the access: they issue one, wait for its answer, or
\* get it.
LEMMA QuietStep ==
  ASSUME IInv,
         NEW arrives \in BOOLEAN, NEW byte \in Datum, NEW local,
         Clock(Lines, None), UartClock(arrives, byte, FALSE),
         Target!Clock(None, local, None, Target!Response # None),
         CpuStep
  PROVE  IInv'
<1> USE DEF IInv
<1>1. PlicTyped' /\ (pending \cap inService)' = {}
  <2>1. Proper(None)
    BY DEF Proper
  <2> QED
    BY <2>1, PlicStep DEF Service
<1>2. UartTyped' /\ (RxValid => RxValid')
  BY UartStep
<1>3. inService' = inService
  BY DEF Clock, Claimed, Completed, Reads, Writes
<1>4. source \in Source \cup {0} /\ inService = InHand
  BY DEF Service
<1>5. CASE access = None
  <2>1. /\ tState = "TARGET_IDLE" /\ tState' = "TARGET_IDLE" /\ ~OfHandler
        /\ Target!Response = None
    BY <1>5 DEF BusShape, Taken, OfHandler, Target!Response, Target!Clock, Target!Accept,
       Target!Rest, Target!targetVars, Target!Latch, Target!Respond, Target!Collect,
       Target!MemRspReady
  <2>2. Run \/ IssueMain \/ IssueHandler
    BY <1>5 DEF CpuStep, AwaitAnswer, Answer
  <2>3. ~Taken' /\ ~HandlerTaken' /\ ~HandlerTaken /\ source' = source
    BY <2>1, <2>2 DEF Taken, HandlerTaken, Run, IssueMain, IssueHandler
  <2>4. CASE Run
    <3>1. /\ handler = "none" /\ handler' \in {"none", "claim"} /\ access' = None
          /\ main' \in {"run", "status", "read", "setting"}
      BY <1>5, <2>4 DEF Run, BusShape
    <3>2. BusShape'
      BY <2>1, <3>1 DEF BusShape, Taken
    <3>3. Service' /\ ByteStays'
      BY <1>1, <1>3, <1>4, <2>3, <3>1 DEF Service, InHand, ByteStays
    <3> QED
      BY <1>1, <1>2, <3>2, <3>3
  <2>5. CASE IssueMain
    <3>1. /\ handler = "none" /\ handler' \in {"none", "claim"} /\ access' \in MainAccess
          /\ main # "run" /\ main' = main
      BY <2>5 DEF IssueMain
    <3>2. access'.by = "main" /\ access' \in MainAccess'
      BY <3>1, MainFacts DEF MainAccess
    <3>3. BusShape'
      BY <2>1, <3>1, <3>2 DEF BusShape, Taken
    <3>4. Service' /\ ByteStays'
      BY <1>1, <1>3, <1>4, <2>3, <3>1 DEF Service, InHand, ByteStays
    <3> QED
      BY <1>1, <1>2, <3>3, <3>4
  <2>6. CASE IssueHandler
    <3>1. /\ handler # "none" /\ handler' = handler /\ main' = main
          /\ access' = HandlerAccess
      BY <2>6 DEF IssueHandler
    <3>2. access'.by = "handler" /\ access' = HandlerAccess'
      BY <2>3, <3>1, HandlerFacts DEF BusShape, HandlerAccess
    <3>3. BusShape'
      BY <2>1, <3>1, <3>2 DEF BusShape, Taken
    <3>4. Service' /\ ByteStays'
      BY <1>1, <1>2, <1>3, <1>4, <2>3, <3>1 DEF Service, InHand, ByteStays
    <3> QED
      BY <1>1, <1>2, <3>3, <3>4
  <2> QED
    BY <2>2, <2>4, <2>5, <2>6
<1>6. CASE access # None /\ Target!Response = None
  <2>1. UNCHANGED <<access, main, handler, source>>
    BY <1>6 DEF CpuStep, Run, IssueMain, IssueHandler, AwaitAnswer, Answer, cpuVars
  <2>2. /\ tReply' = tReply /\ tState' \in {"TARGET_IDLE", "TARGET_WAIT", "TARGET_RESPONSE"}
        /\ (tState' = "TARGET_IDLE") = (tState = "TARGET_IDLE")
    BY <1>6 DEF BusShape, Target!Clock, Target!Accept, Target!Rest, Target!targetVars,
       Target!Latch, Target!Respond, Target!Collect, Target!MemRspReady, Target!Idle
  <2>3. Taken' = Taken /\ HandlerTaken' = HandlerTaken
    BY <2>1, <2>2 DEF Taken, HandlerTaken, OfHandler
  <2>4. BusShape'
    BY <2>1, <2>2, <2>3 DEF BusShape, Taken, HandlerAccess, MainAccess
  <2>5. Service' /\ ByteStays'
    BY <1>1, <1>2, <1>3, <1>4, <2>1, <2>2, <2>3 DEF Service, InHand, ByteStays
  <2> QED
    BY <1>1, <1>2, <2>4, <2>5
<1>7. CASE access # None /\ Target!Response # None
  <2>1. tState = "TARGET_RESPONSE" /\ tState' = "TARGET_IDLE"
    BY <1>7 DEF Target!Response, Target!Clock, Target!Accept, Target!Rest, Target!Latch,
       Target!Respond, Target!Collect, Target!MemRspReady, Target!Idle
  <2>2. Answer
    BY <1>7 DEF CpuStep, Run, IssueMain, IssueHandler, AwaitAnswer
  <2>3. access' = None /\ ~Taken' /\ ~HandlerTaken' /\ Taken
    BY <2>1, <2>2 DEF Answer, Taken, HandlerTaken
  <2>4. CASE ~OfHandler
    <3>1. /\ handler' = handler /\ source' = source /\ handler \in {"none", "claim"}
          /\ main' \in {"run", "read"} /\ ~HandlerTaken
      BY <1>7, <2>2, <2>4 DEF Answer, OfHandler, BusShape, MainAfter, HandlerTaken
    <3>2. BusShape'
      BY <2>1, <2>3, <3>1 DEF BusShape
    <3>3. Service' /\ ByteStays'
      BY <1>1, <1>3, <1>4, <2>3, <3>1 DEF Service, InHand, ByteStays
    <3> QED
      BY <1>1, <1>2, <3>2, <3>3
  <2>5. CASE OfHandler
    <3>1. /\ handler' = HandlerAfter(tReply) /\ main' = main
          /\ source' = IF handler = "claim" THEN tReply ELSE source
          /\ HandlerTaken
          /\ handler \in {"claim", "status", "read", "ack", "complete"}
      BY <1>7, <2>2, <2>3, <2>5 DEF Answer, OfHandler, BusShape, HandlerTaken
    <3>2. CASE handler = "claim"
      <4>1. tReply \in Source \cup {0} /\ inService = {tReply} \ {0} /\ 0 \notin Source
        BY <1>4, <3>1, <3>2, SourceAssumption DEF Service, InHand
      <4>2. source' = tReply /\ handler' = IF tReply = Uart THEN "status"
                                            ELSE IF tReply = Dma THEN "ack" ELSE "complete"
        BY <3>1, <3>2 DEF HandlerAfter
      <4>3. Uart # 0 /\ Dma # 0
        BY DEF Uart, Dma
      <4>4. BusShape'
        BY <2>1, <2>3, <3>1, <4>2 DEF BusShape
      <4>5. Service' /\ ByteStays'
        BY <1>1, <1>3, <2>3, <4>1, <4>2, <4>3 DEF Service, InHand, ByteStays
      <4> QED
        BY <1>1, <1>2, <4>4, <4>5
    <3>3. CASE handler = "status"
      <4>1. tReply \in BOOLEAN /\ (tReply => RxValid)
        BY <3>1, <3>3 DEF ByteStays
      <4>2. source' = source /\ handler' = IF tReply THEN "read" ELSE "complete"
        BY <3>1, <3>3 DEF HandlerAfter
      <4>3. inService = {source} /\ source # 0
        <5>1. inService = {source} /\ 0 \notin inService
          BY <1>4, <3>3, SourceAssumption DEF InHand, PlicTyped
        <5> QED
          BY <5>1
      <4>4. BusShape'
        BY <2>1, <2>3, <3>1, <4>2 DEF BusShape
      <4>5. Service' /\ ByteStays'
        BY <1>1, <1>2, <1>3, <1>4, <2>3, <4>1, <4>2, <4>3 DEF Service, InHand, ByteStays
      <4> QED
        BY <1>1, <1>2, <4>4, <4>5
    <3>4. CASE handler \in {"read", "ack"}
      <4>1. source' = source /\ handler' = "complete"
        BY <3>1, <3>4 DEF HandlerAfter
      <4>2. inService = {source} /\ source # 0
        <5>1. inService = {source} /\ 0 \notin inService
          BY <1>4, <3>4, SourceAssumption DEF InHand, PlicTyped
        <5> QED
          BY <5>1
      <4>3. BusShape'
        BY <2>1, <2>3, <3>1, <4>1 DEF BusShape
      <4>4. Service' /\ ByteStays'
        BY <1>1, <1>3, <1>4, <2>3, <4>1, <4>2 DEF Service, InHand, ByteStays
      <4> QED
        BY <1>1, <1>2, <4>3, <4>4
    <3>5. CASE handler = "complete"
      <4>1. source' = source /\ handler' = "none"
        BY <3>1, <3>5 DEF HandlerAfter
      <4>2. inService = {}
        BY <1>4, <3>1, <3>5 DEF InHand
      <4>3. BusShape'
        BY <2>1, <2>3, <3>1, <4>1 DEF BusShape
      <4>4. Service' /\ ByteStays'
        BY <1>1, <1>3, <1>4, <2>3, <4>1, <4>2 DEF Service, InHand, ByteStays
      <4> QED
        BY <1>1, <1>2, <4>3, <4>4
    <3> QED
      BY <3>1, <3>2, <3>3, <3>4, <3>5
  <2> QED
    BY <2>4, <2>5
<1> QED
  BY <1>5, <1>6, <1>7

\* Every edge keeps the invariant.
LEMMA NextIInv == IInv /\ [Next]_vars => IInv'
<1> SUFFICES ASSUME IInv, [Next]_vars PROVE IInv'
  OBVIOUS
<1>1. ASSUME NEW arrives \in BOOLEAN, NEW ends \in BOOLEAN, NEW willing \in BOOLEAN,
             NEW byte \in Datum,
             Edge(willing, arrives, byte, ends)
      PROVE  IInv'
  <2>1. CASE Offered /\ willing
    BY <1>1, <2>1, TakenStep DEF Edge, Offered, Taken, Target!Idle
  <2>2. CASE ~(Offered /\ willing)
    <3>1. /\ Clock(Lines, None) /\ UartClock(arrives, byte, Reads(None, "UART_RX"))
          /\ Target!Clock(None, AnswerTo(None), None, Target!Response # None) /\ CpuStep
      BY <1>1, <2>2 DEF Edge
    <3>2. UartClock(arrives, byte, FALSE)
      BY <3>1 DEF Reads, UartClock, Push, Pop
    <3> QED
      BY <3>1, <3>2, QuietStep
  <2> QED
    BY <2>1, <2>2
<1>2. CASE Next
  BY <1>1, <1>2 DEF Next, Datum
<1>3. CASE UNCHANGED vars
  BY <1>3 DEF IInv, PlicTyped, UartTyped, BusShape, Taken, HandlerTaken, OfHandler, Service, InHand,
     ByteStays, RxValid, HandlerAccess, MainAccess, vars, plicVars, uartVars, cpuVars
<1> QED
  BY <1>2, <1>3

-----------------------------------------------------------------------------
\* The invariant holds: what is in service is what the handler has in hand, at every edge
\* of every access.
THEOREM InterruptsInvariance == Spec => []IInv
BY InitIInv, NextIInv, PTL DEF Spec

\* A source is served once for each claim, and none is left in service.
THEOREM SourcesServedOnce == Spec => []ServedOnce
<1>1. IInv => ServedOnce
  BY DEF IInv, Service, InHand, ServedOnce
<1> QED
  BY <1>1, InterruptsInvariance, PTL

\* The handler never waits for a byte that the program has taken.
THEOREM HandlerRunsOn == Spec => []HandlerNeverStalls
<1>1. IInv => HandlerNeverStalls
  <2> SUFFICES ASSUME IInv, OfHandler, Stalled PROVE FALSE
    BY DEF HandlerNeverStalls
  <2>1. access = HandlerAccess /\ handler \in {"claim", "status", "read", "ack", "complete"}
        /\ ~HandlerTaken /\ ~RxValid
    BY DEF IInv, BusShape, OfHandler, Stalled, Target!Idle, HandlerTaken, Taken
  <2>2. handler = "read"
    BY <2>1, HandlerFacts DEF Stalled, Reads
  <2> QED
    BY <2>1, <2>2 DEF IInv, ByteStays
<1> QED
  BY <1>1, InterruptsInvariance, PTL

-----------------------------------------------------------------------------
(***************************************************************************)
(* The receive queue is a ByteQueue.                                       *)
(***************************************************************************)

\* The cell of the i-th byte of a queue that begins at cell r.
At(r, i) == (r + i - 1) % FifoDepth

\* The place of a byte in the ring.
LEMMA AtFacts ==
  ASSUME NEW r \in Cell, NEW i \in 1 .. FifoDepth
  PROVE  /\ At(r, i) = IF r + i - 1 < FifoDepth THEN r + i - 1 ELSE r + i - 1 - FifoDepth
         /\ At(r, i) \in Cell
<1>1. i - 1 \in 0 .. FifoDepth /\ r \in Nat
  BY FifoDepthAssumption DEF Cell
<1>2. r + (i - 1) = r + i - 1
  BY <1>1
<1> QED
  BY <1>1, <1>2, RingFacts DEF At

\* The ring read as a queue.
LEMMA QueueFacts ==
  ASSUME NEW r \in Cell, NEW n \in 0 .. FifoDepth, NEW f \in [Cell -> Datum],
         NEW q, q = [i \in 1 .. n |-> f[At(r, i)]]
  PROVE  q \in Seq(Datum) /\ Len(q) = n /\ \A i \in 1 .. n : q[i] = f[At(r, i)]
<1>1. n \in Nat /\ 1 .. n \subseteq 1 .. FifoDepth
  BY FifoDepthAssumption
<1>2. \A i \in 1 .. n : f[At(r, i)] \in Datum
  BY <1>1, AtFacts
<1> QED
  BY <1>1, <1>2

\* What an edge does to the queue: a byte leaves at the head, one comes in at the end.
LEMMA QueueStep ==
  ASSUME UartTyped, NEW arrives \in BOOLEAN, NEW byte \in Datum, NEW read \in BOOLEAN,
         UartClock(arrives, byte, read),
         NEW q, q = IF Pop(read) THEN Tail(Queue) ELSE Queue
  PROVE  /\ Queue' = IF Push(arrives, read) THEN Append(q, byte) ELSE q
         /\ RxValid => RxData = Head(Queue)
<1>1. /\ FifoDepth \in Nat \ {0} /\ rxCount \in 0 .. FifoDepth /\ rxReadPtr \in 0 .. FifoDepth - 1
      /\ rxFifo \in [Cell -> Datum]
  BY FifoDepthAssumption DEF UartTyped, Cell
<1>2. UartTyped'
  BY UartStep
<1>3. /\ Queue \in Seq(Datum) /\ Len(Queue) = rxCount
      /\ \A i \in 1 .. rxCount : Queue[i] = rxFifo[At(rxReadPtr, i)]
  <2>1. Queue = [i \in 1 .. rxCount |-> rxFifo[At(rxReadPtr, i)]]
    BY DEF Queue, At
  <2>2. rxReadPtr \in Cell
    BY DEF UartTyped
  <2> QED
    BY <1>1, <2>1, <2>2, QueueFacts
<1>4. /\ Queue' \in Seq(Datum) /\ Len(Queue') = rxCount'
      /\ \A i \in 1 .. rxCount' : Queue'[i] = rxFifo'[At(rxReadPtr', i)]
  <2>1. Queue' = [i \in 1 .. rxCount' |-> rxFifo'[At(rxReadPtr', i)]]
    BY DEF Queue, At
  <2>2. rxReadPtr' \in Cell /\ rxCount' \in 0 .. FifoDepth /\ rxFifo' \in [Cell -> Datum]
    BY <1>2 DEF UartTyped
  <2> QED
    BY <2>1, <2>2, QueueFacts
<1> DEFINE push == Push(arrives, read)
           pop == Pop(read)
           n == IF pop THEN rxCount - 1 ELSE rxCount
<1>5. push \in BOOLEAN /\ pop \in BOOLEAN /\ (pop => rxCount # 0)
      /\ (push => rxCount < FifoDepth \/ pop)
  BY DEF Push, Pop, RxValid
<1>6. /\ rxFifo' = IF push THEN [rxFifo EXCEPT ![rxWritePtr] = byte] ELSE rxFifo
      /\ rxReadPtr' = IF pop THEN (rxReadPtr + 1) % FifoDepth ELSE rxReadPtr
      /\ rxCount' = IF push = pop THEN rxCount ELSE IF push THEN rxCount + 1 ELSE rxCount - 1
  BY DEF UartClock
<1>7. q = IF pop THEN Tail(Queue) ELSE Queue
  OBVIOUS
<1> HIDE DEF push, pop
<1>8. rxCount' = IF push THEN n + 1 ELSE n
  <2>1. CASE push /\ pop
    BY <1>1, <1>5, <1>6, <2>1
  <2>2. CASE ~push /\ ~pop
    BY <1>1, <1>5, <1>6, <2>2
  <2>3. CASE push /\ ~pop
    <3>1. push # pop
      BY <2>3
    <3> QED
      BY <1>1, <1>6, <2>3, <3>1
  <2>4. CASE ~push /\ pop
    <3>1. push # pop
      BY <2>4
    <3> QED
      BY <1>1, <1>6, <2>4, <3>1
  <2> QED
    BY <1>5, <2>1, <2>2, <2>3, <2>4
<1>9. n \in Nat /\ n <= FifoDepth /\ (push => n < FifoDepth)
  BY <1>1, <1>5
<1>10. /\ q \in Seq(Datum) /\ Len(q) = n
       /\ \A i \in 1 .. n : q[i] = IF pop THEN Queue[i + 1] ELSE Queue[i]
  <2>1. CASE pop
    <3>1. Queue # <<>>
      BY <1>1, <1>3, <1>5, <2>1
    <3> QED
      BY <1>1, <1>3, <1>5, <1>7, <2>1, <3>1, HeadTailProperties
  <2>2. CASE ~pop
    BY <1>1, <1>3, <1>7, <2>2
  <2> QED
    BY <1>5, <2>1, <2>2
\* The cells: where the queue begins now, and which one is written.
<1>11. ASSUME NEW i \in 1 .. FifoDepth
       PROVE  /\ At(rxReadPtr', i) = IF rxReadPtr' + i - 1 < FifoDepth THEN rxReadPtr' + i - 1
                          ELSE rxReadPtr' + i - 1 - FifoDepth
              /\ At(rxReadPtr, i) = IF rxReadPtr + i - 1 < FifoDepth THEN rxReadPtr + i - 1
                         ELSE rxReadPtr + i - 1 - FifoDepth
              /\ At(rxReadPtr', i) \in Cell
  BY <1>1, <1>2, AtFacts DEF UartTyped
<1>12. rxReadPtr' = IF pop THEN IF rxReadPtr + 1 < FifoDepth THEN rxReadPtr + 1 ELSE 0
                    ELSE rxReadPtr
  <2>1. rxReadPtr \in Cell /\ 1 \in 0 .. FifoDepth
    BY <1>1 DEF Cell
  <2>2. (rxReadPtr + 1) % FifoDepth = IF rxReadPtr + 1 < FifoDepth THEN rxReadPtr + 1
                                      ELSE rxReadPtr + 1 - FifoDepth
    BY <2>1, RingFacts
  <2> QED
    BY <1>1, <1>6, <2>2
<1>13. rxWritePtr = IF rxReadPtr + rxCount < FifoDepth THEN rxReadPtr + rxCount
                    ELSE rxReadPtr + rxCount - FifoDepth
  BY <1>1, RingFacts DEF UartTyped, Cell
<1>14. ASSUME NEW i \in 1 .. n
       PROVE  /\ At(rxReadPtr', i) = IF pop THEN At(rxReadPtr, i + 1) ELSE At(rxReadPtr, i)
              /\ q[i] = rxFifo[At(rxReadPtr', i)] /\ At(rxReadPtr', i) \in Cell
              /\ push => At(rxReadPtr', i) # rxWritePtr
  <2>1. CASE pop
    <3>1. i + 1 \in 1 .. rxCount /\ i + 1 \in 1 .. FifoDepth /\ i \in 1 .. FifoDepth /\ i \in Nat
      BY <1>1, <1>9, <2>1
    <3>2. At(rxReadPtr', i) = At(rxReadPtr, i + 1)
      BY <1>1, <1>11, <1>12, <2>1, <3>1
    <3>3. At(rxReadPtr, i + 1) # rxWritePtr
      BY <1>1, <1>11, <1>13, <2>1, <3>1
    <3> QED
      BY <1>3, <1>10, <1>11, <2>1, <3>1, <3>2, <3>3
  <2>2. CASE ~pop
    <3>1. i \in 1 .. rxCount /\ i \in 1 .. FifoDepth /\ i \in Nat
      BY <1>1, <1>9, <2>2
    <3>2. At(rxReadPtr', i) = At(rxReadPtr, i)
      BY <1>1, <1>11, <1>12, <2>2, <3>1
    <3>3. ASSUME push PROVE At(rxReadPtr, i) # rxWritePtr
      <4>1. rxCount < FifoDepth
        BY <1>5, <2>2, <3>3
      <4> QED
        BY <1>1, <1>11, <1>13, <3>1, <4>1
    <3> QED
      BY <1>3, <1>10, <1>11, <2>2, <3>1, <3>2, <3>3
  <2> QED
    BY <1>5, <2>1, <2>2
<1>15. Queue' = IF push THEN Append(q, byte) ELSE q
  <2>1. CASE ~push
    <3>1. \A i \in 1 .. n : Queue'[i] = q[i]
      BY <1>4, <1>6, <1>8, <1>14, <2>1
    <3> QED
      BY <1>4, <1>8, <1>9, <1>10, <2>1, <3>1, SeqEqual
  <2>2. CASE push
    <3>1. \A i \in 1 .. n : Queue'[i] = q[i]
      <4> SUFFICES ASSUME NEW i \in 1 .. n PROVE Queue'[i] = q[i]
        OBVIOUS
      <4>1. At(rxReadPtr', i) # rxWritePtr /\ At(rxReadPtr', i) \in Cell
        BY <1>14, <2>2
      <4>3. i \in 1 .. rxCount'
        BY <1>8, <1>9, <2>2
      <4>2. rxFifo'[At(rxReadPtr', i)] = rxFifo[At(rxReadPtr', i)]
        BY <1>1, <1>6, <2>2, <4>1
      <4> QED
        BY <1>4, <1>14, <4>1, <4>2, <4>3
    <3>2. Queue'[n + 1] = byte
      <4>1. n + 1 \in 1 .. rxCount' /\ n + 1 \in 1 .. FifoDepth
        <5>1. rxCount' = n + 1 /\ n < FifoDepth
          BY <1>8, <1>9, <2>2
        <5> HIDE DEF n
        <5> QED
          BY <1>1, <1>9, <5>1
      <4>2. At(rxReadPtr', n + 1) = rxWritePtr
        <5>1. CASE pop
          <6>1. n + 1 = rxCount /\ rxCount \in 1 .. FifoDepth
            BY <1>1, <1>5, <5>1
          <6>2. At(rxReadPtr', rxCount) = IF rxReadPtr' + rxCount - 1 < FifoDepth
                                          THEN rxReadPtr' + rxCount - 1
                                          ELSE rxReadPtr' + rxCount - 1 - FifoDepth
            BY <1>11, <6>1
          <6>3. rxReadPtr' = IF rxReadPtr + 1 < FifoDepth THEN rxReadPtr + 1 ELSE 0
            BY <1>12, <5>1
          <6> QED
            BY <1>1, <1>13, <6>1, <6>2, <6>3
        <5>2. CASE ~pop
          <6>1. n + 1 = rxCount + 1 /\ rxCount + 1 \in 1 .. FifoDepth /\ rxReadPtr' = rxReadPtr
            BY <1>1, <1>12, <4>1, <5>2
          <6>2. At(rxReadPtr, rxCount + 1) = IF rxReadPtr + (rxCount + 1) - 1 < FifoDepth
                                             THEN rxReadPtr + (rxCount + 1) - 1
                                             ELSE rxReadPtr + (rxCount + 1) - 1 - FifoDepth
            BY <1>11, <6>1
          <6> QED
            BY <1>1, <1>13, <6>1, <6>2
        <5> QED
          BY <1>5, <5>1, <5>2
      <4>3. rxWritePtr \in Cell
        BY <1>1, RingFacts DEF UartTyped
      <4> QED
        BY <1>1, <1>4, <1>6, <2>2, <4>1, <4>2, <4>3
    <3>3. /\ Append(q, byte) \in Seq(Datum) /\ Len(Append(q, byte)) = n + 1
          /\ \A i \in 1 .. n : Append(q, byte)[i] = q[i]
          /\ Append(q, byte)[n + 1] = byte
      BY <1>9, <1>10, AppendProperties
    <3>4. \A i \in 1 .. n + 1 : Queue'[i] = Append(q, byte)[i]
      BY <1>9, <3>1, <3>2, <3>3
    <3> QED
      BY <1>4, <1>8, <1>9, <2>2, <3>3, <3>4, SeqEqual
  <2> QED
    BY <1>5, <2>1, <2>2
<1>16. RxValid => RxData = Head(Queue)
  <2> SUFFICES ASSUME rxCount # 0 PROVE rxFifo[rxReadPtr] = Head(Queue)
    BY DEF RxValid, RxData
  <2>1. 1 \in 1 .. rxCount /\ 1 \in 1 .. FifoDepth
    BY <1>1
  <2>2. At(rxReadPtr, 1) = rxReadPtr
    BY <1>1, <1>11, <2>1
  <2> QED
    BY <1>3, <2>1, <2>2
<1> QED
  BY <1>15, <1>16 DEF push

\* A clock edge is a step of the abstract queue, or none.
LEMMA EdgeImplements ==
  ASSUME UartTyped, NEW arrives \in BOOLEAN, NEW byte \in Datum, arrives => byte \in Byte,
         NEW read \in BOOLEAN, read => RxValid,
         UartClock(arrives, byte, read), lastByte' = IF read THEN RxData ELSE lastByte
  PROVE  [Abstract!Next]_(Abstract!vars)
<1> DEFINE push == Push(arrives, read)
           pop == Pop(read)
           q == IF pop THEN Tail(Queue) ELSE Queue
<1>1. /\ Queue' = IF push THEN Append(q, byte) ELSE q
      /\ RxValid => RxData = Head(Queue)
  BY QueueStep
<1>2. pop = read /\ push = (arrives /\ (rxCount < FifoDepth \/ read))
      /\ rxOverflow' = (rxOverflow \/ (arrives /\ ~push))
  BY DEF Pop, Push, UartClock
<1>3. rxCount \in 0 .. FifoDepth /\ FifoDepth \in Nat /\ Len(Queue) = rxCount
      /\ (read => Queue # <<>>) /\ rxOverflow \in BOOLEAN
  <2>1. /\ rxReadPtr \in Cell /\ rxCount \in 0 .. FifoDepth /\ rxFifo \in [Cell -> Datum]
        /\ rxOverflow \in BOOLEAN
    BY DEF UartTyped
  <2>2. Queue = [i \in 1 .. rxCount |-> rxFifo[At(rxReadPtr, i)]]
    BY DEF Queue, At
  <2>3. Len(Queue) = rxCount
    BY <2>1, <2>2, QueueFacts
  <2> QED
    BY <2>1, <2>3, FifoDepthAssumption DEF RxValid
<1> HIDE DEF push, pop
<1>4. CASE read /\ arrives
  <2>1. /\ Queue' = Append(Tail(Queue), byte) /\ lastByte' = Head(Queue)
        /\ rxOverflow' = rxOverflow /\ Queue # <<>> /\ byte \in Byte
    BY <1>1, <1>2, <1>3, <1>4
  <2> QED
    BY <2>1 DEF Abstract!Next, Abstract!ArriveAndDeliver
<1>5. CASE read /\ ~arrives
  <2>1. /\ Queue' = Tail(Queue) /\ lastByte' = Head(Queue)
        /\ rxOverflow' = rxOverflow /\ Queue # <<>>
    BY <1>1, <1>2, <1>3, <1>5
  <2> QED
    BY <2>1 DEF Abstract!Next, Abstract!Deliver
<1>6. CASE ~read /\ arrives /\ rxCount < FifoDepth
  <2>1. /\ Queue' = Append(Queue, byte) /\ lastByte' = lastByte /\ Len(Queue) < FifoDepth
        /\ rxOverflow' = rxOverflow /\ byte \in Byte
    BY <1>1, <1>2, <1>3, <1>6
  <2> QED
    BY <2>1 DEF Abstract!Next, Abstract!Arrive
<1>7. CASE ~read /\ arrives /\ ~(rxCount < FifoDepth)
  <2>1. /\ Queue' = Queue /\ lastByte' = lastByte /\ ~(Len(Queue) < FifoDepth)
        /\ rxOverflow' = TRUE
    BY <1>1, <1>2, <1>3, <1>7
  <2> QED
    BY <2>1 DEF Abstract!Next, Abstract!Arrive
<1>8. CASE ~read /\ ~arrives
  <2>1. Queue' = Queue /\ lastByte' = lastByte /\ rxOverflow' = rxOverflow
    BY <1>1, <1>2, <1>3, <1>8
  <2> QED
    BY <2>1 DEF Abstract!vars
<1> QED
  BY <1>4, <1>5, <1>6, <1>7, <1>8

\* The ring of uart.sv is the queue ByteQueue describes, whatever the program, the handler
\* and the serial line do: bytes in order, and no loss that does not show.
THEOREM RingIsQueue == Spec => ImplementsByteQueue
<1>1. InterruptsInit => Abstract!Init
  <2> SUFFICES ASSUME InterruptsInit PROVE Abstract!Init
    OBVIOUS
  <2>1. Queue = <<>> /\ rxOverflow = FALSE /\ lastByte = None
    BY DEF InterruptsInit, UartInit, Queue
  <2> QED
    BY <2>1 DEF Abstract!Init
<1>2. IInv /\ [Next]_vars => [Abstract!Next]_(Abstract!vars)
  <2> SUFFICES ASSUME IInv, [Next]_vars PROVE [Abstract!Next]_(Abstract!vars)
    OBVIOUS
  <2>1. ASSUME NEW arrives \in BOOLEAN, NEW ends \in BOOLEAN, NEW willing \in BOOLEAN,
               NEW byte \in Datum, arrives => byte \in Byte, Edge(willing, arrives, byte, ends)
        PROVE  [Abstract!Next]_(Abstract!vars)
    <3>1. PICK taken \in {IF Offered /\ willing THEN access ELSE None} :
            /\ UartClock(arrives, byte, Reads(taken, "UART_RX"))
            /\ lastByte' = IF Reads(taken, "UART_RX") THEN RxData ELSE lastByte
      BY <2>1 DEF Edge
    <3>2. Reads(taken, "UART_RX") \in BOOLEAN /\ (Reads(taken, "UART_RX") => RxValid)
      BY DEF Reads, Offered, Stalled, IInv, RxValid
    <3> QED
      BY <2>1, <3>1, <3>2, EdgeImplements DEF IInv
  <2>2. CASE Next
    BY <2>1, <2>2 DEF Next, Datum
  <2>3. CASE UNCHANGED vars
    <3>1. UNCHANGED <<rxFifo, rxReadPtr, rxCount, rxOverflow, lastByte>>
      BY <2>3 DEF vars, uartVars
    <3>2. Queue' = Queue
      BY <3>1 DEF Queue
    <3> QED
      BY <3>1, <3>2 DEF Abstract!vars
  <2> QED
    BY <2>2, <2>3
<1> QED
  BY <1>1, <1>2, InterruptsInvariance, PTL DEF Spec, ImplementsByteQueue, Abstract!Spec

-----------------------------------------------------------------------------
(***************************************************************************)
(* The timer: the arithmetic of halves and of milliseconds that wrap.      *)
(***************************************************************************)

\* A number is made of its halves, and a number made of halves has them.
LEMMA HalvesFacts ==
  ASSUME NEW n \in Nat
  PROVE  /\ Lo(n) \in 0 .. Half - 1 /\ Hi(n) \in Nat
         /\ n = Hi(n) * Half + Lo(n)
BY HalfAssumption DEF Lo, Hi

\* Writing one half leaves the other.
LEMMA PutFacts ==
  ASSUME NEW h \in Nat, NEW l \in 0 .. Half - 1
  PROVE  Hi(h * Half + l) = h /\ Lo(h * Half + l) = l
BY HalfAssumption DEF Lo, Hi

\* The upper half never runs backwards.
LEMMA HiMonotonic == ASSUME NEW m \in Nat, NEW n \in Nat, m <= n PROVE Hi(m) <= Hi(n)
BY HalfAssumption DEF Hi

\* The high half of what the comparator can hold.
LEMMA FullFacts == ASSUME NEW n \in Full PROVE n \in Nat /\ Hi(n) \in 0 .. Half - 1
<1>1. n \in Nat /\ Half \in Nat /\ Half > 0 /\ n < Half * Half
  BY HalfAssumption DEF Full
<1>2. n = Hi(n) * Half + Lo(n) /\ Lo(n) >= 0 /\ Hi(n) \in Nat
  BY <1>1, HalvesFacts
<1>3. ASSUME Hi(n) >= Half PROVE FALSE
  <2>1. Hi(n) * Half >= Half * Half
    BY <1>1, <1>2, <1>3
  <2> QED
    BY <1>1, <1>2, <2>1, HalvesFacts
<1> QED
  BY <1>1, <1>2, <1>3

\* A remainder is what is left of any multiple.
LEMMA RemainderFacts ==
  ASSUME NEW w \in Nat \ {0}, NEW q \in Int, NEW r \in 0 .. w - 1
  PROVE  (w * q + r) % w = r
OBVIOUS

\* The difference of two millisecond counts is right although both have wrapped.
LEMMA WrapFacts ==
  ASSUME NEW a \in Nat, NEW b \in Nat, b <= a, NEW w \in Nat \ {0}
  PROVE  ((a % w) - (b % w)) % w = (a - b) % w
<1>1. PICK p \in Int, s \in 0 .. w - 1 : a = w * p + s /\ a % w = s
  <2>1. a = w * (a \div w) + (a % w) /\ a \div w \in Int /\ a % w \in 0 .. w - 1
    OBVIOUS
  <2> QED
    BY <2>1
<1>2. PICK q \in Int, t \in 0 .. w - 1 : b = w * q + t /\ b % w = t
  <2>1. b = w * (b \div w) + (b % w) /\ b \div w \in Int /\ b % w \in 0 .. w - 1
    OBVIOUS
  <2> QED
    BY <2>1
<1>3. PICK d \in Int, r \in 0 .. w - 1 : s - t = w * d + r
  <2>1. s - t \in Int
    OBVIOUS
  <2>2. s - t = w * ((s - t) \div w) + ((s - t) % w)
        /\ (s - t) \div w \in Int /\ (s - t) % w \in 0 .. w - 1
    BY <2>1
  <2> QED
    BY <2>2
<1>4. (s - t) % w = r
  BY <1>3, RemainderFacts
<1>5. a - b = w * (p - q + d) + r
  <2>1. w * (p - q + d) = w * p - w * q + w * d
    OBVIOUS
  <2> QED
    BY <1>1, <1>2, <1>3, <2>1
<1>6. (a - b) % w = r
  <2>1. p - q + d \in Int
    OBVIOUS
  <2> QED
    BY <1>5, <2>1, RemainderFacts
<1> QED
  BY <1>1, <1>2, <1>4, <1>6

\* Between two moments whose milliseconds differ by s lie more than s - 1 whole ones.
LEMMA PeriodFacts ==
  ASSUME NEW from \in Nat, NEW to \in Nat, from <= to, NEW s \in Nat,
         ((to \div Millisecond) - (from \div Millisecond)) % MsWrap >= s
  PROVE  to > from + (s - 1) * Millisecond
<1> DEFINE a == to \div Millisecond
           b == from \div Millisecond
<1> USE SleepAssumption
<1>1. /\ a \in Nat /\ b \in Nat /\ b <= a
      /\ to >= a * Millisecond /\ from < b * Millisecond + Millisecond
  OBVIOUS
<1>2. (a - b) % MsWrap <= a - b /\ (a - b) % MsWrap \in Nat
  BY <1>1
<1> HIDE DEF a, b
<1>3. a - b >= s
  BY <1>1, <1>2 DEF a, b
<1>4. (a - b) * Millisecond >= s * Millisecond
  BY <1>1, <1>3
<1> QED
  BY <1>1, <1>4

-----------------------------------------------------------------------------
(***************************************************************************)
(* The invariant: what the comparator holds between the stores, what the   *)
(* loads so far say of the time, and when a sleep began.                   *)
(***************************************************************************)
TimerTyped ==
  /\ mtime \in Nat /\ mtime <= Horizon /\ mtimecmp \in Nat
  /\ deadline \in Full /\ previous \in Full
  /\ called \in Nat /\ called <= mtime
  /\ hiBefore \in Nat /\ lo \in Nat /\ hiAfter \in Nat
  /\ ms \in Nat

\* With the high half all ones the comparator is above what it will hold.
Compared ==
  /\ pc \notin {"mask", "writeLo", "writeHi"} => mtimecmp = deadline
  /\ pc = "mask" => mtimecmp = previous
  /\ pc = "writeLo" => \E l \in 0 .. Half - 1 : mtimecmp = (Half - 1) * Half + l
  /\ pc = "writeHi" => mtimecmp = (Half - 1) * Half + Lo(deadline)

\* The low half was read at a moment t of the call, the high one before and after.
Sampled ==
  /\ pc = "readLo" => hiBefore <= Hi(mtime)
  /\ pc = "readHiAgain" => \E t \in called .. mtime : lo = Lo(t) /\ hiBefore <= Hi(t)
  /\ pc = "compare" => \E t \in called .. mtime : lo = Lo(t) /\ hiBefore <= Hi(t) /\ Hi(t) <= hiAfter
  /\ ReadIsTrue

Began ==
  /\ caller # "read" => begun \in Nat /\ begun <= called
  /\ caller = "poll" => \E t \in begun .. called : start = (t \div Millisecond) % MsWrap

TimerInv == TimerTyped /\ Compared /\ Sampled /\ Began

\* Before the horizon the counter counts.
LEMMA ClockFacts ==
  ASSUME TimerTyped, mtime < Horizon
  PROVE  /\ Tick = mtime + 1 /\ mtime + 1 <= Horizon
         /\ ClintClock("none", 0) => mtime' = mtime + 1 /\ mtimecmp' = mtimecmp
<1>1. Half * Half \in Nat /\ mtime \in Nat /\ Horizon \in Nat /\ Horizon < Half * Half
  BY HalfAssumption, HorizonAssumption DEF TimerTyped, Full
<1>2. Tick = mtime + 1
  BY <1>1 DEF Tick
<1> QED
  BY <1>1, <1>2 DEF ClintClock

\* At power-up the invariant holds.
LEMMA InitTimerInv == TimerInit => TimerInv
<1> SUFFICES ASSUME TimerInit PROVE TimerInv
  OBVIOUS
<1>1. Half * Half - 1 \in Full /\ Half * Half \in Nat
  BY HalfAssumption DEF Full
<1>2. Sleep \subseteq Nat
  BY SleepAssumption
<1> QED
  BY <1>1, HorizonAssumption DEF TimerInit, ClintInit, TimerInv, TimerTyped, Compared, Sampled, Began,
     ReadIsTrue, Full

\* A step that leaves the comparator, the deadline and the helper's place alone but
\* for steps from idle to idle or within a read keeps what is said of them.
LEMMA ComparedQuiet ==
  ASSUME Compared, UNCHANGED <<mtimecmp, deadline>>,
         pc \notin {"mask", "writeLo", "writeHi"}, pc' \notin {"mask", "writeLo", "writeHi"}
  PROVE  Compared'
BY DEF Compared

\* clint_mtimecmp_write(), store by store.
LEMMA WriteStep ==
  ASSUME TimerInv, mtime < Horizon, CallWrite \/ MaskHi \/ WriteLo \/ WriteHi
  PROVE  TimerInv'
<1> USE DEF TimerInv
<1>1. /\ Tick = mtime + 1 /\ mtime + 1 <= Horizon /\ mtime' = mtime + 1
      /\ UNCHANGED <<locals, sleepVars>>
  BY ClockFacts DEF CallWrite, MaskHi, WriteLo, WriteHi, ClintClock
<1>2. pc' \in {"mask", "writeLo", "writeHi", "idle"}
  BY DEF CallWrite, MaskHi, WriteLo, WriteHi
<1>3. called' \in {called, mtime}
  BY DEF CallWrite, MaskHi, WriteLo, WriteHi
<1>4. Sampled'
  BY <1>2 DEF Sampled, ReadIsTrue
<1>5. Began'
  <2>1. /\ caller' = caller /\ begun' = begun /\ start' = start
        /\ called' \in Nat /\ called \in Nat /\ called <= called'
    BY <1>1, <1>3 DEF sleepVars, TimerTyped
  <2>2. CASE caller = "poll"
    <3>1. PICK t \in begun .. called : start = (t \div Millisecond) % MsWrap
      BY <2>2 DEF Began
    <3>2. begun \in Nat /\ t \in begun .. called'
      BY <2>1, <2>2, <3>1 DEF Began
    <3> QED
      BY <2>1, <2>2, <3>1, <3>2 DEF Began
  <2>3. CASE caller # "poll"
    BY <2>1, <2>3 DEF Began
  <2> QED
    BY <2>2, <2>3
<1>6. CASE CallWrite
  <2>1. mtimecmp' = mtimecmp /\ pc = "idle" /\ pc' = "mask" /\ previous' = deadline
        /\ deadline' \in Deadline /\ called' = mtime
    BY <1>6, ClockFacts DEF CallWrite
  <2>2. Compared'
    BY <2>1 DEF Compared
  <2>3. TimerTyped'
    BY <1>1, <2>1, HorizonAssumption DEF TimerTyped, locals, sleepVars
  <2> QED
    BY <1>4, <1>5, <2>2, <2>3
<1>7. CASE MaskHi
  <2>1. /\ pc = "mask" /\ pc' = "writeLo" /\ UNCHANGED <<deadline, called, previous>>
        /\ mtimecmp' = (Half - 1) * Half + Lo(mtimecmp)
    BY <1>7 DEF MaskHi, ClintClock, SetHi
  <2>2. Lo(mtimecmp) \in 0 .. Half - 1 /\ mtimecmp' \in Nat
    <3>1. mtimecmp \in Nat
      BY DEF TimerTyped
    <3>2. Lo(mtimecmp) \in 0 .. Half - 1
      BY <3>1, HalvesFacts
    <3> HIDE DEF TimerInv
    <3>3. (Half - 1) * Half \in Nat
      BY HalfAssumption
    <3> QED
      BY <2>1, <3>2, <3>3, HalfAssumption
  <2>3. Compared'
    BY <2>1, <2>2 DEF Compared
  <2>4. TimerTyped'
    BY <1>1, <2>1, <2>2 DEF TimerTyped, locals, sleepVars
  <2> QED
    BY <1>4, <1>5, <2>3, <2>4
<1>8. CASE WriteLo
  <2>1. /\ pc = "writeLo" /\ pc' = "writeHi" /\ UNCHANGED <<deadline, called, previous>>
        /\ mtimecmp' = Hi(mtimecmp) * Half + Lo(deadline)
    BY <1>8 DEF WriteLo, ClintClock, SetLo
  <2>2. Hi(mtimecmp) = Half - 1 /\ Half - 1 \in Nat
    <3>1. PICK l \in 0 .. Half - 1 : mtimecmp = (Half - 1) * Half + l
      BY <2>1 DEF Compared
    <3>2. Half - 1 \in Nat
      BY HalfAssumption
    <3> QED
      BY <3>1, <3>2, PutFacts
  <2>3. deadline \in Nat /\ Lo(deadline) \in 0 .. Half - 1
    BY FullFacts, HalvesFacts DEF TimerTyped
  <2>4. mtimecmp' = (Half - 1) * Half + Lo(deadline) /\ mtimecmp' \in Nat
    BY <2>1, <2>2, <2>3, HalfAssumption
  <2>5. Compared'
    BY <2>1, <2>4 DEF Compared, Lo
  <2>6. TimerTyped'
    BY <1>1, <2>1, <2>4 DEF TimerTyped, locals, sleepVars
  <2> QED
    BY <1>4, <1>5, <2>5, <2>6
<1>9. CASE WriteHi
  <2>1. /\ pc = "writeHi" /\ pc' = "idle" /\ UNCHANGED <<deadline, called, previous>>
        /\ mtimecmp' = Hi(deadline) * Half + Lo(mtimecmp)
        /\ mtimecmp = (Half - 1) * Half + Lo(deadline)
    BY <1>9 DEF WriteHi, ClintClock, SetHi, Compared
  <2>2. deadline \in Nat /\ Lo(deadline) \in 0 .. Half - 1
        /\ deadline = Hi(deadline) * Half + Lo(deadline)
    BY FullFacts, HalvesFacts DEF TimerTyped
  <2>3. Lo(mtimecmp) = Lo(deadline)
    BY <2>1, <2>2, PutFacts, HalfAssumption
  <2>4. mtimecmp' = deadline
    BY <2>1, <2>2, <2>3
  <2>5. Compared'
    BY <2>1, <2>4 DEF Compared
  <2>6. TimerTyped'
    BY <1>1, <2>1, <2>2, <2>4 DEF TimerTyped, locals, sleepVars
  <2> QED
    BY <1>4, <1>5, <2>5, <2>6
<1> QED
  BY <1>6, <1>7, <1>8, <1>9

\* Every step of a read but the calls: the comparator and the sleep wait.
LEMMA LoadStep ==
  ASSUME TimerInv, mtime < Horizon, ReadHiBefore \/ ReadLo \/ ReadHiAfter \/ Compare
  PROVE  TimerInv'
<1> USE DEF TimerInv
<1>1. /\ mtime' = mtime + 1 /\ mtime + 1 <= Horizon /\ mtimecmp' = mtimecmp
      /\ UNCHANGED <<deadline, sleepVars, called, previous>>
      /\ pc \notin {"mask", "writeLo", "writeHi"} /\ pc' \notin {"mask", "writeLo", "writeHi"}
  BY ClockFacts DEF ReadHiBefore, ReadLo, ReadHiAfter, Compare
<1>2. Compared'
  BY <1>1, ComparedQuiet
<1>3. Began'
  BY <1>1 DEF Began, sleepVars
<1>4. /\ mtime \in Nat /\ mtime < mtime' /\ mtime' \in Nat /\ called \in Nat /\ called <= mtime
      /\ hiBefore \in Nat /\ lo \in Nat /\ hiAfter \in Nat
      /\ Hi(mtime) \in Nat /\ Lo(mtime) \in 0 .. Half - 1 /\ Hi(mtime) <= Hi(mtime')
  BY <1>1, HalvesFacts, HiMonotonic DEF TimerTyped
<1>5. ReadRegister("MTIME_HI") = Hi(mtime) /\ ReadRegister("MTIME_LO") = Lo(mtime)
  BY DEF ReadRegister
<1>6. CASE ReadHiBefore
  <2>1. /\ pc' = "readLo" /\ hiBefore' = Hi(mtime) /\ UNCHANGED <<lo, hiAfter>>
    BY <1>5, <1>6 DEF ReadHiBefore
  <2>2. TimerTyped'
    BY <1>1, <1>4, <2>1 DEF TimerTyped, sleepVars
  <2>3. Sampled'
    BY <1>4, <2>1 DEF Sampled, ReadIsTrue
  <2> QED
    BY <1>2, <1>3, <2>2, <2>3
<1>7. CASE ReadLo
  <2>1. /\ pc = "readLo" /\ pc' = "readHiAgain" /\ lo' = Lo(mtime)
        /\ UNCHANGED <<hiBefore, hiAfter>>
    BY <1>5, <1>7 DEF ReadLo
  <2>2. TimerTyped'
    BY <1>1, <1>4, <2>1 DEF TimerTyped, sleepVars
  <2>3. mtime \in called' .. mtime' /\ lo' = Lo(mtime) /\ hiBefore' <= Hi(mtime)
    BY <1>1, <1>4, <2>1 DEF Sampled
  <2>4. Sampled'
    BY <2>1, <2>3 DEF Sampled, ReadIsTrue
  <2> QED
    BY <1>2, <1>3, <2>2, <2>4
<1>8. CASE ReadHiAfter
  <2>1. /\ pc = "readHiAgain" /\ pc' = "compare" /\ hiAfter' = Hi(mtime)
        /\ UNCHANGED <<hiBefore, lo>>
    BY <1>5, <1>8 DEF ReadHiAfter
  <2>2. TimerTyped'
    BY <1>1, <1>4, <2>1 DEF TimerTyped, sleepVars
  <2>3. PICK t \in called .. mtime : lo = Lo(t) /\ hiBefore <= Hi(t)
    BY <2>1 DEF Sampled
  <2>4. t \in called' .. mtime' /\ Hi(t) <= hiAfter'
    BY <1>1, <1>4, <2>1, <2>3, HiMonotonic
  <2>5. Sampled'
    BY <2>1, <2>3, <2>4 DEF Sampled, ReadIsTrue
  <2> QED
    BY <1>2, <1>3, <2>2, <2>5
<1>9. CASE Compare
  <2>1. /\ pc = "compare" /\ UNCHANGED <<hiBefore, lo, hiAfter>>
        /\ pc' = IF hiBefore # hiAfter THEN "readHi" ELSE "return"
    BY <1>9 DEF Compare, locals
  <2>2. TimerTyped'
    BY <1>1, <1>4, <2>1 DEF TimerTyped, sleepVars
  <2>3. PICK t \in called .. mtime : lo = Lo(t) /\ hiBefore <= Hi(t) /\ Hi(t) <= hiAfter
    BY <2>1 DEF Sampled
  <2>4. t \in Nat /\ t \in called' .. mtime' /\ Hi(t) \in Nat
    BY <1>1, <1>4, <2>3, HalvesFacts
  <2>5. hiBefore = hiAfter => hiAfter * Half + lo = t
    BY <1>4, <2>3, <2>4, HalvesFacts
  <2>6. ReadIsTrue'
    BY <2>1, <2>4, <2>5 DEF ReadIsTrue
  <2>7. Sampled'
    BY <2>1, <2>6 DEF Sampled
  <2> QED
    BY <1>2, <1>3, <2>2, <2>7
<1> QED
  BY <1>6, <1>7, <1>8, <1>9

\* What a read that is over returned, as a point in time.
LEMMA ReadFacts ==
  ASSUME TimerInv, pc = "return"
  PROVE  \E now \in called .. mtime : TicksMs = (now \div Millisecond) % MsWrap
BY DEF TimerInv, Sampled, ReadIsTrue, TicksMs

\* A call, a return, and what DG_SleepMs() does with a returned time.
LEMMA CallStep ==
  ASSUME TimerInv, mtime < Horizon, CallRead \/ Return \/ CallSleep \/ StartSleep \/ PollSleep
  PROVE  TimerInv'
<1> USE DEF TimerInv
<1>1. /\ mtime' = mtime + 1 /\ mtime + 1 <= Horizon /\ mtimecmp' = mtimecmp
      /\ UNCHANGED <<deadline, locals, previous>>
      /\ pc \in {"idle", "return"} /\ pc' \in {"readHi", "idle"}
      /\ called' \in {called, mtime}
  BY ClockFacts DEF CallRead, Return, CallSleep, StartSleep, PollSleep
<1>2. Compared' /\ Sampled'
  BY <1>1, ComparedQuiet DEF Sampled, ReadIsTrue
<1>3. ms' \in Nat
  <2>1. Sleep \subseteq Nat
    BY SleepAssumption
  <2> QED
    BY <2>1 DEF CallRead, Return, CallSleep, StartSleep, PollSleep, sleepVars, TimerTyped
<1>4. TimerTyped'
  BY <1>1, <1>3 DEF TimerTyped, locals
<1>5. mtime \in Nat /\ called \in Nat /\ called <= called' /\ called' \in Nat
  BY <1>1 DEF TimerTyped
<1>6. CASE CallRead \/ Return
  <2>1. caller' = caller /\ begun' = begun /\ start' = start
    BY <1>6 DEF CallRead, Return, sleepVars
  <2>2. CASE caller = "poll"
    <3>1. PICK t \in begun .. called : start = (t \div Millisecond) % MsWrap
      BY <2>2 DEF Began
    <3>2. begun \in Nat /\ t \in begun .. called' /\ begun <= called'
      BY <1>5, <2>2, <3>1 DEF Began
    <3> QED
      BY <1>2, <1>4, <2>1, <2>2, <3>1, <3>2 DEF Began
  <2>3. CASE caller # "poll"
    BY <1>2, <1>4, <1>5, <2>1, <2>3 DEF Began
  <2> QED
    BY <2>2, <2>3
<1>7. CASE CallSleep
  <2>1. caller' = "start" /\ begun' = mtime /\ called' = mtime
    BY <1>7 DEF CallSleep
  <2> QED
    BY <1>2, <1>4, <1>5, <2>1 DEF Began
<1>8. CASE StartSleep
  <2>1. /\ pc = "return" /\ caller = "start" /\ caller' = "poll" /\ start' = TicksMs
        /\ called' = mtime /\ begun' = begun
    BY <1>8 DEF StartSleep
  <2>2. PICK now \in called .. mtime : TicksMs = (now \div Millisecond) % MsWrap
    BY <2>1, ReadFacts
  <2>3. begun \in Nat /\ now \in begun' .. called' /\ begun' <= called'
    BY <1>5, <2>1, <2>2 DEF Began
  <2> QED
    BY <1>2, <1>4, <2>1, <2>2, <2>3 DEF Began
<1>9. CASE PollSleep
  <2>1. /\ caller = "poll" /\ caller' \in {"poll", "read"} /\ UNCHANGED <<start, begun>>
    BY <1>9 DEF PollSleep
  <2>2. PICK t \in begun .. called : start = (t \div Millisecond) % MsWrap
    BY <2>1 DEF Began
  <2>3. begun \in Nat /\ t \in begun .. called' /\ begun <= called'
    BY <1>5, <2>1, <2>2 DEF Began
  <2> QED
    BY <1>2, <1>4, <2>1, <2>2, <2>3 DEF Began
<1> QED
  BY <1>6, <1>7, <1>8, <1>9

\* A cycle without an access.
LEMMA ElapseStep == ASSUME TimerInv, mtime < Horizon, Elapse PROVE TimerInv'
<1> USE DEF TimerInv
<1>1. /\ mtime' = mtime + 1 /\ mtime + 1 <= Horizon /\ mtimecmp' = mtimecmp
      /\ UNCHANGED <<pc, deadline, locals, sleepVars, called, previous>>
  BY ClockFacts DEF Elapse
<1>2. mtime \in Nat /\ mtime' \in Nat /\ mtime < mtime' /\ Hi(mtime) <= Hi(mtime')
      /\ Hi(mtime) \in Nat /\ Hi(mtime') \in Nat /\ called \in Nat /\ hiBefore \in Nat
  BY <1>1, HiMonotonic, HalvesFacts DEF TimerTyped
<1>3. TimerTyped' /\ Compared' /\ Began'
  BY <1>1 DEF TimerTyped, Compared, Began, locals, sleepVars
<1>4. \A t \in called .. mtime : t \in called' .. mtime'
  BY <1>1, <1>2
<1>5. Sampled'
  BY <1>1, <1>2, <1>4 DEF Sampled, ReadIsTrue, locals
<1> QED
  BY <1>3, <1>5

\* Every step keeps the invariant.
LEMMA NextTimerInv == TimerInv /\ [TimerNext]_timerVars => TimerInv'
<1> SUFFICES ASSUME TimerInv, [TimerNext]_timerVars PROVE TimerInv'
  OBVIOUS
<1>1. CASE TimerNext
  BY <1>1, WriteStep, LoadStep, CallStep, ElapseStep DEF TimerNext
<1>2. CASE UNCHANGED timerVars
  BY <1>2 DEF TimerInv, TimerTyped, Compared, Sampled, ReadIsTrue, Began, timerVars, clintVars, locals,
     sleepVars
<1> QED
  BY <1>1, <1>2

-----------------------------------------------------------------------------
\* The invariant holds: between the three stores the comparator is above what it will
\* hold, and the halves a read has loaded bracket one moment of the call.
THEOREM TimerInvariance == TimerSpec => []TimerInv
BY InitTimerInv, NextTimerInv, PTL DEF TimerSpec

\* The timer interrupt of clint_mtimecmp_write() is neither early nor missed.
THEOREM NoEarlyInterrupt == TimerSpec => []NoTransientMatch
<1>1. TimerInv => NoTransientMatch
  <2> SUFFICES ASSUME TimerInv PROVE NoTransientMatch
    OBVIOUS
  <2> USE DEF TimerInv
  <2>1. mtime \in Nat /\ mtimecmp \in Nat /\ deadline \in Nat /\ previous \in Nat
    BY FullFacts DEF TimerTyped
  <2>2. mtime \in Full
    BY <2>1, HorizonAssumption, HalfAssumption DEF TimerTyped, Full
  <2>3. ASSUME NEW l \in 0 .. Half - 1, mtimecmp = (Half - 1) * Half + l, mtime >= mtimecmp
        PROVE  Hi(mtime) = Half - 1
    <3>1. Half - 1 \in Nat
      BY HalfAssumption
    <3>4. Hi((Half - 1) * Half + l) = Half - 1
      BY <3>1, PutFacts
    <3>2. Hi(mtimecmp) <= Hi(mtime)
      BY <2>1, <2>3, HiMonotonic
    <3>3. Hi(mtime) \in 0 .. Half - 1
      BY <2>2, FullFacts
    <3> QED
      BY <2>1, <2>3, <3>1, <3>2, <3>3, <3>4
  <2>4. Lo(deadline) \in 0 .. Half - 1
    BY <2>1, HalvesFacts
  <2>5. CASE pc \notin {"mask", "writeLo", "writeHi"}
    BY <2>5 DEF Compared, NoTransientMatch, TimerIrq
  <2>6. CASE pc = "mask"
    BY <2>6 DEF Compared, NoTransientMatch, TimerIrq
  <2>7. CASE pc \in {"writeLo", "writeHi"}
    BY <2>3, <2>4, <2>7 DEF Compared, NoTransientMatch, TimerIrq
  <2> QED
    BY <2>5, <2>6, <2>7
<1> QED
  BY <1>1, TimerInvariance, PTL

\* What clint_mtime_read() returns was the time at some moment of the call.
THEOREM ReadIsATime == TimerSpec => []ReadIsTrue
<1>1. TimerInv => ReadIsTrue
  BY DEF TimerInv, Sampled
<1> QED
  BY <1>1, TimerInvariance, PTL

\* DG_SleepMs() returns only when its periods but the begun one are over, whatever wraps.
THEOREM SleepIsLongEnough == TimerSpec => SleepLasts
<1>1. ASSUME TimerInv, [TimerNext]_timerVars, caller = "poll", caller' = "read"
      PROVE  mtime > begun + (ms - 1) * Millisecond
  <2> USE DEF TimerInv
  <2>1. PollSleep
    BY <1>1 DEF TimerNext, timerVars, Elapse, CallWrite, MaskHi, WriteLo, WriteHi, CallRead, ReadHiBefore,
       ReadLo, ReadHiAfter, Compare, Return, CallSleep, StartSleep, PollSleep, sleepVars
  <2>2. pc = "return" /\ ~Asleep
    BY <1>1, <2>1 DEF PollSleep
  <2>3. PICK now \in called .. mtime : TicksMs = (now \div Millisecond) % MsWrap
    BY <1>1, <2>2, ReadFacts
  <2>4. PICK t \in begun .. called : start = (t \div Millisecond) % MsWrap
    BY <1>1 DEF Began
  <2>5. /\ begun \in Nat /\ mtime \in Nat /\ called \in Nat /\ ms \in Nat
        /\ now \in Nat /\ t \in Nat /\ t <= now /\ begun <= t /\ now <= mtime
    BY <1>1, <2>3, <2>4 DEF Began, TimerTyped
  <2>6. /\ now \div Millisecond \in Nat /\ t \div Millisecond \in Nat
        /\ t \div Millisecond <= now \div Millisecond
    BY <2>5, SleepAssumption
  <2>7. ((now \div Millisecond) - (t \div Millisecond)) % MsWrap = (TicksMs - start) % MsWrap
    BY <2>3, <2>4, <2>6, WrapFacts, SleepAssumption
  <2>8. (TicksMs - start) % MsWrap >= ms
    <3>1. (now \div Millisecond) - (t \div Millisecond) \in Int
      BY <2>6
    <3>2. (TicksMs - start) % MsWrap \in Nat
      BY <2>7, <3>1, SleepAssumption
    <3> QED
      BY <2>2, <2>5, <3>2 DEF Asleep
  <2>9. now > t + (ms - 1) * Millisecond
    BY <2>5, <2>7, <2>8, PeriodFacts
  <2>10. (ms - 1) * Millisecond \in Int
    BY <2>5, SleepAssumption
  <2> QED
    BY <2>5, <2>9, <2>10
<1> QED
  BY <1>1, TimerInvariance, PTL DEF TimerSpec, SleepLasts
=============================================================================
