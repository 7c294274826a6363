----------------------------- MODULE Interrupts -----------------------------
(***************************************************************************)
(* External interrupts from the device to the handler and back: the UART's *)
(* receive queue and the DMA's interrupt line, the PLIC that latches them, *)
(* the mip register of the hart (rtl/interrupt_unit.sv), and a program     *)
(* that polls the UART with phase8/software/uart.c and takes interrupts    *)
(* with the helpers of phase8/software/interrupts.h: claim, serve,         *)
(* complete.  The repository has no handler; this is the one its helpers   *)
(* are made for.                                                           *)
(*                                                                         *)
(* An interrupt completes the instruction in EX and resumes after it       *)
(* (cpu_top_soc.sv:1444-1446), so a load or store of the program that is   *)
(* in EX then still reaches the bus, before the handler's first access.    *)
(***************************************************************************)
EXTENDS Plic, UartReceiver, Sequences

CONSTANTS
  Byte,    \* what a received byte can be
  Setting  \* the register writes the program makes to the PLIC

VARIABLES
  tState, tReply,  \* target_state
  dmaIrq,          \* the DMA's irq output, high until STATUS is written
  mip,             \* mip_reg[11]
  main,            \* the next bus access of the program, "run" between two
  handler,         \* the next bus access of the handler, "none" outside it
  source,          \* what the handler claimed
  access,          \* the access on the bus, None when there is none
  lastByte         \* history: the byte read from the UART last

cpuVars == <<main, handler, source, access>>
vars == <<plicVars, uartVars, tState, tReply, dmaIrq, mip, cpuVars, lastByte>>

Target == INSTANCE BusTarget WITH
  Ddr <- {}, Value <- {}, Request <- {}, state <- tState, reply <- tReply

Uart == 1
Dma == 2  \* 5 in the SoC; sources 2 to 4 are tied low

\* The program sets up the PLIC with plic_priority_set(), plic_source_enable() and
\* plic_threshold_set(); it claims and completes nothing itself.
ASSUME SettingAssumption ==
  /\ {Uart, Dma} \subseteq Source
  /\ \A s \in Setting :
       \/ s.register = "ENABLE"
       \/ s.register = "PRIORITY" /\ s.value[2] \in Priority
       \/ s.register = "THRESHOLD" /\ s.value \in Priority

\* plic_sources
Lines == (IF RxValid THEN {Uart} ELSE {}) \cup (IF dmaIrq THEN {Dma} ELSE {})

-----------------------------------------------------------------------------
(***************************************************************************)
(* The program and its handler.                                            *)
(***************************************************************************)
Load(by, register) == [by |-> by, register |-> register, write |-> FALSE, value |-> 0,
                       bytes |-> {}, legal |-> TRUE]
Store(by, register, value) == [Load(by, register) EXCEPT !.write = TRUE, !.value = value]

MainAccess ==
  IF main = "setting" THEN {Store("main", s.register, s.value) : s \in Setting}
  ELSE {Load("main", IF main = "status" THEN "UART_STATUS" ELSE "UART_RX")}

\* plic_claim(), then uart_kbhit() and uart_getc() for the UART or a write to
\* the DMA's STATUS, then plic_complete().
HandlerAccess ==
  CASE handler = "claim" -> Load("handler", "CLAIM")
    [] handler = "status" -> Load("handler", "UART_STATUS")
    [] handler = "read" -> Load("handler", "UART_RX")
    [] handler = "ack" -> Store("handler", "DMA_STATUS", 0)
    [] handler = "complete" -> Store("handler", "CLAIM", source)

\* uart_getc() reads the data register only after it has seen RX_VALID.
MainAfter(reply) == IF main = "status" /\ reply THEN "read" ELSE "run"

\* Mutant: the handler reads a byte without asking for the status.
HandlerAfterBlind(reply) ==
  CASE handler = "claim" -> IF reply = Uart THEN "read"
                            ELSE IF reply = Dma THEN "ack" ELSE "complete"
    [] handler \in {"status", "read", "ack"} -> "complete"
    [] handler = "complete" -> "none"

HandlerAfter(reply) ==
  CASE handler = "claim" -> IF reply = Uart THEN "status"
                            ELSE IF reply = Dma THEN "ack" ELSE "complete"
    [] handler = "status" -> IF reply THEN "read" ELSE "complete"
    [] handler \in {"read", "ack"} -> "complete"
    [] handler = "complete" -> "none"

\* An instruction without a bus access.  A pending interrupt is taken after it.
Run ==
  /\ handler = "none" /\ access = None
  /\ IF mip THEN handler' = "claim" /\ UNCHANGED main
            ELSE UNCHANGED handler /\ main' \in IF main = "run"
                                                  THEN {"run", "status", "setting"}
                                                  ELSE {main}
  /\ UNCHANGED <<source, access>>

\* A load or store of the program, after which an interrupt is taken.
IssueMain ==
  /\ handler = "none" /\ main # "run" /\ access = None
  /\ access' \in MainAccess
  /\ handler' = IF mip THEN "claim" ELSE "none"
  /\ UNCHANGED <<main, source>>

IssueHandler ==
  /\ handler # "none" /\ access = None
  /\ access' = HandlerAccess
  /\ UNCHANGED <<main, handler, source>>

AwaitAnswer ==
  /\ access # None /\ Target!Response = None
  /\ UNCHANGED cpuVars

\* The access is the handler's; one issued before the trap is the program's.
OfHandler == access # None /\ access.by = "handler"

Answer ==
  /\ access # None /\ Target!Response # None
  /\ access' = None
  /\ IF OfHandler
       THEN /\ handler' = HandlerAfter(tReply)
            /\ source' = IF handler = "claim" THEN tReply ELSE source
            /\ UNCHANGED main
       ELSE main' = MainAfter(tReply) /\ UNCHANGED <<handler, source>>

CpuStep == Run \/ IssueMain \/ IssueHandler \/ AwaitAnswer \/ Answer

-----------------------------------------------------------------------------
(***************************************************************************)
(* The bus.  A load of the data register waits while the queue is empty.   *)
(***************************************************************************)
Stalled == Reads(access, "UART_RX") /\ Target!Idle /\ ~RxValid

Offered == access # None /\ Target!Idle /\ ~Stalled

ReadValue(register) ==
  CASE register = "CLAIM" -> ClaimId
    [] register = "UART_STATUS" -> RxValid
    [] register = "UART_RX" -> RxData

AnswerTo(taken) == IF taken = None \/ taken.write THEN 0 ELSE ReadValue(taken.register)

\* One rising edge.  Another master may keep the bus from taking an access, a
\* `byte' may arrive on the serial line, and the DMA may end a transfer.
Edge(willing, arrives, byte, ends) ==
  \E taken \in {IF Offered /\ willing THEN access ELSE None} :
    /\ Clock(Lines, taken)
    /\ UartClock(arrives, byte, Reads(taken, "UART_RX"))
    /\ Target!Clock(taken, AnswerTo(taken), None, Target!Response # None)
    /\ CpuStep
    /\ dmaIrq' = (ends \/ (dmaIrq /\ ~Writes(taken, "DMA_STATUS")))
    /\ mip' = ExternalIrq
    /\ lastByte' = IF Reads(taken, "UART_RX") THEN RxData ELSE lastByte

InterruptsInit ==
  /\ Init
  /\ UartInit
  /\ Target!Init
  /\ dmaIrq = FALSE /\ mip = FALSE
  /\ main = "run" /\ handler = "none" /\ source = 0 /\ access = None
  /\ lastByte = None

Next ==
  \E arrives, ends \in BOOLEAN, willing \in IF Offered THEN BOOLEAN ELSE {FALSE} :
    \E byte \in IF arrives THEN Byte ELSE {0} : Edge(willing, arrives, byte, ends)

Spec == InterruptsInit /\ [][Next]_vars

\* The clock runs and the fabric takes in the end what it is offered.
Fairness == WF_vars(Next) /\ []<>(~Offered)

FairSpec == Spec /\ Fairness

-----------------------------------------------------------------------------
(***************************************************************************)
(* A source is served once for each claim: it is not latched again while   *)
(* its handler runs, what is in service is what the handler claimed, and   *)
(* no source is left in service (and so deaf for good) when it returns,    *)
(* also when the claim found nothing because the program had just masked   *)
(* the source.                                                             *)
(***************************************************************************)
ServedOnce ==
  /\ pending \cap inService = {}
  /\ handler = "none" => inService = {}
  /\ handler \in {"status", "read", "ack"} => inService = {source}

(***************************************************************************)
(* The handler never hangs the hart on an empty receive queue: a claim may *)
(* be stale, because the program has read the byte by then, and only the   *)
(* status tells.                                                           *)
(***************************************************************************)
HandlerNeverStalls == OfHandler => ~Stalled

\* The receive queue is the queue ByteQueue describes.
Queue == [i \in 1 .. rxCount |-> rxFifo[(rxReadPtr + i - 1) % FifoDepth]]

Abstract == INSTANCE ByteQueue WITH
  Capacity <- FifoDepth, Nothing <- None, queue <- Queue, lost <- rxOverflow, got <- lastByte

ImplementsByteQueue == Abstract!Spec

\* s is enabled, above the threshold, and goes before every other enabled source.
Foremost(s) ==
  /\ s \in enable /\ irqPriority[s] > threshold
  /\ \A t \in enable : Before(s, t)

(***************************************************************************)
(* No event is lost between the device and the handler: when the line of   *)
(* the foremost source goes high, be it while the source is in service or  *)
(* on the very edge of its claim or completion, it is claimed again,       *)
(* unless the program hangs on the empty queue.                            *)
(***************************************************************************)
ForemostIsServed ==
  \A s \in Source :
    <>[]Foremost(s) /\ []<>~Stalled =>
      (s \in Lines ~> s \in inService)
=============================================================================
