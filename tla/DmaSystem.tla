------------------------------ MODULE DmaSystem ------------------------------
(***************************************************************************)
(* The DMA engine at work: the CPU that programs it with the helpers of    *)
(* phase8/software/dma.h, the arbiter and the target of soc_core_txn.sv,   *)
(* a local memory, and the UART's data registers, which stall the bus      *)
(* while there is nothing to read or no room to write.  No data cache: the *)
(* masters reach the arbiter directly (LOCAL_DCACHE = 0).                  *)
(***************************************************************************)
EXTENDS Integers, Sequences, FiniteSets

CONSTANTS
  None,
  Memory,     \* the addresses of BRAM
  PowerUp,    \* its contents
  Rx, Tx,     \* the addresses of the UART's data registers
  DmaWindow,
  Job,        \* the transfers the program asks for
  FifoDepth   \* RX_FIFO_DEPTH

ASSUME NoneAssumption == None \notin 0 .. 3

\* The decode tells BRAM, the UART's data registers and the engine's own apart.
ASSUME MemoryAssumption ==
  /\ Memory \subseteq Nat /\ {Rx, Tx} \subseteq Nat /\ DmaWindow \subseteq Nat
  /\ Rx # Tx /\ {Rx, Tx} \cap (Memory \cup DmaWindow) = {} /\ Memory \cap DmaWindow = {}
  /\ PowerUp = [a \in Memory |-> PowerUp[a]]

\* n bytes from an address on.
Extent(address, n) == address .. address + n - 1

(***************************************************************************)
(* Jobs are what dma.h asks for: memory is walked through and the UART's   *)
(* registers are not; an address that nothing answers to may be asked for  *)
(* too.  Only dma_copy() waits.  No job overwrites what a job reads, so    *)
(* that PowerUp remains what is to be copied.                              *)
(***************************************************************************)
ASSUME JobAssumption ==
  \A j \in Job :
    /\ {j.source, j.destination, j.length} \subseteq Nat /\ j.width \in 0 .. 3
    /\ {j.sourceIncrement, j.destinationIncrement, j.irqEnable, j.waits} \subseteq BOOLEAN
    /\ \/ j.source \in Memory /\ Extent(j.source, j.length) \subseteq Memory /\ j.sourceIncrement
       \/ j.source = Rx /\ ~j.sourceIncrement /\ j.width \in {0, 3}
       \/ j.source \notin Memory \cup {Rx, Tx}
    /\ \/ /\ j.destination \in Memory /\ Extent(j.destination, j.length) \subseteq Memory
          /\ j.destinationIncrement
       \/ j.destination = Tx /\ ~j.destinationIncrement /\ j.width \in {0, 3}
       \/ j.destination \notin Memory \cup {Rx, Tx}
    /\ j.waits => {j.source, j.destination} \subseteq Memory
    /\ \A i \in Job :
         Extent(i.destination, i.length) \cap Extent(j.source, j.length) \cap Memory = {}

VARIABLES
  sourceReg, destinationReg, lengthReg, dState, currentSource, currentDestination,
  remaining, transferred, readBuffer, width, sourceIncrement, destinationIncrement,
  irqEnable, done, error, irq,                 \* u_dma
  owner, lastOwner,                            \* u_bus_arbiter
  tState, tReply,                              \* target_state
  pc, job,      \* where the program is, and the transfer it is setting up
  cpuReq,       \* the access it holds on the bus, None when there is none
  fetchReq,     \* the instruction fetch on the bus, None when there is none
  mem,
  rxCount,      \* bytes in the receive FIFO
  txReady,
  popped, sent  \* history of this transfer: bytes read from Rx, written to Tx

dmaRegs == <<sourceReg, destinationReg, lengthReg, dState, currentSource,
  currentDestination, remaining, transferred, readBuffer, width, sourceIncrement,
  destinationIncrement, irqEnable, done, error, irq>>
vars == <<dmaRegs, owner, lastOwner, tState, tReply, pc, job, cpuReq, fetchReq,
          mem, rxCount, txReady, popped, sent>>

Engine == INSTANCE DmaController WITH state <- dState
Arbiter == INSTANCE BusArbiter WITH
  Byte <- Memory, Ddr <- {}, Value <- {}, Request <- {}
Target == INSTANCE BusTarget WITH
  Byte <- Memory, Ddr <- {}, Value <- {}, Request <- {}, state <- tState, reply <- tReply

Cpu == 0
Fetch == 2
Dma == 3

\* What the k-th byte received in a transfer is, k counted from 0.
Received(k) == 10 + k

-----------------------------------------------------------------------------
(***************************************************************************)
(* The program: dma_start(), dma_wait() and dma_abort(), and a stray write *)
(* to a configuration register.                                            *)
(***************************************************************************)
Read(register) == [write |-> FALSE, register |-> register, value |-> None,
                   bytes |-> DmaWindow, legal |-> TRUE]
Write(register, value) == [Read(register) EXCEPT !.write = TRUE, !.value = value]

Control(j, start) ==
  [start |-> start, abort |-> ~start, width |-> j.width, irqEnable |-> j.irqEnable,
   sourceIncrement |-> j.sourceIncrement, destinationIncrement |-> j.destinationIncrement]

\* The access each place of the program makes.
Access ==
  [poll |-> Read("STATUS"), clear |-> Write("STATUS", {"DONE", "ERROR", "IRQ"}),
   source |-> Write("SRC", job.source), destination |-> Write("DST", job.destination),
   length |-> Write("LENGTH", job.length), control |-> Write("CONTROL", Control(job, TRUE)),
   wait |-> Read("STATUS"), abort |-> Write("CONTROL", Control(job, FALSE)),
   stray |-> Write("LENGTH", 1)]

\* Where it goes with the answer.
NextPc(reply) ==
  [poll |-> IF "BUSY" \in reply.data THEN "poll" ELSE "clear",
   clear |-> "source", source |-> "destination", destination |-> "length",
   length |-> "control", control |-> IF job.waits THEN "wait" ELSE "idle",
   wait |-> IF "BUSY" \in reply.data THEN "wait" ELSE "idle",
   abort |-> "idle", stray |-> "idle"][pc]

BusResponse == Target!Response

\* The program calls a helper, makes its access, or receives the answer.
CpuStep(granted) ==
  \/ /\ pc = "idle"
     /\ \/ pc' = "poll" /\ job' \in Job
        \/ pc' \in {"abort", "stray"} /\ UNCHANGED job
        \/ UNCHANGED <<pc, job>>
     /\ UNCHANGED cpuReq
  \/ /\ pc # "idle" /\ cpuReq = None /\ owner # Cpu
     /\ cpuReq' = Access[pc]
     /\ UNCHANGED <<pc, job>>
  \/ /\ cpuReq # None
     /\ cpuReq' = IF granted THEN None ELSE cpuReq
     /\ UNCHANGED <<pc, job>>
  \/ /\ owner = Cpu
     /\ pc' = IF BusResponse = None THEN pc ELSE NextPc(BusResponse)
     /\ UNCHANGED <<job, cpuReq>>

FetchStep(granted) ==
  fetchReq' \in IF granted THEN {None} ELSE IF fetchReq # None THEN {fetchReq}
                ELSE {None, [write |-> FALSE, bytes |-> Memory, data |-> None, legal |-> TRUE]}

-----------------------------------------------------------------------------
(***************************************************************************)
(* The fabric.                                                             *)
(***************************************************************************)
Presented == [m \in Arbiter!Master |->
  IF m = Cpu THEN cpuReq ELSE IF m = Fetch THEN fetchReq
  ELSE IF m = Dma THEN Engine!MemRequest ELSE None]

Chosen == Arbiter!Chosen(Presented)

\* target_endpoint_ready: the UART's data registers stall the access.
EndpointReady(req) ==
  /\ req.bytes = {Rx} /\ ~req.write => rxCount > 0
  /\ req.bytes = {Tx} /\ req.write => txReady

\* The master whose request is taken on this edge.
Granted ==
  IF Target!Idle /\ Chosen # None /\ EndpointReady(Presented[Chosen]) THEN Chosen ELSE None

Mapped(req) == \/ req.bytes \subseteq Memory \/ req.bytes \subseteq {Rx} \cup {Tx}
               \/ req.bytes \subseteq DmaWindow

\* The STATUS bits the program looks at.
Status == (IF Engine!Busy THEN {"BUSY"} ELSE {}) \cup (IF error # "NONE" THEN {"ERROR"} ELSE {})

\* What the target answers to an access; the data of a beat is counted from 0.
First(req) == CHOOSE b \in req.bytes : \A c \in req.bytes : b <= c

Answer(req) ==
  [err |-> ~Mapped(req),
   data |-> IF ~Mapped(req) \/ req.write THEN {}
            ELSE IF req.bytes = DmaWindow THEN Status
            ELSE IF req.bytes = {Rx} THEN <<Received(popped)>>
            ELSE [i \in 1 .. Cardinality(req.bytes) |-> mem[First(req) + i - 1]]]

\* What the access does to the memory.
Store(req) ==
  mem' = IF req # None /\ req.write /\ req.bytes \subseteq Memory
           THEN [a \in Memory |-> IF a \in req.bytes
                                  THEN req.data[a - First(req) + 1] ELSE mem[a]]
           ELSE mem

\* What it does to the UART.  A byte may arrive, unless the FIFO is full, and
\* the transmitter may finish the byte it has.
UartStep(req, arrives, drains) ==
  LET pops == req # None /\ req.bytes = {Rx} /\ ~req.write
      sends == req # None /\ req.bytes = {Tx} /\ req.write
  IN /\ rxCount' = rxCount - (IF pops THEN 1 ELSE 0)
                   + (IF arrives /\ (rxCount < FifoDepth \/ pops) THEN 1 ELSE 0)
     /\ txReady' = (~sends /\ (txReady \/ drains))
     /\ popped' = IF ~Engine!Busy' THEN 0 ELSE IF pops THEN popped + 1 ELSE popped
     /\ sent' = IF ~Engine!Busy' THEN <<>> ELSE IF sends THEN sent \o req.data ELSE sent

Edge(arrives, drains) ==
  \E granted \in {Granted} :
    LET req == IF granted = None THEN None ELSE Presented[granted]
        register == IF granted = Cpu /\ req.write THEN req ELSE None
        toDma == IF owner = Dma THEN BusResponse ELSE None
    IN /\ Engine!Clock(register, granted = Dma, toDma)
       /\ Arbiter!Clock(granted, BusResponse # None)
       /\ Target!Clock(req, IF req = None THEN None ELSE Answer(req), None, BusResponse # None)
       /\ CpuStep(granted = Cpu)
       /\ FetchStep(granted = Fetch)
       /\ Store(req)
       /\ UartStep(req, arrives, drains)

Init ==
  /\ Engine!Init /\ Arbiter!Init /\ Target!Init
  /\ pc = "idle" /\ job \in Job /\ cpuReq = None /\ fetchReq = None
  /\ mem = PowerUp
  /\ rxCount = 0 /\ txReady = TRUE /\ popped = 0 /\ sent = <<>>

Next == \E arrives, drains \in BOOLEAN : Edge(arrives, drains)

Spec == Init /\ [][Next]_vars

\* The clock runs and the transmitter drains; no byte need arrive.
Fairness == WF_vars(Edge(FALSE, TRUE))

FairSpec == Spec /\ Fairness

-----------------------------------------------------------------------------
(***************************************************************************)
(* An access of the engine is outstanding exactly while the engine waits   *)
(* for one: an abort never leaves the fabric locked by a response nobody   *)
(* takes, and a new transfer is never answered with the data of an old     *)
(* one.                                                                    *)
(***************************************************************************)
NoOrphan == owner = Dma <=> Engine!MemRspReady

\* The k-th byte of the transfer under way, k counted from 0.
SourceByte(k) == IF sourceReg = Rx THEN Received(k) ELSE PowerUp[sourceReg + k]

\* How many bytes have been read from Rx, and written to Tx, and not counted yet.
Unread == IF dState \in {"ST_READ_WAIT", "ST_WRITE_REQUEST", "ST_WRITE_WAIT"} THEN 1 ELSE 0
Unwritten == IF dState = "ST_WRITE_WAIT" THEN 1 ELSE 0

(***************************************************************************)
(* What the progress registers say is what has happened: transferred and   *)
(* remaining add up, the destination holds that many bytes of the source,  *)
(* and the UART lost and repeated none, whatever was aborted, misprogrammed*)
(* or written to the registers meanwhile.                                  *)
(***************************************************************************)
ProgressIsTrue ==
  Engine!Busy =>
    /\ transferred + remaining = lengthReg
    /\ destinationReg \in Memory => \A k \in 0 .. transferred - 1 :
         destinationReg + k \in Memory => mem[destinationReg + k] = SourceByte(k)
    /\ destinationReg = Tx =>
         /\ Len(sent) = transferred + Unwritten
         /\ \A k \in 1 .. Len(sent) : sent[k] = SourceByte(k - 1)
    /\ sourceReg = Rx => popped = transferred + Unread

(***************************************************************************)
(* A transfer that ends leaves either done or one error behind, and raises *)
(* the interrupt if and only if it was asked for.                          *)
(***************************************************************************)
EndsAreReported ==
  [][Engine!Busy /\ ~Engine!Busy' => done' = (error' = "NONE") /\ irq' = irqEnable]_vars

(***************************************************************************)
(* When dma_copy() returns 0 the destination holds the whole of the source *)
(* (the status it read was taken three cycles earlier).                    *)
(***************************************************************************)
WaitMeansCopied ==
  [][pc = "wait" /\ pc' = "idle" /\ "ERROR" \notin tReply.data =>
       \A k \in 0 .. job.length - 1 : mem[job.destination + k] = PowerUp[job.source + k]]_vars

(***************************************************************************)
(* If bytes go on arriving, every transfer ends and every access of the    *)
(* CPU is taken.                                                           *)
(***************************************************************************)
TransfersEnd ==
  []<>(rxCount > 0) => /\ Engine!Busy ~> ~Engine!Busy
                       /\ cpuReq # None ~> cpuReq = None

(***************************************************************************)
(* "CPU/host accesses have priority" (phase8/README.md:119): the CPU is    *)
(* not kept off the bus by what the DMA waits for.                         *)
(***************************************************************************)
CpuHasPriority == cpuReq # None ~> cpuReq = None
=============================================================================
