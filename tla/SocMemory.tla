------------------------------ MODULE SocMemory ------------------------------
(***************************************************************************)
(* The memory system of the throughput build (LOCAL_DCACHE = 1,            *)
(* BUFFER_WRITES = 1) of phase8/rtl/soc_core_txn.sv: the CPU's data cache  *)
(* and store buffer in front of the arbiter, the page-table walker, the    *)
(* instruction fetch and the DMA controller beside them, one target and    *)
(* the external memory below.  Every component takes its step on the same  *)
(* clock edge; this module is the wiring between them.                     *)
(*                                                                         *)
(* The walker and the DMA ("agents") own the memory exclusively: a pending *)
(* agent stops new CPU requests and drops the cached lines, and is granted *)
(* the arbiter only when the cache is idle and the store buffer drained.   *)
(***************************************************************************)
EXTENDS Integers, Sequences, Bus

CONSTANTS
  Depth, Word, Index, IndexOf, FastHit,
  CpuRequest, WalkerRequest, FetchRequest, DmaRequest,  \* what each master asks
  PowerUp,  \* contents the memory may have at power-up
  Ready     \* values of ext_mem_ready: BOOLEAN, or {TRUE} once calibrated

ASSUME ShapeAssumption ==
  /\ Depth \in Nat \ {0} /\ FastHit \in BOOLEAN /\ Ready \subseteq BOOLEAN
  /\ PowerUp \subseteq [Byte -> Value]
  /\ None \notin 0 .. 3

ASSUME WordAssumption ==
  /\ UNION Word = Ddr
  /\ \A v, w \in Word : v # w => v \cap w = {}
  /\ IndexOf \in [Word -> Index]

\* An access covers some byte; a fetch writes nothing (cpu_top_soc.sv:248 ties ibus_req_write to 0).
ASSUME MasterAssumption ==
  /\ CpuRequest \cup WalkerRequest \cup FetchRequest \cup DmaRequest \subseteq Request
  /\ \A req \in CpuRequest : req.bytes # {}
  /\ \A req \in FetchRequest : ~req.write

VARIABLES
  cState, lines, held, line, writeHit, poisoned, cRsp,          \* u_cache
  slots, head, tail, count, bState, direct, bRsp, fault,        \* u_buffer
  owner, lastOwner,                                             \* u_bus_arbiter
  tState, tReply,                                               \* target_state
  agentActive,
  cpuReq, walkerReq, fetchReq, dmaReq,  \* the request each master holds, or None
  atMemory,                             \* the request the external memory performs
  ddr                                   \* its contents, and the registers behind MMIO

cacheRegs == <<cState, lines, held, line, writeHit, poisoned, cRsp>>
bufferRegs == <<slots, head, tail, count, bState, direct, bRsp, fault>>
vars == <<cacheRegs, bufferRegs, owner, lastOwner, tState, tReply, agentActive,
          cpuReq, walkerReq, fetchReq, dmaReq, atMemory, ddr>>

Cache == INSTANCE DdrCache WITH state <- cState, rsp <- cRsp
Buffer == INSTANCE WriteBuffer WITH state <- bState, rsp <- bRsp
Arbiter == INSTANCE BusArbiter
Target == INSTANCE BusTarget WITH state <- tState, reply <- tReply

Cpu == 0
Walker == 1
Fetch == 2
Dma == 3

-----------------------------------------------------------------------------
(***************************************************************************)
(* Wires.  `ready' is ext_mem_ready.                                       *)
(***************************************************************************)
AgentPending == dmaReq # None \/ walkerReq # None \/ agentActive

\* Mutant: an agent does not wait for the posted stores.
AgentGrantUndrained == Cache!Idle /\ ~fault

AgentGrant == Cache!Idle /\ Buffer!Idle /\ ~fault

\* Mutant: a fetch does not look at the fault.
InstructionGrantFaulted == count = 0

InstructionGrant == Buffer!Idle /\ ~fault

\* Mutant: the cached lines survive the agent's access.
InvalidateWithoutAgents(ready) == ~ready \/ fault

Invalidate(ready) == AgentPending \/ ~ready \/ fault

\* host_req_valid && !agent_pending
HostRequest == IF AgentPending THEN None ELSE cpuReq

HostTaken(ready) == Cache!Taken(HostRequest, Invalidate(ready))

\* The four requests at the arbiter.
Presented ==
  [m \in Arbiter!Master |->
     IF m = Cpu THEN Buffer!MemRequest
     ELSE IF m = Walker THEN IF AgentGrant THEN walkerReq ELSE None
     ELSE IF m = Fetch THEN IF InstructionGrant THEN fetchReq ELSE None
     ELSE IF AgentGrant THEN dmaReq ELSE None]

Chosen == Arbiter!Chosen(Presented)

BusRequest == IF Chosen = None THEN None ELSE Presented[Chosen]

\* bus_req_ready: the target is idle and the endpoint, be it the external
\* memory or a register, is `willing'.
TargetReady(ready, willing) ==
  /\ Target!Idle /\ BusRequest # None /\ willing
  /\ Target!External(BusRequest) => ready

\* The master whose request is taken on this edge.
Granted(ready, willing) == IF TargetReady(ready, willing) THEN Chosen ELSE None

\* The response on the bus and whether its owner takes it.  The walker, the
\* fetch and the DMA are always ready for theirs.
BusResponse == Target!Response

BusResponseTaken == BusResponse # None /\ (owner = Cpu => Buffer!MemRspReady)

ResponseTo(m) == IF owner = m THEN BusResponse ELSE None

-----------------------------------------------------------------------------
(***************************************************************************)
(* The masters: each holds a request until the arbiter takes it.  A walk   *)
(* and a fetch may be withdrawn before that (sfence, redirect).            *)
(***************************************************************************)
CpuStep(ready) ==
  cpuReq' \in IF cpuReq # None THEN {IF HostTaken(ready) THEN None ELSE cpuReq}
              ELSE IF Cache!Idle THEN CpuRequest \cup {None}
              ELSE {None}

WalkerStep(taken) ==
  walkerReq' \in IF walkerReq = None THEN WalkerRequest \cup {None}
                 ELSE IF taken THEN {None} ELSE {walkerReq, None}

FetchStep(taken) ==
  fetchReq' \in IF fetchReq = None THEN FetchRequest \cup {None}
                ELSE IF taken THEN {None} ELSE {fetchReq, None}

\* The next access of a transfer is asked for on the edge of the response.
DmaStep(taken) ==
  dmaReq' \in IF dmaReq # None THEN {IF taken THEN None ELSE dmaReq}
              ELSE IF owner = Dma /\ ~BusResponseTaken THEN {None}
              ELSE DmaRequest \cup {None}

AgentStep(taken) ==
  agentActive' = IF BusResponseTaken /\ owner \in {Walker, Dma} THEN FALSE
                 ELSE agentActive \/ taken

-----------------------------------------------------------------------------
(***************************************************************************)
(* One rising edge of clk_sys.  An access to a register is performed when  *)
(* it is taken, an access to external memory when the memory answers.      *)
(***************************************************************************)
Edge(ready, willing, local, external) ==
  \E granted \in {Granted(ready, willing)} :
    LET taken == IF granted = None THEN None ELSE Presented[granted]
    IN /\ Cache!Clock(HostRequest, TRUE, Buffer!Taken(Cache!MemRequest),
                      bRsp, Invalidate(ready))
       /\ Buffer!Clock(Cache!MemRequest, Cache!MemRspReady, granted = Cpu, ResponseTo(Cpu))
       /\ Arbiter!Clock(granted, BusResponseTaken)
       /\ Target!Clock(taken, local, external, BusResponseTaken)
       /\ atMemory' = IF taken # None /\ Target!External(taken) THEN taken
                      ELSE IF external # None THEN None ELSE atMemory
       /\ CpuStep(ready)
       /\ WalkerStep(granted = Walker)
       /\ FetchStep(granted = Fetch)
       /\ DmaStep(granted = Dma)
       /\ AgentStep(granted \in {Walker, Dma})

\* No access is performed on this edge; the external memory may take one.
QuietEdge(ready, willing) ==
  /\ willing => TargetReady(ready, TRUE) /\ Target!External(BusRequest)
  /\ Edge(ready, willing, None, None)
  /\ UNCHANGED ddr

\* A register, a peripheral or BRAM takes the access.
LocalEdge(ready) ==
  /\ TargetReady(ready, TRUE) /\ ~Target!External(BusRequest)
  /\ \E outcome \in Outcomes(ddr, BusRequest) :
       /\ Edge(ready, TRUE, outcome[2], None)
       /\ ddr' = outcome[1]

\* The external memory answers.
MemoryEdge(ready) ==
  /\ atMemory # None
  /\ \E outcome \in Outcomes(ddr, atMemory) :
       /\ Edge(ready, FALSE, None, outcome[2])
       /\ ddr' = outcome[1]

Init ==
  /\ Cache!Init /\ Buffer!Init /\ Arbiter!Init /\ Target!Init
  /\ agentActive = FALSE
  /\ cpuReq = None /\ walkerReq = None /\ fetchReq = None /\ dmaReq = None
  /\ atMemory = None
  /\ ddr \in PowerUp

Next ==
  \E ready \in Ready :
    \/ \E willing \in BOOLEAN : QuietEdge(ready, willing)
    \/ LocalEdge(ready)
    \/ MemoryEdge(ready)

Spec == Init /\ [][Next]_vars

\* The clock runs; an endpoint takes in the end what the fabric offers it, and
\* the external memory answers what it has taken.
Fairness ==
  /\ WF_vars(Next)
  /\ []<>(BusRequest = None \/ ~Target!Idle)
  /\ []<>(atMemory = None)

FairSpec == Spec /\ Fairness

-----------------------------------------------------------------------------
\* The ring from the oldest to the newest store, and the memory with it applied.
Ring == [i \in 1 .. count |-> slots[(head + i - 1) % Depth]]

Newest(b) ==
  {i \in 1 .. count : b \in Ring[i].bytes /\ \A j \in i + 1 .. count : b \notin Ring[j].bytes}

View == [b \in Byte |->
           IF Newest(b) = {} THEN ddr[b] ELSE Ring[CHOOSE i \in Newest(b) : TRUE].data]

(***************************************************************************)
(* While an agent's access is outstanding nothing of the CPU's is: no      *)
(* posted store, no cached line, no request under way, so the agent reads  *)
(* every store before it and its own stores cannot be overwritten by an    *)
(* older one (soc_core_txn.sv:225, "finish the current CPU access, drain   *)
(* posted stores, flush local lines, then hold CPU requests until          *)
(* release").                                                              *)
(***************************************************************************)
AgentsOwnMemory ==
  /\ agentActive <=> owner \in {Walker, Dma}
  /\ agentActive => Buffer!Idle /\ Cache!Idle /\ ~fault /\ lines = Cache!NoLines

(***************************************************************************)
(* The data a load delivers to the CPU is current when it is delivered:    *)
(* no other master has changed it since it was read.                       *)
(***************************************************************************)
LoadsAreCurrent ==
  LET delivered == Cache!Response(Invalidate(TRUE))
  IN delivered # None /\ ~held.write /\ ~delivered.err /\ ~fault =>
       \A b \in held.bytes : delivered.data[b] = View[b]

(***************************************************************************)
(* After a late store error the fabric is dead: no master is granted it    *)
(* again and the memory does not change (soc_core_txn.sv:253, "Latch a     *)
(* fatal condition, discard cached data, and stop all bus work").          *)
(***************************************************************************)
FaultStopsTheBus ==
  [][fault => fault' /\ owner' = None /\ ddr' = ddr /\ lines' = Cache!NoLines]_vars

(***************************************************************************)
(* Round robin starves no agent: a request of the DMA or of the walker is  *)
(* granted in the end, against a stream of fetches, of CPU accesses and of *)
(* each other (rv_bus_arbiter.sv:81, "Round-robin selection prevents a     *)
(* continuous instruction stream from starving DMA or a page-table walk"). *)
(***************************************************************************)
AgentsAreServed ==
  /\ dmaReq # None ~> dmaReq = None \/ fault
  /\ walkerReq # None ~> walkerReq = None \/ fault

(***************************************************************************)
(* The CPU gets in again whenever the agents pause, and what it asked for  *)
(* is answered.                                                            *)
(***************************************************************************)
CpuIsServed ==
  /\ []<>~AgentPending => (cpuReq # None ~> cpuReq = None \/ fault)
  /\ held # None ~> held = None
=============================================================================
