----------------------------- MODULE WriteBuffer -----------------------------
(***************************************************************************)
(* The posted-store buffer of the throughput build,                        *)
(* phase8/rtl/rv_write_buffer.sv: a ring of Depth DDR stores that are      *)
(* acknowledged at once and performed later, in order.  Reads, MMIO and    *)
(* malformed stores ("direct" requests) wait until the ring is empty.  A   *)
(* store that fails after its acknowledgement latches `fault', and from    *)
(* then on every request is answered with an error.                        *)
(*                                                                         *)
(* One step of this module is one rising clock edge.  Its inputs are the   *)
(* wires the RTL samples: the request presented by the requester, whether  *)
(* the requester takes the response, whether the memory takes the request  *)
(* of this cycle, and the memory's response.  The module leaves them       *)
(* unconstrained: BufferedMemory and SocMemory connect them.               *)
(***************************************************************************)
EXTENDS Integers, Bus

CONSTANT Depth  \* ring entries; the RTL has 4

ASSUME DepthAssumption == Depth \in Nat \ {0}

VARIABLES
  slots,   \* addresses, values, strobes and sizes: one record per entry
  head, tail, count,
  state,
  direct,  \* direct_*: the request held for a direct access
  rsp,     \* rsp_valid, rsp_rdata and rsp_err: None when not valid
  fault

wbVars == <<slots, head, tail, count, state, direct, rsp, fault>>

Slot == 0 .. Depth - 1
States == {"IDLE", "STORE_SEND", "STORE_WAIT", "DIRECT_SEND", "DIRECT_WAIT"}

\* The `postable' wire: a well-formed store that lies in DDR as a whole.
Postable(req) == req.write /\ req.legal /\ req.bytes \subseteq Ddr

\* Contents of a ring entry that was never written: the arrays have no reset.
Unwritten == None

\* head+1 and tail+1 in two bits: the pointers wrap at the end of the ring.
After(i) == IF i = Depth - 1 THEN 0 ELSE i + 1

\* What rst_n establishes.  The arrays keep their contents.
ResetRegisters(newHead, newTail, newCount, newState, newDirect, newRsp, newFault) ==
  /\ newHead = 0 /\ newTail = 0 /\ newCount = 0
  /\ newState = "IDLE"
  /\ newDirect = None
  /\ newRsp = None
  /\ newFault = FALSE

Init ==
  /\ slots = [i \in Slot |-> Unwritten]
  /\ ResetRegisters(head, tail, count, state, direct, rsp, fault)

Reset ==
  /\ ResetRegisters(head', tail', count', state', direct', rsp', fault')
  /\ UNCHANGED slots

-----------------------------------------------------------------------------
(***************************************************************************)
(* Wires.                                                                  *)
(***************************************************************************)
DirectActive == state \in {"DIRECT_SEND", "DIRECT_WAIT"}

\* Mutant: after a fault nothing is taken, instead of taken and refused.
ReqReadyUnlessFault(req) ==
  /\ rsp = None
  /\ ~DirectActive
  /\ ~fault
  /\ IF Postable(req) THEN count < Depth ELSE count = 0 /\ state = "IDLE"

ReqReady(req) ==
  /\ rsp = None
  /\ ~DirectActive
  /\ \/ fault
     \/ IF Postable(req) THEN count < Depth ELSE count = 0 /\ state = "IDLE"

\* A request is taken on the edge at which valid and ready are both high.
Taken(req) == req # None /\ ReqReady(req)

\* Mutant: stores go on entering the ring after a fault.
PushFaulted(req) == Taken(req) /\ Postable(req)

Push(req) == Taken(req) /\ Postable(req) /\ ~fault
Pop(reply) == state = "STORE_WAIT" /\ reply # None

Idle == count = 0 /\ state = "IDLE" /\ rsp = None

\* The memory-side request, None while mem_req_valid is low.
MemRequest ==
  IF ~fault /\ state = "STORE_SEND" THEN slots[head]
  ELSE IF ~fault /\ state = "DIRECT_SEND" THEN direct
  ELSE None

MemRspReady == state \in {"STORE_WAIT", "DIRECT_WAIT"}

-----------------------------------------------------------------------------
(***************************************************************************)
(* The requester's side of a clock edge.  Exactly one of these happens.    *)
(***************************************************************************)

\* No request is taken; a valid response leaves if the requester is ready.
Hold(req, rspTaken, reply) ==
  /\ ~Taken(req)
  /\ ~(state = "DIRECT_WAIT" /\ reply # None)
  /\ rsp' = IF rspTaken THEN None ELSE rsp
  /\ UNCHANGED <<slots, tail, direct>>

\* Mutant: the error bit is left clear.
RefuseSilently(req) ==
  /\ Taken(req) /\ fault
  /\ rsp' = Blank(FALSE)
  /\ UNCHANGED <<slots, tail, direct>>

\* After a fault: answered with an error, never performed.
Refuse(req) ==
  /\ Taken(req) /\ fault
  /\ rsp' = Blank(TRUE)
  /\ UNCHANGED <<slots, tail, direct>>

\* A posted store enters the ring and is acknowledged at once.
Post(req) ==
  /\ Push(req)
  /\ slots' = [slots EXCEPT ![tail] = req]
  /\ tail' = After(tail)
  /\ rsp' = Blank(FALSE)
  /\ UNCHANGED direct

\* Any other request is held until the memory has answered it.
OpenDirect(req) ==
  /\ Taken(req) /\ ~fault /\ ~Postable(req)
  /\ direct' = req
  /\ UNCHANGED <<slots, tail, rsp>>

\* The memory's answer to the direct request becomes the response.
CloseDirect(reply) ==
  /\ state = "DIRECT_WAIT" /\ reply # None
  /\ rsp' = reply
  /\ UNCHANGED <<slots, tail, direct>>

RequesterSide(req, rspTaken, reply) ==
  \/ Hold(req, rspTaken, reply)
  \/ Refuse(req)
  \/ Post(req)
  \/ OpenDirect(req)
  \/ CloseDirect(reply)

(***************************************************************************)
(* The memory's side of the same edge: the state machine, head, fault.     *)
(***************************************************************************)
Rest(req) ==
  /\ state = "IDLE"
  /\ count = 0 \/ fault
  /\ state' = IF Taken(req) /\ ~fault /\ ~Postable(req)
                THEN "DIRECT_SEND" ELSE "IDLE"
  /\ UNCHANGED <<head, fault>>

\* Mutant: the ring drains only once it is full.
IssueWhenFull ==
  /\ state = "IDLE" /\ count = Depth /\ ~fault
  /\ state' = "STORE_SEND"
  /\ UNCHANGED <<head, fault>>

Issue ==
  /\ state = "IDLE" /\ count # 0 /\ ~fault
  /\ state' = "STORE_SEND"
  /\ UNCHANGED <<head, fault>>

Send(memTakes) ==
  /\ state \in {"STORE_SEND", "DIRECT_SEND"}
  /\ state' = IF ~memTakes THEN state
              ELSE IF state = "STORE_SEND" THEN "STORE_WAIT" ELSE "DIRECT_WAIT"
  /\ UNCHANGED <<head, fault>>

Await(reply) ==
  /\ MemRspReady /\ reply = None
  /\ UNCHANGED <<state, head, fault>>

\* Mutant: a late error is not latched.
RetireStoreUnchecked(reply) ==
  /\ Pop(reply)
  /\ state' = "IDLE"
  /\ head' = After(head)
  /\ UNCHANGED fault

\* The oldest store is done.  An error can only be latched: its CPU
\* instruction has retired long ago.
RetireStore(reply) ==
  /\ Pop(reply)
  /\ state' = "IDLE"
  /\ head' = After(head)
  /\ fault' = (fault \/ reply.err)

RetireDirect(reply) ==
  /\ state = "DIRECT_WAIT" /\ reply # None
  /\ state' = "IDLE"
  /\ UNCHANGED <<head, fault>>

MemorySide(req, memTakes, reply) ==
  \/ Rest(req)
  \/ Issue
  \/ Send(memTakes)
  \/ Await(reply)
  \/ RetireStore(reply)
  \/ RetireDirect(reply)

\* Mutant: a pop on the edge of a push wins.
CountPopWins(req, reply) ==
  count' = IF Pop(reply) THEN count - 1 ELSE IF Push(req) THEN count + 1 ELSE count

Count(req, reply) ==
  count' = IF Push(req) = Pop(reply) THEN count
           ELSE IF Push(req) THEN count + 1 ELSE count - 1

\* One rising edge of the clock with these inputs.
Clock(req, rspTaken, memTakes, reply) ==
  /\ RequesterSide(req, rspTaken, reply)
  /\ MemorySide(req, memTakes, reply)
  /\ Count(req, reply)
=============================================================================
