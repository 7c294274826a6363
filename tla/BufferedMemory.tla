--------------------------- MODULE BufferedMemory ---------------------------
(***************************************************************************)
(* The write buffer between its requester (the FAST_HIT data cache, which  *)
(* holds a request until it is taken and then waits for the response) and  *)
(* the fabric below it, which takes one request at a time and answers it   *)
(* any number of cycles later, perhaps with an error.                      *)
(***************************************************************************)
EXTENDS WriteBuffer, Sequences

VARIABLES
  want,      \* the request the requester holds on req_*, None when there is none
  inFlight,  \* the request the fabric is performing, None when there is none
  ddr,       \* contents of the memory below, by byte
  view       \* history: the contents the requester has been promised

envVars == <<want, inFlight, ddr, view>>
vars == <<wbVars, envVars>>

BMInit ==
  /\ Init
  /\ want = None
  /\ inFlight = None
  /\ ddr \in [Byte -> Value]
  /\ view = ddr

\* A request stays up until the edge that takes it.
RequesterHolds ==
  want' \in IF want = None THEN Request \cup {None}
            ELSE IF Taken(want) THEN {None} ELSE {want}

\* The promise moves when a store is acknowledged or a direct request answered.
Promise(reply) ==
  view' = IF Push(want) THEN Stored(view, want, want.bytes)
          ELSE IF state = "DIRECT_WAIT" /\ reply # None THEN ddr' ELSE view

\* The fabric gives no response in this cycle; it may take the request on offer.
QuietCycle(rspTaken, memTakes) ==
  /\ memTakes => MemRequest # None /\ inFlight = None
  /\ Clock(want, rspTaken, memTakes, None)
  /\ inFlight' = IF memTakes THEN MemRequest ELSE inFlight
  /\ UNCHANGED ddr
  /\ RequesterHolds
  /\ Promise(None)

\* The fabric responds to the request in flight and the buffer takes the response.
AnswerCycle(rspTaken) ==
  /\ inFlight # None /\ MemRspReady
  /\ \E outcome \in Outcomes(ddr, inFlight) :
       /\ Clock(want, rspTaken, FALSE, outcome[2])
       /\ ddr' = outcome[1]
       /\ Promise(outcome[2])
  /\ inFlight' = None
  /\ RequesterHolds

\* rst_n resets requester, buffer and fabric; the memory keeps its contents and
\* the request in flight may or may not have reached it.
SystemReset ==
  /\ Reset
  /\ ddr' \in {ddr} \cup IF inFlight = None THEN {}
                         ELSE {outcome[1] : outcome \in Outcomes(ddr, inFlight)}
  /\ view' = ddr'
  /\ want' = None /\ inFlight' = None

Next ==
  \/ \E rspTaken, memTakes \in BOOLEAN : QuietCycle(rspTaken, memTakes)
  \/ \E rspTaken \in BOOLEAN : AnswerCycle(rspTaken)
  \/ SystemReset

Spec == BMInit /\ [][Next]_vars

\* The clock runs, the fabric takes and answers what it is offered (the arbiter
\* is round robin), and the requester takes its responses (a cache in WAIT_DATA
\* is always ready).
Fairness ==
  /\ WF_vars(\E rspTaken, memTakes \in BOOLEAN : QuietCycle(rspTaken, memTakes))
  /\ WF_vars(\E rspTaken \in BOOLEAN : QuietCycle(rspTaken, TRUE))
  /\ WF_vars(\E rspTaken \in BOOLEAN : AnswerCycle(rspTaken))
  /\ WF_vars(rsp # None /\ \/ \E memTakes \in BOOLEAN : QuietCycle(TRUE, memTakes)
                           \/ AnswerCycle(TRUE))

FairSpec == Spec /\ Fairness

-----------------------------------------------------------------------------
(***************************************************************************)
(* Type invariant.                                                         *)
(***************************************************************************)
TypeOK ==
  /\ slots \in [Slot -> {r \in Request : Postable(r)} \cup {Unwritten}]
  /\ head \in Slot /\ tail \in Slot
  /\ count \in 0 .. Depth
  /\ state \in States
  /\ direct \in Request \cup {None}
  /\ rsp \in Reply \cup {None}
  /\ fault \in BOOLEAN
  /\ want \in Request \cup {None}
  /\ inFlight \in Request \cup {None}
  /\ ddr \in [Byte -> Value]
  /\ view \in [Byte -> Value]

\* The ring index of the i-th oldest posted store, i counted from 0.
Nth(i) == IF head + i < Depth THEN head + i ELSE head + i - Depth

Pending == 0 .. count - 1

\* The i-th oldest posted store covers byte b, and none after it does.
Newest(b, i) ==
  /\ b \in slots[Nth(i)].bytes
  /\ \A j \in Pending : j > i => b \notin slots[Nth(j)].bytes

Untouched(b) == \A i \in Pending : b \notin slots[Nth(i)].bytes

(***************************************************************************)
(* No posted store is lost, duplicated or reordered: draining the ring on  *)
(* top of the memory gives what the requester was promised, also while     *)
(* stores enter and leave the ring on the same edge.                       *)
(***************************************************************************)
NoLostStore ==
  ~fault => \A b \in Byte :
    /\ Untouched(b) => view[b] = ddr[b]
    /\ \A i \in Pending : Newest(b, i) => view[b] = slots[Nth(i)].data

(***************************************************************************)
(* A read or an MMIO access never overtakes a posted store: while one is   *)
(* being performed the ring is empty and the memory holds every store      *)
(* acknowledged before it (rv_write_buffer.sv:1, "Reads and MMIO wait for  *)
(* the queue to drain").                                                   *)
(***************************************************************************)
DirectSeesAllStores == DirectActive => count = 0 /\ ddr = view

(***************************************************************************)
(* After a store has failed behind its acknowledgement nothing reaches the *)
(* memory until reset, not even the stores still in the ring, and the      *)
(* fault is not forgotten.                                                 *)
(***************************************************************************)
FailStop ==
  [][fault => \/ SystemReset
              \/ fault' /\ inFlight' = None /\ UNCHANGED <<slots, head, count, ddr>>]_vars

\* The buffer is the store buffer OrderedMemory describes.
Backlog == [i \in 1 .. count |-> slots[Nth(i - 1)]]

Ordered == INSTANCE OrderedMemory WITH
  mem <- ddr, backlog <- Backlog, open <- IF DirectActive THEN direct ELSE None,
  answer <- rsp, failed <- fault

ImplementsOrderedMemory == Ordered!Spec

(***************************************************************************)
(* Every request held on the requester's side is taken in the end, and     *)
(* every posted store leaves the ring unless a fault freezes it.           *)
(***************************************************************************)
RequestsAreTaken == want # None ~> want = None

StoresLeave ==
  \A h \in Slot : (head = h /\ count > 0) ~> (head # h \/ count = 0 \/ fault)

Progress == RequestsAreTaken /\ StoresLeave

-----------------------------------------------------------------------------
(***************************************************************************)
(* What holds between the registers themselves: the inductive part of the  *)
(* invariant.                                                              *)
(***************************************************************************)

\* tail is count entries after head, and those entries have been written.
RingShape ==
  /\ tail = Nth(count)
  /\ \A i \in Pending : slots[Nth(i)] # Unwritten

\* The state machine, the ring and the fabric agree on the access under way.
OneAccess ==
  /\ state \in {"STORE_SEND", "STORE_WAIT"} => count > 0
  /\ fault => state = "IDLE"
  /\ DirectActive => direct # None /\ rsp = None /\ count = 0
  /\ state = "STORE_WAIT" => inFlight = slots[head]
  /\ state = "DIRECT_WAIT" => inFlight = direct
  /\ state \notin {"STORE_WAIT", "DIRECT_WAIT"} => inFlight = None

IInv == TypeOK /\ RingShape /\ OneAccess /\ NoLostStore
=============================================================================
