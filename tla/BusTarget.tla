------------------------------ MODULE BusTarget ------------------------------
(***************************************************************************)
(* The target side of the fabric, soc_core_txn.sv: an access to a register *)
(* or to BRAM is performed on the edge that takes it and answered two      *)
(* cycles later; an access to external memory waits for the memory.        *)
(***************************************************************************)
EXTENDS Integers, Bus

VARIABLES
  state,  \* target_state
  reply   \* target_read_hold, then target_rsp_data and target_rsp_error

targetVars == <<state, reply>>

TargetStates == {"TARGET_IDLE", "TARGET_WAIT", "TARGET_RESPONSE", "TARGET_EXTERNAL"}

Init == state = "TARGET_IDLE" /\ reply = None

Reset == state' = "TARGET_IDLE" /\ reply' = None

\* sel_ext and a legal size: the decode looks at the first byte only.
External(req) ==
  req.legal /\ \E b \in req.bytes \cap Ddr : \A c \in req.bytes : b <= c

Idle == state = "TARGET_IDLE"

\* bus_rsp_*, None while bus_rsp_valid is low.
Response == IF state = "TARGET_RESPONSE" THEN reply ELSE None

\* ddr_rsp_ready
MemRspReady == state = "TARGET_EXTERNAL"

\* `taken' is the request accepted on this edge, None when there is none;
\* `local' is what the selected register or BRAM answers to it.
Accept(taken, local) ==
  /\ Idle /\ taken # None
  /\ state' = IF External(taken) THEN "TARGET_EXTERNAL" ELSE "TARGET_WAIT"
  /\ reply' = IF External(taken) THEN None ELSE local

Rest(taken) ==
  /\ Idle /\ taken = None
  /\ UNCHANGED targetVars

Latch ==
  /\ state = "TARGET_WAIT"
  /\ state' = "TARGET_RESPONSE"
  /\ UNCHANGED reply

Respond(rspTaken) ==
  /\ state = "TARGET_RESPONSE"
  /\ IF rspTaken THEN state' = "TARGET_IDLE" /\ reply' = None
                 ELSE UNCHANGED targetVars

Collect(external) ==
  /\ MemRspReady
  /\ IF external # None THEN state' = "TARGET_RESPONSE" /\ reply' = external
                        ELSE UNCHANGED targetVars

Clock(taken, local, external, rspTaken) ==
  \/ Accept(taken, local)
  \/ Rest(taken)
  \/ Latch
  \/ Respond(rspTaken)
  \/ Collect(external)
=============================================================================
