-------------------------------- MODULE Plic --------------------------------
(***************************************************************************)
(* The platform interrupt controller, phase8/rtl/plic.sv: level sources    *)
(* are latched in `pending', a read of the claim register hands out the    *)
(* most urgent one, and a source in service is not latched again until the *)
(* claim register is written with its number.  A step is a clock edge.     *)
(***************************************************************************)
EXTENDS Integers

CONSTANTS
  Source,  \* 1 .. NUM_SOURCES
  None     \* no access on the bus

ASSUME SourceAssumption == Source \subseteq Nat \ {0}

VARIABLES
  irqPriority,
  pending, enable, inService,  \* the bits set in each register, as source numbers
  threshold

plicVars == <<irqPriority, pending, enable, inService, threshold>>

Priority == 0 .. 7

Init ==
  /\ irqPriority = [s \in Source |-> 1]
  /\ pending = {} /\ enable = {} /\ inService = {}
  /\ threshold = 0

-----------------------------------------------------------------------------
Claimable == {s \in pending \cap enable : irqPriority[s] > threshold}

\* s goes before t: by priority, and among equals by number.
Before(s, t) ==
  \/ irqPriority[s] > irqPriority[t]
  \/ irqPriority[s] = irqPriority[t] /\ s <= t

\* Mutant: the lowest number, whatever the priorities.
ClaimIdByNumber ==
  IF Claimable = {} THEN 0 ELSE CHOOSE s \in Claimable : \A t \in Claimable : s <= t

\* 0 when there is nothing to claim.
ClaimId ==
  IF Claimable = {} THEN 0
  ELSE CHOOSE s \in Claimable : \A t \in Claimable : Before(s, t)

ExternalIrq == ClaimId # 0

-----------------------------------------------------------------------------
\* A bus access to a register: which one, whether it is a write, and the value.
Reads(access, register) ==
  access # None /\ access.register = register /\ ~access.write

Writes(access, register) ==
  access # None /\ access.register = register /\ access.write

\* claim_read: the sources handed out on this edge.
Claimed(access) == IF Reads(access, "CLAIM") THEN {ClaimId} \ {0} ELSE {}

\* The sources whose service ends on this edge; a number out of range is ignored.
Completed(access) == IF Writes(access, "CLAIM") THEN {access.value} \cap Source ELSE {}

\* Mutant: the source's line is not gated while the source is in service.
LatchUngated(lines, access) == pending' = (pending \cup lines) \ Claimed(access)

Latch(lines, access) ==
  pending' = (pending \cup (lines \ inService)) \ Claimed(access)

\* One rising edge of the clock; `lines' are the sources whose line is high.
Clock(lines, access) ==
  /\ Latch(lines, access)
  /\ inService' = (inService \cup Claimed(access)) \ Completed(access)
  /\ irqPriority' = IF Writes(access, "PRIORITY")
                      THEN [irqPriority EXCEPT ![access.value[1]] = access.value[2]]
                      ELSE irqPriority
  /\ enable' = IF Writes(access, "ENABLE") THEN access.value \cap Source ELSE enable
  /\ threshold' = IF Writes(access, "THRESHOLD") THEN access.value ELSE threshold
=============================================================================
