---------------------------- MODULE CachedMemory ----------------------------
(***************************************************************************)
(* The cache between its requester and the memory below it.  `invalidate'  *)
(* may be high on any edge (it is not ext_mem_ready, or the DMA and the    *)
(* page-table walker asking for the memory); other masters change the      *)
(* memory only on such edges, the contract stated in rv_ddr_cache.sv:2-3   *)
(* and kept by soc_core_txn.sv (SocMemory shows that).                     *)
(***************************************************************************)
EXTENDS DdrCache

VARIABLES
  want,      \* the request the requester holds on req_*, None when there is none
  inFlight,  \* the request the memory is performing, None when there is none
  ddr,       \* contents of the memory, by byte
  last       \* history: the response to the last request

vars == <<cacheVars, want, inFlight, ddr, last>>

CMInit ==
  /\ Init
  /\ want = None /\ inFlight = None /\ last = None
  /\ ddr \in [Byte -> Value]

RequesterHolds(invalidate) ==
  want' \in IF want = None THEN Request \cup {None}
            ELSE IF Taken(want, invalidate) THEN {None} ELSE {want}

Answers(reply, invalidate) ==
  last' = IF Taken(want, invalidate) THEN None
          ELSE IF ReadHit(invalidate) THEN HitData
          ELSE IF MemRspReady /\ reply # None THEN ReplyToHeld(reply)
          ELSE last

\* The memory gives no response; it may take the request on offer.
QuietCycle(rspTaken, memTakes, invalidate) ==
  /\ memTakes => MemRequest # None
  /\ Clock(want, rspTaken, memTakes, None, invalidate)
  /\ inFlight' = IF memTakes THEN MemRequest ELSE inFlight
  /\ UNCHANGED ddr
  /\ RequesterHolds(invalidate)
  /\ Answers(None, invalidate)

AnswerCycle(rspTaken, invalidate) ==
  /\ MemRspReady
  /\ \E outcome \in Outcomes(ddr, inFlight) :
       /\ Clock(want, rspTaken, FALSE, outcome[2], invalidate)
       /\ ddr' = outcome[1]
       /\ Answers(outcome[2], invalidate)
  /\ inFlight' = None
  /\ RequesterHolds(invalidate)

\* Another master writes a byte while it owns the memory.
ForeignCycle(rspTaken) ==
  /\ Clock(want, rspTaken, FALSE, None, TRUE)
  /\ \E b \in Ddr, v \in Value : ddr' = [ddr EXCEPT ![b] = v]
  /\ RequesterHolds(TRUE)
  /\ Answers(None, TRUE)
  /\ UNCHANGED inFlight

SystemReset ==
  /\ Reset
  /\ ddr' \in {ddr} \cup IF inFlight = None THEN {}
                         ELSE {outcome[1] : outcome \in Outcomes(ddr, inFlight)}
  /\ want' = None /\ inFlight' = None /\ last' = None

Next ==
  \/ \E rspTaken, memTakes, invalidate \in BOOLEAN :
       QuietCycle(rspTaken, memTakes, invalidate)
  \/ \E rspTaken, invalidate \in BOOLEAN : AnswerCycle(rspTaken, invalidate)
  \/ \E rspTaken \in BOOLEAN : ForeignCycle(rspTaken)
  \/ SystemReset

Spec == CMInit /\ [][Next]_vars

-----------------------------------------------------------------------------
(***************************************************************************)
(* Type invariant.                                                         *)
(***************************************************************************)
TypeOK ==
  /\ state \in CacheStates
  /\ lines \in [Index -> Line \cup {None}]
  /\ held \in Request \cup {None}
  /\ line \in Line \cup {None}
  /\ writeHit \in BOOLEAN /\ poisoned \in BOOLEAN
  /\ rsp \in Reply \cup {None}
  /\ want \in Request \cup {None}
  /\ ddr \in [Byte -> Value]
  /\ last \in Reply \cup {None}

(***************************************************************************)
(* A valid line holds its word as the memory has it, on every cycle: after *)
(* a store that failed half way, after a store that straddles two words,   *)
(* after an invalidation during a refill.                                  *)
(***************************************************************************)
LinesMirrorMemory ==
  \A i \in Index : lines[i] # None =>
    /\ IndexOf[lines[i].word] = i
    /\ \A b \in lines[i].word : lines[i].data[b] = ddr[b]

(***************************************************************************)
(* The requester cannot tell the cache from the memory: its requests are   *)
(* performed one at a time, each at one instant, and answered with what    *)
(* the memory held at that instant.                                        *)
(***************************************************************************)
Atomic == INSTANCE AtomicMemory WITH
  mem <- ddr, last <- last,
  open <- IF state \in {"LOOKUP", "SEND", "WAIT_DATA"} THEN held ELSE None

ImplementsAtomicMemory == Atomic!Spec

-----------------------------------------------------------------------------
(***************************************************************************)
(* What holds between the registers; with it the invariant is inductive.   *)
(***************************************************************************)
Registers ==
  /\ held = None <=> Idle
  /\ ~MemRspReady => inFlight = None
  /\ MemRspReady => inFlight = IF Cacheable(held) /\ ~held.write
                                 THEN [held EXCEPT !.bytes = WordOf(held)] ELSE held
  /\ state = "RESPONSE" => rsp # None

\* The captured line is what the memory holds, unless the request is poisoned.
CapturedLine ==
  line # None /\ ~poisoned /\ state \in {"LOOKUP", "SEND", "WAIT_DATA"} =>
    \A b \in line.word : line.data[b] = ddr[b]

WriteHit == writeHit /\ ~Idle => line # None /\ line.word = WordOf(held)

\* While the memory may perform a store, no line holds a byte of it.
StoreUncached ==
  state \in {"LOOKUP", "SEND", "WAIT_DATA"} /\ held.write
    /\ (state = "LOOKUP" => ~Cacheable(held)) =>
      \A i \in Index : lines[i] # None => lines[i].word \cap held.bytes = {}

IInv == TypeOK /\ Registers /\ CapturedLine /\ WriteHit /\ StoreUncached /\ LinesMirrorMemory
=============================================================================
