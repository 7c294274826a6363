---------------------------- MODULE AtomicMemory ----------------------------
(***************************************************************************)
(* What a cache promises: every request is performed at one instant        *)
(* between its acceptance and its response, on the memory as it is then.   *)
(* Other masters may change the memory, never while this one's request is  *)
(* performed.  CachedMemory implements this specification.                 *)
(***************************************************************************)
EXTENDS Bus

VARIABLES
  mem,   \* contents, by byte
  open,  \* the request accepted and not performed, None when there is none
  last   \* the response to the last request, None until it is performed

vars == <<mem, open, last>>

Init == mem \in [Byte -> Value] /\ open = None /\ last = None

Open ==
  /\ open = None
  /\ open' \in Request
  /\ last' = None
  /\ UNCHANGED mem

Perform ==
  /\ open # None
  /\ \E outcome \in Outcomes(mem, open) : mem' = outcome[1] /\ last' = outcome[2]
  /\ open' = None

OtherMaster ==
  /\ mem' \in [Byte -> Value]
  /\ UNCHANGED <<open, last>>

Reset ==
  /\ mem' \in {mem} \cup IF open = None THEN {}
                         ELSE {outcome[1] : outcome \in Outcomes(mem, open)}
  /\ open' = None /\ last' = None

Next == Open \/ Perform \/ OtherMaster \/ Reset

Spec == Init /\ [][Next]_vars
=============================================================================
