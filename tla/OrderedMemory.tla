---------------------------- MODULE OrderedMemory ----------------------------
(***************************************************************************)
(* What a store buffer in front of a memory promises its one requester:    *)
(*   - an acknowledged store joins a backlog that reaches the memory in    *)
(*     order and exactly once;                                             *)
(*   - any other request sees the memory with the backlog applied;         *)
(*   - the first store that fails after its acknowledgement stops the      *)
(*     memory for good: the backlog is frozen and every request refused.   *)
(* There is no ring, no capacity and no handshake here.  BufferedMemory    *)
(* implements this specification.                                          *)
(***************************************************************************)
EXTENDS Naturals, Sequences, Bus

CONSTANT Postable(_)  \* the stores that may be acknowledged early

VARIABLES
  mem,      \* contents, by byte
  backlog,  \* acknowledged stores the memory has not performed
  open,     \* the request the requester is waiting for, None when there is none
  answer,   \* the response on offer, None when there is none
  failed

vars == <<mem, backlog, open, answer, failed>>

Init ==
  /\ mem \in [Byte -> Value]
  /\ backlog = <<>>
  /\ open = None
  /\ answer = None
  /\ failed = FALSE

-----------------------------------------------------------------------------
\* The requester's half of a step gives the stores it adds to the backlog.
Take == /\ answer' \in {answer, None}
        /\ UNCHANGED open

Post(req) ==
  /\ ~failed /\ open = None /\ answer = None /\ Postable(req)
  /\ answer' = Blank(FALSE)
  /\ UNCHANGED open

Open(req) ==
  /\ ~failed /\ open = None /\ answer = None /\ ~Postable(req)
  /\ open' = req
  /\ UNCHANGED answer

Refuse ==
  /\ failed /\ open = None /\ answer = None
  /\ answer' = Blank(TRUE)
  /\ UNCHANGED open

Front(added) ==
  \/ added = <<>> /\ (Take \/ Refuse \/ \E req \in Request : Open(req))
  \/ \E req \in Request : added = <<req>> /\ Post(req)

\* The memory's half gives the stores it removes.
Perform(removed) ==
  /\ ~failed /\ backlog # <<>>
  /\ removed = 1
  /\ \E outcome \in Outcomes(mem, Head(backlog)) :
       /\ mem' = outcome[1]
       /\ failed' = outcome[2].err

Rest(removed) == removed = 0 /\ UNCHANGED <<mem, failed>>

\* The open request is answered from a memory that lacks no posted store.
Close ==
  /\ open # None /\ backlog = <<>>
  /\ \E outcome \in Outcomes(mem, open) :
       /\ mem' = outcome[1]
       /\ answer' = outcome[2]
  /\ open' = None
  /\ UNCHANGED <<backlog, failed>>

\* Reset forgets the backlog; the store being performed may have landed.
Reset ==
  /\ mem' \in {mem} \cup
       {outcome[1] : outcome \in
          IF backlog # <<>> THEN Outcomes(mem, Head(backlog))
          ELSE IF open # None THEN Outcomes(mem, open) ELSE {}}
  /\ backlog' = <<>> /\ open' = None /\ answer' = None /\ failed' = FALSE

Next ==
  \/ Close
  \/ Reset
  \/ \E removed \in 0 .. 1, added \in {<<>>} \cup {<<req>> : req \in Request} :
       /\ Front(added)
       /\ Perform(removed) \/ Rest(removed)
       /\ backlog' = SubSeq(backlog, removed + 1, Len(backlog)) \o added

Spec == Init /\ [][Next]_vars
=============================================================================
