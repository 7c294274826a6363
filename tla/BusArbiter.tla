----------------------------- MODULE BusArbiter -----------------------------
(***************************************************************************)
(* The four-master arbiter of the fabric, phase8/rtl/rv_bus_arbiter.sv.    *)
(* One access is outstanding at a time; the next one is chosen round robin *)
(* after the master served last, anew on every cycle until the target      *)
(* takes it.  A step is a clock edge; `presented' is the request of every  *)
(* master on that edge, None where req_valid is low.                       *)
(***************************************************************************)
EXTENDS Integers, Bus

VARIABLES
  owner,     \* the master whose access is outstanding, None while not busy
  lastOwner  \* the master served last

arbiterVars == <<owner, lastOwner>>

Master == 0 .. 3

Init == owner = None /\ lastOwner = 3

Reset == owner' = None /\ lastOwner' = 3

\* How many other masters come before m in the round robin.
Turn(m) == (m - lastOwner - 1) % 4

Asking(presented) == {m \in Master : presented[m] # None}

\* Mutant: fixed priority, the lowest number first.
ChosenFixed(presented) ==
  IF owner # None \/ Asking(presented) = {} THEN None
  ELSE CHOOSE m \in Asking(presented) : \A n \in Asking(presented) : m <= n

\* The `selected' master, None while s_req_valid is low.
Chosen(presented) ==
  IF owner # None \/ Asking(presented) = {} THEN None
  ELSE CHOOSE m \in Asking(presented) : \A n \in Asking(presented) : Turn(m) <= Turn(n)

\* `granted' is the master whose request the target takes on this edge.
Grant(granted) ==
  /\ owner = None /\ granted # None
  /\ owner' = granted
  /\ UNCHANGED lastOwner

Release(rspTaken) ==
  /\ owner # None /\ rspTaken
  /\ owner' = None
  /\ lastOwner' = owner

Wait(granted, rspTaken) ==
  /\ granted = None /\ ~(owner # None /\ rspTaken)
  /\ UNCHANGED arbiterVars

Clock(granted, rspTaken) ==
  \/ Grant(granted)
  \/ Release(rspTaken)
  \/ Wait(granted, rspTaken)
=============================================================================
