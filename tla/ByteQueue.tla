------------------------------ MODULE ByteQueue ------------------------------
(***************************************************************************)
(* What the receive queue of the UART promises: bytes leave in the order   *)
(* they came, a byte is dropped only when the queue is full and nothing    *)
(* leaves it at that moment ("Simultaneous arrival and read preserve both  *)
(* operations", uart.sv:26), and then, and only then, the loss shows.      *)
(***************************************************************************)
EXTENDS Naturals, Sequences

CONSTANTS
  Capacity,
  Byte,
  Nothing  \* no byte has been delivered

VARIABLES
  queue,
  lost,  \* a byte has been dropped
  got    \* the byte delivered last

vars == <<queue, lost, got>>

Init == queue = <<>> /\ lost = FALSE /\ got = Nothing

Arrive ==
  /\ IF Len(queue) < Capacity
       THEN (\E b \in Byte : queue' = Append(queue, b)) /\ UNCHANGED lost
       ELSE UNCHANGED queue /\ lost' = TRUE
  /\ UNCHANGED got

Deliver ==
  /\ queue # <<>>
  /\ queue' = Tail(queue)
  /\ got' = Head(queue)
  /\ UNCHANGED lost

ArriveAndDeliver ==
  /\ queue # <<>>
  /\ \E b \in Byte : queue' = Append(Tail(queue), b)
  /\ got' = Head(queue)
  /\ UNCHANGED lost

Next == Arrive \/ Deliver \/ ArriveAndDeliver

Spec == Init /\ [][Next]_vars
=============================================================================
