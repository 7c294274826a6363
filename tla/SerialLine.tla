----------------------------- MODULE SerialLine -----------------------------
(***************************************************************************)
(* The serial line between the board and its host, as both ends of a       *)
(* loader's protocol see it.                                               *)
(*                                                                         *)
(* A token stands for one unit of the protocol on the way to the board: a  *)
(* command byte, the four magic bytes, a 32-bit field or a payload byte.   *)
(* A byte lost or garbled inside a unit makes another token of it, or      *)
(* none.  The other way go lines of text.                                  *)
(***************************************************************************)
EXTENDS Naturals, Sequences

CONSTANTS Depth  \* the receive queue of the board's UART

ASSUME DepthAssumption == Depth \in Nat \ {0}

VARIABLES
  rx,        \* the receive queue
  overflow,  \* its sticky flag
  toHost     \* lines on their way to the host

lineVars == <<rx, overflow, toHost>>

LineInit == rx = <<>> /\ overflow = FALSE /\ toHost = <<>>

\* A token reaches the UART; without room it is dropped, and that shows
\* (UartReceiver, ByteQueue).
Arrive(token) ==
  IF Len(rx) < Depth
  THEN rx' = Append(rx, token) /\ UNCHANGED overflow
  ELSE overflow' = TRUE /\ UNCHANGED rx

\* Several, one after the other.
ArriveAll(tokens) ==
  LET room == IF Len(tokens) < Depth - Len(rx) THEN Len(tokens) ELSE Depth - Len(rx)
  IN /\ rx' = rx \o SubSeq(tokens, 1, room)
     /\ overflow' = (overflow \/ room < Len(tokens))

\* The program takes the next token from the queue.
Received == Head(rx)
Receive == rx # <<>> /\ rx' = Tail(rx) /\ UNCHANGED overflow

\* [of |-> what, n |-> number]: "NEXT n", "ERR" with any reason, or another.
Line(of) == [of |-> of, n |-> 0]
NextLine(n) == [of |-> "NEXT", n |-> n]
Say(lines) == toHost' = toHost \o lines
=============================================================================
