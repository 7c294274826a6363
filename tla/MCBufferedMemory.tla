-------------------------- MODULE MCBufferedMemory --------------------------
(***************************************************************************)
(* BufferedMemory with a ring of three entries, two DDR bytes and one MMIO *)
(* byte: posted stores of one and of two bytes, a store that straddles the *)
(* end of DDR, a malformed store, and a read of DDR.                       *)
(***************************************************************************)
EXTENDS BufferedMemory

MCByte == 1 .. 3
MCDdr == 1 .. 2
MCValue == 0 .. 1

Store(bytes, v) == [write |-> TRUE, bytes |-> bytes, data |-> v, legal |-> TRUE]
Load(bytes) == [write |-> FALSE, bytes |-> bytes, data |-> 0, legal |-> TRUE]

MCRequest ==
  {Store({1}, 0), Store({1, 2}, 1), Store({2, 3}, 1), Load({1, 2}),
   [Store({2}, 0) EXCEPT !.legal = FALSE]}
=============================================================================
