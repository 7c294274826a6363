---------------------------- MODULE MCInterrupts ----------------------------
(***************************************************************************)
(* Interrupts with a receive queue of two bytes and a program that enables *)
(* both sources, puts the DMA above the UART, and raises the threshold to  *)
(* the priority of the UART, which masks it.                               *)
(***************************************************************************)
EXTENDS Interrupts

MCSource == 1 .. 2
MCByte == {7, 8}
MCSetting == {[register |-> "ENABLE", value |-> {1, 2}],
              [register |-> "PRIORITY", value |-> <<2, 3>>],
              [register |-> "THRESHOLD", value |-> 1]}
=============================================================================
