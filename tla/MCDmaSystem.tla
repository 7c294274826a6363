---------------------------- MODULE MCDmaSystem ----------------------------
(***************************************************************************)
(* DmaSystem with three source bytes, three destination bytes, a byte of   *)
(* BRAM beyond the destination, and a transfer of every kind: a copy with  *)
(* a tail, from the UART, to the UART, from the engine's own registers, to *)
(* an unmapped address, of an illegal width, and of no bytes.              *)
(***************************************************************************)
EXTENDS DmaSystem

MCMemory == 0 .. 6
MCPowerUp == [a \in MCMemory |-> IF a < 3 THEN a + 1 ELSE 0]
MCWindow == {100}

Copy == [source |-> 0, destination |-> 3, length |-> 3, width |-> 1, irqEnable |-> FALSE,
         sourceIncrement |-> TRUE, destinationIncrement |-> TRUE, waits |-> TRUE]
Transmit == [Copy EXCEPT !.destination = 30, !.length = 2, !.width = 0, !.irqEnable = TRUE,
                         !.destinationIncrement = FALSE, !.waits = FALSE]
Receive == [Copy EXCEPT !.source = 20, !.length = 2, !.width = 0, !.irqEnable = TRUE,
                        !.sourceIncrement = FALSE, !.waits = FALSE]

SelfAccess == [Transmit EXCEPT !.source = 100]
Unmapped == [Receive EXCEPT !.destination = 50]

BadWidth == [Transmit EXCEPT !.width = 3]
Empty == [Copy EXCEPT !.length = 0]

MCJob == {Copy, Receive, Transmit, SelfAccess, Unmapped, BadWidth, Empty}
MCFewJobs == {Copy, Receive}
=============================================================================
