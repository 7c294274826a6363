---------------------------- MODULE UartReceiver ----------------------------
(***************************************************************************)
(* The receive queue of phase8/rtl/uart.sv: a ring of RX_FIFO_DEPTH bytes  *)
(* between the serial line and the data register, and a sticky overflow    *)
(* flag.  A step is a clock edge on which a byte may arrive (rx_valid_     *)
(* pulse) and the data register may be read.                               *)
(***************************************************************************)
EXTENDS Integers

CONSTANT FifoDepth  \* RX_FIFO_DEPTH, 16 in the RTL; a power of two

ASSUME FifoDepthAssumption == FifoDepth \in Nat \ {0}

VARIABLES rxFifo, rxWritePtr, rxReadPtr, rxCount, rxOverflow

uartVars == <<rxFifo, rxWritePtr, rxReadPtr, rxCount, rxOverflow>>

Cell == 0 .. FifoDepth - 1

\* The cells have no reset value; no read shows one that was not written.
UartInit ==
  /\ rxFifo = [i \in Cell |-> 0]
  /\ rxWritePtr = 0 /\ rxReadPtr = 0 /\ rxCount = 0
  /\ rxOverflow = FALSE

\* rx_valid_o, and the level of the interrupt line.
RxValid == rxCount # 0

\* What a read of the data register gives.
RxData == IF RxValid THEN rxFifo[rxReadPtr] ELSE 0

Pop(read) == read /\ RxValid

\* Mutant: a full queue takes no byte, also when one leaves on the same edge.
PushWhenRoom(arrives, read) == arrives /\ rxCount < FifoDepth

Push(arrives, read) == arrives /\ (rxCount < FifoDepth \/ Pop(read))

\* One rising edge of the clock, on which `byte' may arrive.
UartClock(arrives, byte, read) ==
  /\ IF Push(arrives, read)
       THEN /\ rxFifo' = [rxFifo EXCEPT ![rxWritePtr] = byte]
            /\ rxWritePtr' = (rxWritePtr + 1) % FifoDepth
       ELSE UNCHANGED <<rxFifo, rxWritePtr>>
  /\ rxReadPtr' = IF Pop(read) THEN (rxReadPtr + 1) % FifoDepth ELSE rxReadPtr
  /\ rxCount' = IF Push(arrives, read) = Pop(read) THEN rxCount
                ELSE IF Push(arrives, read) THEN rxCount + 1 ELSE rxCount - 1
  /\ rxOverflow' = (rxOverflow \/ (arrives /\ ~Push(arrives, read)))
=============================================================================
