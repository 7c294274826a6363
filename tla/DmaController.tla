---------------------------- MODULE DmaController ----------------------------
(***************************************************************************)
(* The single-channel DMA engine, phase8/rtl/dma_controller.sv.  It copies *)
(* beat by beat: one bus read, one bus write, until `remaining' is zero.   *)
(* A step is a clock edge; its inputs are the register write of this edge, *)
(* whether the fabric takes the request on offer, and the bus response.    *)
(***************************************************************************)
EXTENDS Integers

CONSTANTS
  None,
  DmaWindow  \* the addresses of the engine's own registers

VARIABLES
  sourceReg, destinationReg, lengthReg,          \* configuration registers
  state,
  currentSource, currentDestination, remaining, transferred,
  readBuffer,                                    \* the beat to write, None outside ST_WRITE_REQUEST
  width, sourceIncrement, destinationIncrement, irqEnable,  \* latched at start
  done, error, irq                               \* error holds error_code, "NONE" when clear

dmaVars == <<sourceReg, destinationReg, lengthReg, state, currentSource,
  currentDestination, remaining, transferred, readBuffer, width, sourceIncrement,
  destinationIncrement, irqEnable, done, error, irq>>

configuration == <<sourceReg, destinationReg, lengthReg>>
latches == <<width, sourceIncrement, destinationIncrement, irqEnable>>
progress == <<currentSource, currentDestination, remaining, transferred>>

DmaStates == {"ST_IDLE", "ST_READ_REQUEST", "ST_READ_WAIT", "ST_WRITE_REQUEST", "ST_WRITE_WAIT"}
Errors == {"NONE", "BAD_WIDTH", "SELF_ACCESS", "BUS", "ABORTED"}

Init ==
  /\ sourceReg = 0 /\ destinationReg = 0 /\ lengthReg = 0
  /\ state = "ST_IDLE"
  /\ currentSource = 0 /\ currentDestination = 0 /\ remaining = 0 /\ transferred = 0
  /\ readBuffer = None
  /\ width = 0 /\ sourceIncrement = FALSE /\ destinationIncrement = FALSE /\ irqEnable = FALSE
  /\ done = FALSE /\ error = "NONE" /\ irq = FALSE

-----------------------------------------------------------------------------
Busy == state # "ST_IDLE"

\* The beat shrinks to what is left: 4, 2 or 1 bytes.
BeatBytes ==
  IF width = 0 \/ remaining < 2 THEN 1
  ELSE IF width = 1 \/ remaining < 4 THEN 2
  ELSE 4

Span(address) == address .. address + BeatBytes - 1

Read(address) ==
  [write |-> FALSE, bytes |-> Span(address), data |-> None, legal |-> TRUE]

\* The bus request on offer, None while m_req_valid is low.  A write carries the
\* beat's bytes in order, counted from 0.
MemRequest ==
  IF state = "ST_READ_REQUEST" THEN Read(currentSource)
  ELSE IF state = "ST_WRITE_REQUEST"
       THEN [Read(currentDestination) EXCEPT !.write = TRUE, !.data = readBuffer]
  ELSE None

MemRspReady == state \in {"ST_READ_WAIT", "ST_WRITE_WAIT"}

-----------------------------------------------------------------------------
\* A write to a register.  A CONTROL write carries a record of its fields, a
\* STATUS write the set of sticky bits it clears.
Writes(write, register) == write # None /\ write.register = register

Aborts(write) == Writes(write, "CONTROL") /\ write.value.abort /\ Busy

Starts(write) == Writes(write, "CONTROL") /\ write.value.start /\ ~Busy

\* An aborted transfer stops where it is.
Abort(write) ==
  /\ Aborts(write)
  /\ state' = "ST_IDLE"
  /\ error' = "ABORTED" /\ irq' = irqEnable
  /\ readBuffer' = None
  /\ UNCHANGED <<configuration, progress, latches, done>>

\* How a start ends at once: with an error, with an empty transfer, or not.
StartError(control) ==
  IF control.width = 3 THEN "BAD_WIDTH"
  ELSE IF {sourceReg, destinationReg} \cap DmaWindow # {} THEN "SELF_ACCESS"
  ELSE "NONE"

Start(write) ==
  /\ Starts(write)
  /\ currentSource' = sourceReg /\ currentDestination' = destinationReg
  /\ remaining' = lengthReg /\ transferred' = 0
  /\ width' = write.value.width
  /\ sourceIncrement' = write.value.sourceIncrement
  /\ destinationIncrement' = write.value.destinationIncrement
  /\ irqEnable' = write.value.irqEnable
  /\ error' = StartError(write.value)
  /\ done' = (error' = "NONE" /\ lengthReg = 0)
  /\ state' = IF error' = "NONE" /\ lengthReg # 0 THEN "ST_READ_REQUEST" ELSE "ST_IDLE"
  /\ irq' = (state' = "ST_IDLE" /\ write.value.irqEnable)
  /\ UNCHANGED <<configuration, readBuffer>>

\* Mutant: the configuration may change under a transfer.
ConfigureBusy(write) ==
  /\ sourceReg' = IF Writes(write, "SRC") THEN write.value ELSE sourceReg
  /\ destinationReg' = IF Writes(write, "DST") THEN write.value ELSE destinationReg
  /\ lengthReg' = IF Writes(write, "LENGTH") THEN write.value ELSE lengthReg

\* Any other register write: configuration while idle, and the sticky bits.
Configure(write) ==
  /\ sourceReg' = IF Writes(write, "SRC") /\ ~Busy THEN write.value ELSE sourceReg
  /\ destinationReg' = IF Writes(write, "DST") /\ ~Busy THEN write.value ELSE destinationReg
  /\ lengthReg' = IF Writes(write, "LENGTH") /\ ~Busy THEN write.value ELSE lengthReg

ClearStatus(write) ==
  LET cleared == IF Writes(write, "STATUS") THEN write.value ELSE {}
  IN /\ done' = (done /\ "DONE" \notin cleared)
     /\ error' = IF "ERROR" \in cleared THEN "NONE" ELSE error
     /\ irq' = (irq /\ "IRQ" \notin cleared)

-----------------------------------------------------------------------------
(***************************************************************************)
(* The state machine, on an edge that neither starts nor aborts.           *)
(***************************************************************************)
Rest(write) ==
  /\ ~Busy
  /\ ClearStatus(write)
  /\ UNCHANGED <<state, progress, readBuffer, latches>>

\* Mutant: the state moves on although the fabric has not taken the request.
RequestUntaken(write, reqTaken) ==
  /\ MemRequest # None
  /\ state' = IF state = "ST_READ_REQUEST" THEN "ST_READ_WAIT" ELSE "ST_WRITE_WAIT"
  /\ readBuffer' = None
  /\ ClearStatus(write)
  /\ UNCHANGED <<progress, latches>>

Request(write, reqTaken) ==
  /\ MemRequest # None
  /\ state' = IF ~reqTaken THEN state
              ELSE IF state = "ST_READ_REQUEST" THEN "ST_READ_WAIT" ELSE "ST_WRITE_WAIT"
  /\ readBuffer' = IF reqTaken THEN None ELSE readBuffer
  /\ ClearStatus(write)
  /\ UNCHANGED <<progress, latches>>

Await(write, reply) ==
  /\ MemRspReady /\ reply = None
  /\ ClearStatus(write)
  /\ UNCHANGED <<state, progress, readBuffer, latches>>

\* Mutant: a bus error raises no interrupt.
FailSilently(write, reply) ==
  /\ MemRspReady /\ reply # None /\ reply.err
  /\ state' = "ST_IDLE"
  /\ error' = "BUS"
  /\ UNCHANGED <<progress, readBuffer, latches, done, irq>>

Fail(write, reply) ==
  /\ MemRspReady /\ reply # None /\ reply.err
  /\ state' = "ST_IDLE"
  /\ error' = "BUS" /\ irq' = irqEnable
  /\ done' = (done /\ ~(Writes(write, "STATUS") /\ "DONE" \in write.value))
  /\ UNCHANGED <<progress, readBuffer, latches>>

HaveRead(write, reply) ==
  /\ state = "ST_READ_WAIT" /\ reply # None /\ ~reply.err
  /\ state' = "ST_WRITE_REQUEST"
  /\ readBuffer' = reply.data
  /\ ClearStatus(write)
  /\ UNCHANGED <<progress, latches>>

\* Mutant: the transfer ends one byte early.
HaveWrittenEarly(write, reply) ==
  /\ state = "ST_WRITE_WAIT" /\ reply # None /\ ~reply.err
  /\ transferred' = transferred + BeatBytes
  /\ remaining' = remaining - BeatBytes
  /\ currentSource' = IF sourceIncrement THEN currentSource + BeatBytes ELSE currentSource
  /\ currentDestination' = IF destinationIncrement THEN currentDestination + BeatBytes
                           ELSE currentDestination
  /\ UNCHANGED <<readBuffer, latches>>
  /\ IF remaining <= BeatBytes + 1
       THEN state' = "ST_IDLE" /\ done' = TRUE /\ irq' = irqEnable /\ UNCHANGED error
       ELSE state' = "ST_READ_REQUEST" /\ ClearStatus(write)

HaveWritten(write, reply) ==
  /\ state = "ST_WRITE_WAIT" /\ reply # None /\ ~reply.err
  /\ transferred' = transferred + BeatBytes
  /\ remaining' = remaining - BeatBytes
  /\ currentSource' = IF sourceIncrement THEN currentSource + BeatBytes ELSE currentSource
  /\ currentDestination' = IF destinationIncrement THEN currentDestination + BeatBytes
                           ELSE currentDestination
  /\ UNCHANGED <<readBuffer, latches>>
  /\ IF remaining <= BeatBytes
       THEN /\ state' = "ST_IDLE" /\ done' = TRUE /\ irq' = irqEnable
            /\ error' = IF Writes(write, "STATUS") /\ "ERROR" \in write.value
                          THEN "NONE" ELSE error
       ELSE state' = "ST_READ_REQUEST" /\ ClearStatus(write)

\* One rising edge of the clock with these inputs.
Clock(write, reqTaken, reply) ==
  \/ Abort(write)
  \/ Start(write)
  \/ /\ ~Aborts(write) /\ ~Starts(write)
     /\ Configure(write)
     /\ \/ Rest(write)
        \/ Request(write, reqTaken)
        \/ Await(write, reply)
        \/ Fail(write, reply)
        \/ HaveRead(write, reply)
        \/ HaveWritten(write, reply)
=============================================================================
