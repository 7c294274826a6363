----------------------------- MODULE DmaProofs -----------------------------
(***************************************************************************)
(* Proofs about DmaSystem: for every memory, every set of jobs of the      *)
(* kinds dma.h has, every arrival of bytes and every moment of an abort or *)
(* of a stray write.                                                       *)
(***************************************************************************)
EXTENDS DmaSystem, SequenceTheorems, FiniteSetTheorems, TLAPS

Places == {"idle", "poll", "clear", "source", "destination", "length", "control", "wait",
           "abort", "stray"}

\* BRAM answers at every address it has, and at no other.
OverMemory(contents) == contents = [a \in Memory |-> contents[a]]

\* Who has the bus, and what the program waits for.
Wired ==
  /\ owner \in {None, Cpu, Fetch, Dma} /\ lastOwner \in 0 .. 3
  /\ tState \in {"TARGET_IDLE", "TARGET_WAIT", "TARGET_RESPONSE"}
  /\ owner = None <=> tState = "TARGET_IDLE"
  /\ dState \in Engine!DmaStates
  /\ {done, irq, irqEnable} \subseteq BOOLEAN /\ error \in Engine!Errors
  /\ pc \in Places /\ job \in Job
  /\ cpuReq # None => pc # "idle" /\ owner # Cpu /\ cpuReq = Access[pc]
  /\ owner = Cpu => pc # "idle"
  /\ fetchReq \in {None, [write |-> FALSE, bytes |-> Memory, data |-> None, legal |-> TRUE]}
  /\ OverMemory(mem)

\* A transfer that runs has not been reported yet.
Unreported == Engine!Busy => ~done /\ error = "NONE"

\* The registers and latches are those of job j.
TransferOf(j) ==
  /\ sourceReg = j.source /\ destinationReg = j.destination /\ lengthReg = j.length
  /\ width = j.width
  /\ sourceIncrement = j.sourceIncrement /\ destinationIncrement = j.destinationIncrement

\* From the poll that found the engine idle until the control register is written.
Setup ==
  \/ pc = "poll" /\ owner = Cpu /\ "BUSY" \notin tReply.data
  \/ pc \in {"clear", "source", "destination", "length"}
  \/ pc = "control" /\ owner # Cpu

SourceSet == \/ pc = "source" /\ owner = Cpu
             \/ pc \in {"destination", "length"} \/ (pc = "control" /\ owner # Cpu)
DestinationSet == \/ pc = "destination" /\ owner = Cpu
                  \/ pc = "length" \/ (pc = "control" /\ owner # Cpu)
LengthSet == \/ pc = "length" /\ owner = Cpu
             \/ pc = "control" /\ owner # Cpu

Programmed ==
  /\ Setup => ~Engine!Busy
  /\ SourceSet => sourceReg = job.source
  /\ DestinationSet => destinationReg = job.destination
  /\ LengthSet => lengthReg = job.length

\* The bytes of the beat that is being moved.
Beat == [i \in 1 .. Engine!BeatBytes |-> SourceByte(transferred + i - 1)]

\* The progress registers say how far a transfer has come.
Counted ==
  /\ width # 3 /\ {sourceReg, destinationReg} \cap DmaWindow = {}
  /\ transferred \in Nat /\ remaining \in Nat \ {0} /\ transferred + remaining = lengthReg
  /\ currentSource = IF sourceIncrement THEN sourceReg + transferred ELSE sourceReg
  /\ currentDestination = IF destinationIncrement THEN destinationReg + transferred
                          ELSE destinationReg

\* The beat that is being moved is the next one; where nothing answers, the first read fails.
BeatHeld ==
  /\ dState = "ST_READ_WAIT" => tReply.err \/ tReply.data = Beat
  /\ dState = "ST_WRITE_REQUEST" => readBuffer = Beat
  /\ sourceReg = Rx => popped = transferred + Unread
  /\ \/ sourceReg \in Memory \cup {Rx}
     \/ /\ transferred = 0 /\ dState \in {"ST_READ_REQUEST", "ST_READ_WAIT"}
        /\ dState = "ST_READ_WAIT" => tReply.err

\* The bytes are where they should be; where nothing answers, the first write fails.
BeatsLanded ==
  /\ destinationReg \in Memory =>
       \A k \in 0 .. transferred - 1 : mem[destinationReg + k] = SourceByte(k)
  /\ dState = "ST_WRITE_WAIT" /\ destinationReg \in Memory =>
       \A k \in transferred .. transferred + Engine!BeatBytes - 1 :
         mem[destinationReg + k] = SourceByte(k)
  /\ destinationReg = Tx => sent = [k \in 1 .. transferred + Unwritten |-> SourceByte(k - 1)]
  /\ \/ destinationReg \in Memory \cup {Tx}
     \/ transferred = 0 /\ (dState = "ST_WRITE_WAIT" => tReply.err)

Moving ==
  Engine!Busy => (\E j \in Job : TransferOf(j)) /\ Counted /\ BeatHeld /\ BeatsLanded

\* Nothing overwrites what is to be copied.
SourcesKept ==
  \A j \in Job : \A a \in Extent(j.source, j.length) \cap Memory : mem[a] = PowerUp[a]

\* The history starts with the transfer.
Fresh == ~Engine!Busy => popped = 0 /\ sent = <<>>

Copied(j) == \A k \in 0 .. j.length - 1 : mem[j.destination + k] = PowerUp[j.source + k]

\* The transfer the program has started is under way, has failed, or has copied everything.
Pending == \/ Engine!Busy /\ TransferOf(job)
           \/ ~Engine!Busy /\ (error = "NONE" => Copied(job))

\* While dma_copy() waits the transfer is its own, and the status that ends the wait is
\* still true.
Waited ==
  /\ pc = "wait" \/ (pc = "control" /\ owner = Cpu /\ job.waits) => job.waits /\ Pending
  /\ pc = "wait" /\ owner = Cpu /\ "BUSY" \notin tReply.data =>
       ~Engine!Busy /\ (error = "NONE" <=> "ERROR" \notin tReply.data)

Core == Wired /\ NoOrphan /\ Unreported

IInv == Core /\ Programmed /\ Moving /\ SourcesKept /\ Fresh /\ Waited

-----------------------------------------------------------------------------
(***************************************************************************)
(* What an edge does, seen from the engine and the program.                *)
(***************************************************************************)

\* The program is left to itself: it goes on where it is, or calls a helper.
ProgramGoesOn ==
  /\ \/ UNCHANGED <<pc, job>>
     \/ pc = "idle" /\ pc' \in {"poll", "abort", "stray"} /\ job' \in Job
  /\ cpuReq' # None => pc' # "idle" /\ cpuReq' = Access'[pc']

HistoryKept ==
  /\ popped' = IF ~Engine!Busy' THEN 0 ELSE popped
  /\ sent' = IF ~Engine!Busy' THEN <<>> ELSE sent

\* Nothing is taken and nothing answered.
Waits ==
  /\ UNCHANGED <<dmaRegs, owner, lastOwner, tReply, mem>> /\ HistoryKept
  /\ tState' \in {"TARGET_IDLE", "TARGET_WAIT", "TARGET_RESPONSE"}
  /\ owner = None <=> tState' = "TARGET_IDLE"
  /\ IF owner = Cpu THEN UNCHANGED <<pc, job, cpuReq>> ELSE ProgramGoesOn

Takes(m) ==
  /\ owner = None /\ owner' = m /\ tState' = "TARGET_WAIT" /\ UNCHANGED lastOwner

FetchTaken ==
  /\ Takes(Fetch) /\ UNCHANGED <<dmaRegs, mem>> /\ HistoryKept /\ ProgramGoesOn

CpuTaken ==
  /\ Takes(Cpu) /\ UNCHANGED <<pc, job, mem>> /\ HistoryKept
  /\ pc # "idle" /\ cpuReq # None /\ cpuReq = Access[pc] /\ cpuReq' = None
  /\ tReply' = Answer(Access[pc])
  /\ Engine!Clock(IF Access[pc].write THEN Access[pc] ELSE None, FALSE, None)

DmaTaken ==
  /\ Takes(Dma) /\ ProgramGoesOn
  /\ dState \in {"ST_READ_REQUEST", "ST_WRITE_REQUEST"} /\ Engine!MemRequest # None
  /\ dState' = IF dState = "ST_READ_REQUEST" THEN "ST_READ_WAIT" ELSE "ST_WRITE_WAIT"
  /\ UNCHANGED <<sourceReg, destinationReg, lengthReg, currentSource, currentDestination,
                 remaining, transferred, width, sourceIncrement, destinationIncrement,
                 irqEnable, done, error, irq>>
  /\ tReply' = Answer(Engine!MemRequest)
  /\ Store(Engine!MemRequest)
  /\ popped' = IF Engine!MemRequest.bytes = {Rx} /\ ~Engine!MemRequest.write
                 THEN popped + 1 ELSE popped
  /\ sent' = IF Engine!MemRequest.bytes = {Tx} /\ Engine!MemRequest.write
               THEN sent \o Engine!MemRequest.data ELSE sent

Answered ==
  /\ owner # None /\ owner' = None /\ lastOwner' = owner /\ tState' = "TARGET_IDLE"
  /\ UNCHANGED mem /\ HistoryKept
  /\ \/ /\ owner = Cpu /\ UNCHANGED <<dmaRegs, job, cpuReq>>
        /\ pc' = NextPc(tReply)
     \/ owner = Fetch /\ UNCHANGED dmaRegs /\ ProgramGoesOn
     \/ /\ owner = Dma /\ ProgramGoesOn
        /\ UNCHANGED <<sourceReg, destinationReg, lengthReg>>
        /\ Engine!Fail(None, tReply) \/ Engine!HaveRead(None, tReply)
             \/ Engine!HaveWritten(None, tReply)

-----------------------------------------------------------------------------
\* Somebody asking is chosen.
LEMMA ChosenFacts ==
  ASSUME Wired, Chosen # None
  PROVE  Chosen \in {Cpu, Fetch, Dma} /\ Presented[Chosen] # None /\ owner = None
<1> DEFINE A == {m \in 0 .. 3 : Presented[m] # None}
           T(m) == (m - lastOwner - 1) % 4
<1>1. /\ owner = None /\ A # {}
      /\ Chosen = CHOOSE m \in A : \A n \in A : T(m) <= T(n)
  BY DEF Chosen, Arbiter!Chosen, Arbiter!Asking, Arbiter!Master, Arbiter!Turn
<1>2. \A m \in 0 .. 3 : T(m) \in 0 .. 3
  BY DEF Wired
<1>3. A \subseteq 0 .. 3
  OBVIOUS
<1>4. \E m \in A : \A n \in A : T(m) <= T(n)
  <2> HIDE DEF A, T
  <2>1. \A m \in A : T(m) \in 0 .. 3
    BY <1>2, <1>3
  <2> QED
    BY <1>1, <2>1
<1>5. Chosen \in A
  BY <1>1, <1>4
<1>6. Presented[1] = None
  BY DEF Presented, Cpu, Fetch, Dma, Arbiter!Master
<1>7. Chosen \in 0 .. 3 /\ Presented[Chosen] # None
  BY <1>5
<1> QED
  BY <1>1, <1>6, <1>7 DEF Cpu, Fetch, Dma

\* The accesses of the program, one by one.
LEMMA AccessFacts ==
  ASSUME pc \in Places \ {"idle"}
  PROVE  \/ pc \in {"poll", "wait"} /\ Access[pc] = Read("STATUS")
         \/ pc = "clear" /\ Access[pc] = Write("STATUS", {"DONE", "ERROR", "IRQ"})
         \/ pc = "source" /\ Access[pc] = Write("SRC", job.source)
         \/ pc = "destination" /\ Access[pc] = Write("DST", job.destination)
         \/ pc = "length" /\ Access[pc] = Write("LENGTH", job.length)
         \/ pc = "control" /\ Access[pc] = Write("CONTROL", Control(job, TRUE))
         \/ pc = "abort" /\ Access[pc] = Write("CONTROL", Control(job, FALSE))
         \/ pc = "stray" /\ Access[pc] = Write("LENGTH", 1)
<1>1. /\ Access["poll"] = Read("STATUS") /\ Access["wait"] = Read("STATUS")
      /\ Access["clear"] = Write("STATUS", {"DONE", "ERROR", "IRQ"})
      /\ Access["source"] = Write("SRC", job.source)
      /\ Access["destination"] = Write("DST", job.destination)
      /\ Access["length"] = Write("LENGTH", job.length)
      /\ Access["control"] = Write("CONTROL", Control(job, TRUE))
      /\ Access["abort"] = Write("CONTROL", Control(job, FALSE))
      /\ Access["stray"] = Write("LENGTH", 1)
  BY DEF Access
<1> QED
  BY <1>1 DEF Places

\* The fields of an access of the program.
LEMMA FieldFacts ==
  /\ \A r : ~Read(r).write /\ Read(r).bytes = DmaWindow
  /\ \A r, v : /\ Write(r, v).write /\ Write(r, v).bytes = DmaWindow
             /\ Write(r, v).register = r /\ Write(r, v).value = v
BY DEF Read, Write

\* The fields of what a write to CONTROL carries.
LEMMA ControlFields ==
  ASSUME NEW j, NEW c, NEW start \in BOOLEAN, c = Control(j, start)
  PROVE  /\ c.start <=> start
         /\ c.abort <=> ~start
         /\ c.width = j.width /\ c.irqEnable = j.irqEnable
         /\ c.sourceIncrement = j.sourceIncrement
         /\ c.destinationIncrement = j.destinationIncrement
BY DEF Control

\* Every access of the program is to the engine's registers.
LEMMA AccessFields ==
  ASSUME pc \in Places \ {"idle"}
  PROVE  Access[pc].bytes = DmaWindow
<1>1. PICK r, v : Access[pc] = Read(r) \/ Access[pc] = Write(r, v)
  BY AccessFacts
<1> QED
  BY <1>1, FieldFacts

\* What each place of the program reads, or writes where.
LEMMA AccessTable ==
  ASSUME pc \in Places \ {"idle"}
  PROVE  LET a == Access[pc]
         IN /\ pc \in {"poll", "wait"} => ~a.write
            /\ pc = "clear" => a.write /\ a.register = "STATUS" /\ a.value = {"DONE", "ERROR", "IRQ"}
            /\ pc = "source" => a.write /\ a.register = "SRC" /\ a.value = job.source
            /\ pc = "destination" => a.write /\ a.register = "DST" /\ a.value = job.destination
            /\ pc = "length" => a.write /\ a.register = "LENGTH" /\ a.value = job.length
            /\ pc = "stray" => a.write /\ a.register = "LENGTH" /\ a.value = 1
            /\ pc = "control" =>
                 a.write /\ a.register = "CONTROL" /\ a.value = Control(job, TRUE)
            /\ pc = "abort" =>
                 a.write /\ a.register = "CONTROL" /\ a.value = Control(job, FALSE)
<1> DEFINE a == Access[pc]
<1>1. pc \in {"poll", "wait"} => ~a.write
  BY AccessFacts, FieldFacts
<1>2. pc = "clear" => a.write /\ a.register = "STATUS" /\ a.value = {"DONE", "ERROR", "IRQ"}
  BY AccessFacts, FieldFacts
<1>3. pc = "source" => a.write /\ a.register = "SRC" /\ a.value = job.source
  BY AccessFacts, FieldFacts
<1>4. pc = "destination" => a.write /\ a.register = "DST" /\ a.value = job.destination
  BY AccessFacts, FieldFacts
<1>5. pc = "length" => a.write /\ a.register = "LENGTH" /\ a.value = job.length
  BY AccessFacts, FieldFacts
<1>6. pc = "stray" => a.write /\ a.register = "LENGTH" /\ a.value = 1
  BY AccessFacts, FieldFacts
<1>7. pc = "control" => a.write /\ a.register = "CONTROL" /\ a.value = Control(job, TRUE)
  <2> DEFINE c == Control(job, TRUE)
  <2>1. pc = "control" => a = Write("CONTROL", c)
    BY AccessFacts
  <2>2. pc = "control" => a.write /\ a.register = "CONTROL" /\ a.value = c
    <3> HIDE DEF a, c
    <3> QED
      BY <2>1, FieldFacts
  <2> QED
    BY <2>2
<1>8. pc = "abort" => a.write /\ a.register = "CONTROL" /\ a.value = Control(job, FALSE)
  <2> DEFINE c == Control(job, FALSE)
  <2>1. pc = "abort" => a = Write("CONTROL", c)
    BY AccessFacts
  <2>2. pc = "abort" => a.write /\ a.register = "CONTROL" /\ a.value = c
    <3> HIDE DEF a, c
    <3> QED
      BY <2>1, FieldFacts
  <2> QED
    BY <2>2
<1> QED
  BY <1>1, <1>2, <1>3, <1>4, <1>5, <1>6, <1>7, <1>8

\* Without a register write, a grant or an answer the engine stays as it is.
LEMMA EngineStays ==
  ASSUME Wired, Engine!Clock(None, FALSE, None)
  PROVE  UNCHANGED dmaRegs
<1>1. /\ ~Engine!Aborts(None) /\ ~Engine!Starts(None)
      /\ \A register : ~Engine!Writes(None, register)
  BY DEF Engine!Aborts, Engine!Starts, Engine!Writes
<1>2. /\ Engine!Configure(None)
      /\ \/ Engine!Rest(None) \/ Engine!Request(None, FALSE) \/ Engine!Await(None, None)
         \/ Engine!Fail(None, None) \/ Engine!HaveRead(None, None) \/ Engine!HaveWritten(None, None)
  BY <1>1 DEF Engine!Clock, Engine!Abort, Engine!Start
<1>3. UNCHANGED <<sourceReg, destinationReg, lengthReg>>
  BY <1>1, <1>2 DEF Engine!Configure
<1>4. /\ Engine!ClearStatus(None)
      /\ UNCHANGED <<dState, readBuffer, currentSource, currentDestination, remaining, transferred,
                     width, sourceIncrement, destinationIncrement, irqEnable>>
  BY <1>2 DEF Engine!Rest, Engine!Request, Engine!Await, Engine!Fail, Engine!HaveRead,
              Engine!HaveWritten, Engine!progress, Engine!latches
<1>5. UNCHANGED <<done, error, irq>>
  BY <1>1, <1>4 DEF Engine!ClearStatus, Wired
<1> QED
  BY <1>3, <1>4, <1>5 DEF dmaRegs

\* When nobody's request is taken, and no answer is for the CPU.
LEMMA ProgramFacts ==
  ASSUME Wired, owner # Cpu, CpuStep(FALSE)
  PROVE  ProgramGoesOn
<1>1. CASE pc = "idle" /\ UNCHANGED cpuReq
  BY <1>1 DEF CpuStep, ProgramGoesOn, Wired
<1>2. CASE cpuReq' = Access[pc] /\ pc # "idle" /\ UNCHANGED <<pc, job>>
  <2>1. Access' = Access
    BY <1>2 DEF Access, Read, Write, Control
  <2> QED
    BY <1>2, <2>1 DEF ProgramGoesOn
<1>3. CASE cpuReq # None /\ UNCHANGED <<pc, job, cpuReq>>
  <2>1. Access' = Access
    BY <1>3 DEF Access, Read, Write, Control
  <2> QED
    BY <1>3, <2>1 DEF ProgramGoesOn, Wired
<1> QED
  BY <1>1, <1>2, <1>3 DEF CpuStep

\* Every edge is one of these.
LEMMA EdgeShape ==
  ASSUME Wired, NoOrphan, NEW arrives \in BOOLEAN, NEW drains \in BOOLEAN,
         Edge(arrives, drains)
  PROVE  /\ Waits \/ FetchTaken \/ CpuTaken \/ DmaTaken \/ Answered
         /\ fetchReq' \in {None, [write |-> FALSE, bytes |-> Memory, data |-> None, legal |-> TRUE]}
<1> DEFINE granted == Granted
           req == IF granted = None THEN None ELSE Presented[granted]
           register == IF granted = Cpu /\ req.write THEN req ELSE None
           toDma == IF owner = Dma THEN BusResponse ELSE None
<1>1. /\ Engine!Clock(register, granted = Dma, toDma)
      /\ Arbiter!Clock(granted, BusResponse # None)
      /\ Target!Clock(req, IF req = None THEN None ELSE Answer(req), None, BusResponse # None)
      /\ CpuStep(granted = Cpu)
      /\ FetchStep(granted = Fetch)
      /\ Store(req)
      /\ UartStep(req, arrives, drains)
  BY DEF Edge
<1>2. fetchReq' \in {None, [write |-> FALSE, bytes |-> Memory, data |-> None, legal |-> TRUE]}
  BY <1>1 DEF FetchStep, Wired
<1>3. None \notin {Cpu, Fetch, Dma}
  BY NoneAssumption DEF Cpu, Fetch, Dma
<1>4. owner # None => granted = None
  BY ChosenFacts DEF Granted
<1>5. granted # None => /\ granted \in {Cpu, Fetch, Dma} /\ Presented[granted] # None
                        /\ owner = None /\ Target!Idle
  BY ChosenFacts DEF Granted
<1>6. BusResponse # None => tState = "TARGET_RESPONSE" /\ BusResponse = tReply
  BY DEF BusResponse, Target!Response
<1>7. req = None => mem' = mem
  BY <1>1 DEF Store
<1>8. /\ popped' = IF ~Engine!Busy' THEN 0
                   ELSE IF req # None /\ req.bytes = {Rx} /\ ~req.write THEN popped + 1 ELSE popped
      /\ sent' = IF ~Engine!Busy' THEN <<>>
                 ELSE IF req # None /\ req.bytes = {Tx} /\ req.write THEN sent \o req.data ELSE sent
  BY <1>1 DEF UartStep
<1>9. CASE granted = None
  <2>1. /\ req = None /\ register = None /\ ~(granted = Dma) /\ ~(granted = Cpu)
        /\ mem' = mem /\ HistoryKept
    BY <1>3, <1>7, <1>8, <1>9 DEF HistoryKept
  <2>2. owner # Cpu => ProgramGoesOn
    BY <1>1, <2>1, ProgramFacts
  <2>3. owner = Cpu => /\ UNCHANGED <<job, cpuReq>>
                       /\ pc' = IF BusResponse = None THEN pc ELSE NextPc(BusResponse)
    BY <1>1, <1>3, <2>1 DEF CpuStep, Wired
  <2>4. CASE BusResponse = None
    <3>1. UNCHANGED <<owner, lastOwner>>
      BY <1>1, <1>9, <2>4 DEF Arbiter!Clock, Arbiter!Grant, Arbiter!Release, Arbiter!Wait, Arbiter!arbiterVars
    <3>2. /\ tReply' = tReply /\ tState' \in {"TARGET_IDLE", "TARGET_WAIT", "TARGET_RESPONSE"}
          /\ tState = "TARGET_IDLE" <=> tState' = "TARGET_IDLE"
      BY <1>1, <2>1, <2>4
         DEF Target!Clock, Target!Accept, Target!Rest, Target!Latch, Target!Respond, Target!Collect,
             Target!targetVars, Target!MemRspReady, Target!Idle, Wired
    <3>3. toDma = None
      BY <2>4
    <3>4. UNCHANGED dmaRegs
      BY <1>1, <2>1, <3>3, EngineStays
    <3>5. Waits
      BY <2>1, <2>2, <2>3, <2>4, <3>1, <3>2, <3>4 DEF Waits, Wired
    <3> QED
      BY <1>2, <3>5
  <2>5. CASE BusResponse # None
    <3>1. owner # None
      BY <1>6, <2>5 DEF Wired
    <3>2. owner' = None /\ lastOwner' = owner
      BY <1>1, <1>9, <2>5, <3>1 DEF Arbiter!Clock, Arbiter!Grant, Arbiter!Release, Arbiter!Wait
    <3>3. tState' = "TARGET_IDLE"
      BY <1>1, <1>6, <2>1, <2>5
         DEF Target!Clock, Target!Accept, Target!Rest, Target!Latch, Target!Respond, Target!Collect,
             Target!MemRspReady, Target!Idle
    <3>4. CASE owner = Dma
      <4>1. toDma = tReply /\ tReply # None
        BY <1>6, <2>5, <3>4
      <4>2. Engine!Clock(None, FALSE, tReply)
        BY <1>1, <2>1, <4>1
      <4>3. Engine!MemRspReady /\ Engine!MemRequest = None
        BY <3>4 DEF NoOrphan, Engine!MemRspReady, Engine!MemRequest
      <4>4. /\ ~Engine!Aborts(None) /\ ~Engine!Starts(None)
            /\ \A r : ~Engine!Writes(None, r)
        BY DEF Engine!Aborts, Engine!Starts, Engine!Writes
      <4>5. /\ Engine!Configure(None)
            /\ \/ Engine!Fail(None, tReply) \/ Engine!HaveRead(None, tReply)
               \/ Engine!HaveWritten(None, tReply)
        BY <4>1, <4>2, <4>3, <4>4
           DEF Engine!Clock, Engine!Abort, Engine!Start, Engine!Rest, Engine!Request, Engine!Await,
               Engine!Busy, Engine!MemRspReady
      <4>6. UNCHANGED <<sourceReg, destinationReg, lengthReg>>
        BY <4>4, <4>5 DEF Engine!Configure
      <4>7. owner # Cpu
        BY <3>4 DEF Cpu, Dma
      <4>8. Answered
        BY <2>1, <2>2, <3>1, <3>2, <3>3, <3>4, <4>5, <4>6, <4>7 DEF Answered
      <4> QED
        BY <1>2, <4>8
    <3>5. CASE owner # Dma
      <4>1. toDma = None
        BY <3>5
      <4>2. UNCHANGED dmaRegs
        BY <1>1, <2>1, <4>1, EngineStays
      <4>3. owner = Cpu \/ (owner = Fetch /\ owner # Cpu)
        BY <3>1, <3>5 DEF Wired, Cpu, Fetch
      <4>4. Answered
        BY <1>6, <2>1, <2>2, <2>3, <2>5, <3>1, <3>2, <3>3, <4>2, <4>3 DEF Answered
      <4> QED
        BY <1>2, <4>4
    <3> QED
      BY <3>4, <3>5
  <2> QED
    BY <2>4, <2>5
<1>10. CASE granted # None
  <2>1. /\ granted \in {Cpu, Fetch, Dma} /\ req = Presented[granted] /\ req # None
        /\ owner = None /\ tState = "TARGET_IDLE" /\ BusResponse = None /\ owner # Cpu
        /\ toDma = None
    BY <1>3, <1>5, <1>6, <1>10 DEF Wired
  <2>2. owner' = granted /\ UNCHANGED lastOwner
    BY <1>1, <1>10, <2>1 DEF Arbiter!Clock, Arbiter!Grant, Arbiter!Release, Arbiter!Wait
  <2>3. ~Target!External(req)
    BY DEF Target!External
  <2>4. tState' = "TARGET_WAIT" /\ tReply' = Answer(req)
    BY <1>1, <2>1, <2>3
       DEF Target!Clock, Target!Accept, Target!Rest, Target!Latch, Target!Respond, Target!Collect,
           Target!MemRspReady, Target!Idle
  <2>5. CASE granted = Cpu
    <3>1. req = cpuReq /\ cpuReq # None /\ pc # "idle" /\ cpuReq = Access[pc]
      BY <2>1, <2>5 DEF Presented, Arbiter!Master, Cpu, Wired
    <3>2. cpuReq' = None /\ UNCHANGED <<pc, job>>
      BY <1>1, <2>1, <2>5, <3>1 DEF CpuStep
    <3>3. Access[pc].bytes = DmaWindow
      <4>1. pc \in Places \ {"idle"}
        BY <3>1 DEF Wired
      <4> QED
        BY <4>1, AccessFields
    <3>4. mem' = mem
      <4>1. \A a \in Memory : a \notin req.bytes
        BY <3>1, <3>3, MemoryAssumption
      <4>2. CASE req.write /\ req.bytes \subseteq Memory
        <5>1. mem' = [a \in Memory |-> IF a \in req.bytes THEN req.data[a - First(req) + 1] ELSE mem[a]]
          <6>1. Store(req)
            BY <1>1
          <6> HIDE DEF req
          <6> QED
            BY <2>1, <4>2, <6>1 DEF Store
        <5>2. mem' = [a \in Memory |-> mem[a]]
          <6> HIDE DEF req
          <6> QED
            BY <4>1, <5>1
        <5> QED
          BY <5>2 DEF Wired, OverMemory
      <4>3. CASE ~(req.write /\ req.bytes \subseteq Memory)
        <5>1. Store(req)
          BY <1>1
        <5> HIDE DEF req
        <5> QED
          BY <4>3, <5>1 DEF Store
      <4> QED
        BY <4>2, <4>3
    <3>5. HistoryKept
      BY <1>8, <3>1, <3>3, MemoryAssumption DEF HistoryKept
    <3>6. ~(granted = Dma) /\ register = IF Access[pc].write THEN Access[pc] ELSE None
      BY <2>5, <3>1 DEF Cpu, Dma
    <3>7. Engine!Clock(IF Access[pc].write THEN Access[pc] ELSE None, FALSE, None)
      BY <1>1, <2>1, <3>6
    <3>8. CpuTaken
      BY <2>1, <2>2, <2>4, <2>5, <3>1, <3>2, <3>4, <3>5, <3>7 DEF CpuTaken, Takes
    <3> QED
      BY <1>2, <3>8
  <2>6. CASE granted = Fetch
    <3>1. ~(granted = Cpu) /\ ~(granted = Dma) /\ register = None
      BY <2>6 DEF Cpu, Dma, Fetch
    <3>2. req = [write |-> FALSE, bytes |-> Memory, data |-> None, legal |-> TRUE]
      <4>1. req = fetchReq
        BY <2>1, <2>6 DEF Presented, Arbiter!Master, Cpu, Fetch
      <4> HIDE DEF req
      <4> QED
        BY <2>1, <4>1 DEF Wired
    <3>3. mem' = mem /\ HistoryKept
      <4>1. ~req.write /\ req.bytes = Memory
        <5> HIDE DEF req
        <5> QED
          BY <3>2
      <4>2. ~(req.bytes = {Rx})
        BY <4>1, MemoryAssumption
      <4>3. HistoryKept
        BY <1>8, <4>1, <4>2 DEF HistoryKept
      <4>4. mem' = mem
        <5>1. Store(req)
          BY <1>1
        <5> HIDE DEF req
        <5> QED
          BY <4>1, <5>1 DEF Store
      <4> QED
        BY <4>3, <4>4
    <3>4. UNCHANGED dmaRegs
      BY <1>1, <2>1, <3>1, EngineStays
    <3>5. ProgramGoesOn
      BY <1>1, <2>1, <3>1, ProgramFacts
    <3>6. FetchTaken
      BY <2>1, <2>2, <2>4, <2>6, <3>3, <3>4, <3>5 DEF FetchTaken, Takes
    <3> QED
      BY <1>2, <3>6
  <2>7. CASE granted = Dma
    <3>1. ~(granted = Cpu) /\ register = None
      BY <2>7 DEF Cpu, Dma
    <3>2. req = Engine!MemRequest
      BY <2>1, <2>7 DEF Presented, Arbiter!Master, Cpu, Fetch, Dma
    <3>3. dState \in {"ST_READ_REQUEST", "ST_WRITE_REQUEST"} /\ ~Engine!MemRspReady
      BY <2>1, <3>2 DEF Engine!MemRequest, Engine!MemRspReady
    <3>4. /\ ~Engine!Aborts(None) /\ ~Engine!Starts(None)
          /\ \A r : ~Engine!Writes(None, r)
      BY DEF Engine!Aborts, Engine!Starts, Engine!Writes
    <3>5. Engine!Clock(None, TRUE, None)
      BY <1>1, <2>1, <2>7, <3>1
    <3>6. Engine!Configure(None) /\ Engine!Request(None, TRUE)
      BY <3>3, <3>4, <3>5
         DEF Engine!Clock, Engine!Abort, Engine!Start, Engine!Rest, Engine!Await, Engine!Busy,
             Engine!MemRspReady, Engine!Fail, Engine!HaveRead, Engine!HaveWritten
    <3>7. UNCHANGED <<done, error, irq>>
      BY <3>4, <3>6 DEF Engine!Request, Engine!ClearStatus, Wired
    <3>8. /\ UNCHANGED <<sourceReg, destinationReg, lengthReg, currentSource, currentDestination,
                         remaining, transferred, width, sourceIncrement, destinationIncrement, irqEnable>>
          /\ dState' = IF dState = "ST_READ_REQUEST" THEN "ST_READ_WAIT" ELSE "ST_WRITE_WAIT"
      BY <3>4, <3>6 DEF Engine!Request, Engine!Configure, Engine!progress, Engine!latches
    <3>9. ProgramGoesOn
      BY <1>1, <2>1, <3>1, ProgramFacts
    <3>10. Engine!Busy'
      BY <3>8 DEF Engine!Busy
    <3>11. DmaTaken
      BY <1>1, <1>8, <2>1, <2>2, <2>4, <2>7, <3>2, <3>3, <3>7, <3>8, <3>9, <3>10 DEF DmaTaken, Takes
    <3> QED
      BY <1>2, <3>11
  <2> QED
    BY <2>1, <2>5, <2>6, <2>7
<1> QED
  BY <1>9, <1>10

\* What the program's access does to the engine, which waits for nothing: an abort, a
\* start, or a write to a register.
AbortTaken ==
  /\ pc = "abort" /\ Engine!Busy /\ dState' = "ST_IDLE"
  /\ error' = "ABORTED" /\ irq' = irqEnable
  /\ UNCHANGED <<sourceReg, destinationReg, lengthReg, currentSource, currentDestination,
                 remaining, transferred, width, sourceIncrement, destinationIncrement,
                 irqEnable, done>>

StartTaken ==
  /\ pc = "control" /\ ~Engine!Busy
  /\ UNCHANGED <<sourceReg, destinationReg, lengthReg>>
  /\ currentSource' = sourceReg /\ currentDestination' = destinationReg
  /\ remaining' = lengthReg /\ transferred' = 0
  /\ width' = job.width /\ sourceIncrement' = job.sourceIncrement
  /\ destinationIncrement' = job.destinationIncrement /\ irqEnable' = job.irqEnable
  /\ error' = IF job.width = 3 THEN "BAD_WIDTH"
              ELSE IF {sourceReg, destinationReg} \cap DmaWindow # {} THEN "SELF_ACCESS"
              ELSE "NONE"
  /\ done' = (error' = "NONE" /\ lengthReg = 0)
  /\ dState' = IF error' = "NONE" /\ lengthReg # 0 THEN "ST_READ_REQUEST" ELSE "ST_IDLE"
  /\ irq' = (dState' = "ST_IDLE" /\ job.irqEnable)

RegisterTaken ==
  /\ pc = "control" => Engine!Busy
  /\ sourceReg' = IF pc = "source" /\ ~Engine!Busy THEN job.source ELSE sourceReg
  /\ destinationReg' = IF pc = "destination" /\ ~Engine!Busy THEN job.destination
                       ELSE destinationReg
  /\ lengthReg' = IF pc = "length" /\ ~Engine!Busy THEN job.length
                  ELSE IF pc = "stray" /\ ~Engine!Busy THEN 1 ELSE lengthReg
  /\ UNCHANGED <<dState, currentSource, currentDestination, remaining, transferred,
                 readBuffer, width, sourceIncrement, destinationIncrement, irqEnable>>
  /\ IF pc = "clear" THEN done' = FALSE /\ error' = "NONE" /\ irq' = FALSE ELSE UNCHANGED <<done, error, irq>>

\* An access of the program does one of these three things.
LEMMA EngineTaken ==
  ASSUME Wired, NoOrphan, CpuTaken
  PROVE  AbortTaken \/ StartTaken \/ RegisterTaken
<1> DEFINE w == IF Access[pc].write THEN Access[pc] ELSE None
<1>1. pc \in Places \ {"idle"} /\ Engine!Clock(w, FALSE, None) /\ owner = None
  BY DEF Wired, CpuTaken, Takes
<1>2. ~Engine!MemRspReady
  BY <1>1, NoneAssumption DEF NoOrphan, Dma
<1>3. Access[pc] # None
  BY DEF CpuTaken
<1>4. /\ Engine!Writes(w, "STATUS") <=> pc = "clear"
      /\ Engine!Writes(w, "SRC") <=> pc = "source"
      /\ Engine!Writes(w, "DST") <=> pc = "destination"
      /\ Engine!Writes(w, "LENGTH") <=> pc \in {"length", "stray"}
      /\ Engine!Writes(w, "CONTROL") <=> pc \in {"control", "abort"}
  <2>1. \A r : Engine!Writes(w, r) <=> Access[pc].write /\ Access[pc].register = r
    BY <1>3 DEF Engine!Writes
  <2>2. /\ pc \in {"poll", "wait"} => ~Access[pc].write
        /\ pc = "clear" => Access[pc].write /\ Access[pc].register = "STATUS"
        /\ pc = "source" => Access[pc].write /\ Access[pc].register = "SRC"
        /\ pc = "destination" => Access[pc].write /\ Access[pc].register = "DST"
        /\ pc \in {"length", "stray"} => Access[pc].write /\ Access[pc].register = "LENGTH"
        /\ pc \in {"control", "abort"} => Access[pc].write /\ Access[pc].register = "CONTROL"
    BY <1>1, AccessTable
  <2> HIDE DEF w
  <2> QED
    BY <1>1, <2>1, <2>2 DEF Places
<1>5. /\ pc = "clear" => w.value = {"DONE", "ERROR", "IRQ"}
      /\ pc = "source" => w.value = job.source
      /\ pc = "destination" => w.value = job.destination
      /\ pc = "length" => w.value = job.length
      /\ pc = "stray" => w.value = 1
      /\ pc = "control" => w.value = Control(job, TRUE)
      /\ pc = "abort" => w.value = Control(job, FALSE)
  BY <1>1, AccessTable
<1> HIDE DEF w
<1>6. pc = "control" => /\ w.value.start /\ ~w.value.abort /\ w.value.width = job.width
                        /\ w.value.irqEnable = job.irqEnable
                        /\ w.value.sourceIncrement = job.sourceIncrement
                        /\ w.value.destinationIncrement = job.destinationIncrement
  <2>1. SUFFICES ASSUME pc = "control"
                 PROVE  /\ w.value.start /\ ~w.value.abort /\ w.value.width = job.width
                        /\ w.value.irqEnable = job.irqEnable
                        /\ w.value.sourceIncrement = job.sourceIncrement
                        /\ w.value.destinationIncrement = job.destinationIncrement
    OBVIOUS
  <2>2. w.value = Control(job, TRUE) /\ TRUE \in BOOLEAN
    BY <1>5, <2>1
  <2> QED
    BY <2>2, ControlFields
<1>7. pc = "abort" => ~w.value.start /\ w.value.abort
  <2>1. pc = "abort" => (w.value.start <=> FALSE) /\ (w.value.abort <=> ~FALSE)
    BY <1>5, ControlFields
  <2> QED
    BY <2>1
<1>8. ASSUME Engine!Abort(w) PROVE AbortTaken
  <2>1. pc = "abort" /\ Engine!Busy
    BY <1>4, <1>6, <1>7, <1>8 DEF Engine!Abort, Engine!Aborts
  <2> QED
    BY <1>8, <2>1 DEF Engine!Abort, AbortTaken, Engine!configuration, Engine!progress, Engine!latches
<1>9. ASSUME Engine!Start(w) PROVE StartTaken
  <2>1. pc = "control" /\ ~Engine!Busy
    BY <1>4, <1>6, <1>7, <1>9 DEF Engine!Start, Engine!Starts
  <2> QED
    BY <1>6, <1>9, <2>1
       DEF Engine!Start, Engine!StartError, StartTaken, Engine!configuration
<1>10. ASSUME ~Engine!Aborts(w), ~Engine!Starts(w), Engine!Configure(w),
             Engine!Rest(w) \/ Engine!Request(w, FALSE)
       PROVE  RegisterTaken
  <2>1. pc = "control" => Engine!Busy
    BY <1>4, <1>6, <1>10 DEF Engine!Starts
  <2>2. /\ sourceReg' = IF pc = "source" /\ ~Engine!Busy THEN job.source ELSE sourceReg
        /\ destinationReg' = IF pc = "destination" /\ ~Engine!Busy THEN job.destination
                             ELSE destinationReg
        /\ lengthReg' = IF pc = "length" /\ ~Engine!Busy THEN job.length
                        ELSE IF pc = "stray" /\ ~Engine!Busy THEN 1 ELSE lengthReg
    BY <1>4, <1>5, <1>10 DEF Engine!Configure
  <2>3. /\ Engine!ClearStatus(w)
        /\ UNCHANGED <<dState, currentSource, currentDestination, remaining, transferred,
                       readBuffer, width, sourceIncrement, destinationIncrement, irqEnable>>
    BY <1>10 DEF Engine!Rest, Engine!Request, Engine!progress, Engine!latches
  <2>4. IF pc = "clear" THEN done' = FALSE /\ error' = "NONE" /\ irq' = FALSE ELSE UNCHANGED <<done, error, irq>>
    BY <1>4, <1>5, <2>3 DEF Engine!ClearStatus, Wired
  <2> QED
    BY <2>1, <2>2, <2>3, <2>4 DEF RegisterTaken
<1> QED
  BY <1>1, <1>2, <1>8, <1>9, <1>10
     DEF Engine!Clock, Engine!Await, Engine!Fail, Engine!HaveRead, Engine!HaveWritten, Engine!MemRspReady

-----------------------------------------------------------------------------
(***************************************************************************)
(* Who has the bus, whose answer is awaited and what has been reported.    *)
(***************************************************************************)

\* At power-up nobody has the bus and nothing runs.
LEMMA InitCore == Init => Core
<1> SUFFICES ASSUME Init PROVE Core
  OBVIOUS
<1>1. None \notin {Cpu, Fetch, Dma}
  BY NoneAssumption DEF Cpu, Fetch, Dma
<1>2. OverMemory(mem)
  BY MemoryAssumption DEF Init, OverMemory
<1>3. /\ owner = None /\ lastOwner = 3 /\ tState = "TARGET_IDLE" /\ dState = "ST_IDLE"
      /\ done = FALSE /\ irq = FALSE /\ irqEnable = FALSE /\ error = "NONE"
      /\ pc = "idle" /\ job \in Job /\ cpuReq = None /\ fetchReq = None
  BY DEF Init, Engine!Init, Arbiter!Init, Target!Init
<1>4. /\ dState \in Engine!DmaStates /\ error \in Engine!Errors /\ pc \in Places
      /\ {done, irq, irqEnable} \subseteq BOOLEAN
  BY <1>3 DEF Engine!DmaStates, Engine!Errors, Places
<1>5. Wired
  BY <1>1, <1>2, <1>3, <1>4 DEF Wired
<1> QED
  BY <1>1, <1>3, <1>5 DEF Core, NoOrphan, Unreported, Engine!MemRspReady, Engine!Busy

\* The program's part of Wired: it holds an access only for the place it is at.
LEMMA ProgramWired ==
  ASSUME Wired, ProgramGoesOn \/ UNCHANGED <<pc, job, cpuReq>>, owner' # Cpu \/ cpuReq' = None,
         owner' = Cpu => pc' # "idle"
  PROVE  /\ pc' \in Places /\ job' \in Job
         /\ cpuReq' # None => pc' # "idle" /\ owner' # Cpu /\ cpuReq' = Access'[pc']
         /\ owner' = Cpu => pc' # "idle"
<1>1. CASE ProgramGoesOn
  BY <1>1 DEF ProgramGoesOn, Wired, Places
<1>2. CASE UNCHANGED <<pc, job, cpuReq>>
  <2>1. Access' = Access
    BY <1>2 DEF Access, Read, Write, Control
  <2> QED
    BY <1>2, <2>1 DEF Wired
<1> QED
  BY <1>1, <1>2

\* An access of the engine writes a beat to the memory or leaves it alone.
LEMMA StoreOverMemory ==
  ASSUME NEW req, OverMemory(mem), Store(req)
  PROVE  OverMemory(mem)'
BY DEF OverMemory, Store

\* Every edge keeps the bus with one master, the engine with its answer, a report to come.
LEMMA CoreStep ==
  ASSUME Core,
         Waits \/ FetchTaken \/ CpuTaken \/ DmaTaken \/ Answered,
         fetchReq' \in {None, [write |-> FALSE, bytes |-> Memory, data |-> None, legal |-> TRUE]}
  PROVE  Core'
<1> USE DEF Core
<1>0. None \notin {Cpu, Fetch, Dma} /\ Cpu # Fetch /\ Cpu # Dma /\ Fetch # Dma
  BY NoneAssumption DEF Cpu, Fetch, Dma
<1>1. CASE Waits
  <2>1. UNCHANGED <<dState, done, irq, irqEnable, error, owner, lastOwner, mem>>
    BY <1>1 DEF Waits, dmaRegs
  <2>2. /\ pc' \in Places /\ job' \in Job
        /\ cpuReq' # None => pc' # "idle" /\ owner' # Cpu /\ cpuReq' = Access'[pc']
        /\ owner' = Cpu => pc' # "idle"
    BY <1>1, <2>1, ProgramWired DEF Waits, Wired
  <2>3. Wired'
    BY <1>1, <2>1, <2>2 DEF Waits, Wired, OverMemory
  <2> QED
    BY <2>1, <2>3 DEF NoOrphan, Unreported, Engine!Busy, Engine!MemRspReady
<1>2. CASE FetchTaken
  <2>1. UNCHANGED <<dState, done, irq, irqEnable, error, lastOwner, mem>> /\ owner = None /\ owner' = Fetch
    BY <1>2 DEF FetchTaken, Takes, dmaRegs
  <2>2. /\ pc' \in Places /\ job' \in Job
        /\ cpuReq' # None => pc' # "idle" /\ owner' # Cpu /\ cpuReq' = Access'[pc']
        /\ owner' = Cpu => pc' # "idle"
    BY <1>0, <1>2, <2>1, ProgramWired DEF FetchTaken
  <2>3. Wired'
    BY <1>0, <1>2, <2>1, <2>2 DEF FetchTaken, Takes, Wired, OverMemory
  <2> QED
    BY <1>0, <2>1, <2>3 DEF NoOrphan, Unreported, Engine!Busy, Engine!MemRspReady
<1>3. CASE CpuTaken
  <2>1. /\ owner = None /\ owner' = Cpu /\ tState' = "TARGET_WAIT" /\ cpuReq' = None
        /\ UNCHANGED <<pc, job, mem, lastOwner>> /\ pc # "idle"
    BY <1>3 DEF CpuTaken, Takes
  <2>2. dState \notin {"ST_READ_WAIT", "ST_WRITE_WAIT"}
    BY <1>0, <2>1 DEF NoOrphan, Engine!MemRspReady
  <2>3. /\ dState' \in Engine!DmaStates \ {"ST_READ_WAIT", "ST_WRITE_WAIT"}
        /\ {done', irq', irqEnable'} \subseteq BOOLEAN /\ error' \in Engine!Errors
        /\ Engine!Busy' => ~done' /\ error' = "NONE"
    <3>1. CASE AbortTaken
      BY <3>1 DEF AbortTaken, Wired, Engine!DmaStates, Engine!Errors, Engine!Busy
    <3>2. CASE StartTaken
      <4>1. job.irqEnable \in BOOLEAN
        BY JobAssumption DEF Wired
      <4>2. error' \in Engine!Errors /\ dState' \in {"ST_IDLE", "ST_READ_REQUEST"}
        BY <3>2 DEF StartTaken, Engine!Errors
      <4>3. Engine!Busy' => ~done' /\ error' = "NONE"
        BY <3>2 DEF StartTaken, Engine!Busy
      <4>4. {done', irq', irqEnable'} \subseteq BOOLEAN
        BY <3>2, <4>1 DEF StartTaken
      <4> QED
        BY <4>2, <4>3, <4>4 DEF Engine!DmaStates
    <3>3. CASE RegisterTaken
      BY <2>2, <3>3 DEF RegisterTaken, Wired, Unreported, Engine!Errors, Engine!Busy
    <3> QED
      BY <1>3, <3>1, <3>2, <3>3, EngineTaken
  <2>4. Wired'
    BY <1>0, <2>1, <2>3 DEF Wired, OverMemory
  <2> QED
    BY <1>0, <2>1, <2>3, <2>4 DEF NoOrphan, Unreported, Engine!MemRspReady
<1>4. CASE DmaTaken
  <2>1. /\ owner = None /\ owner' = Dma /\ tState' = "TARGET_WAIT" /\ UNCHANGED lastOwner
        /\ ProgramGoesOn /\ UNCHANGED <<irqEnable, done, error, irq>>
        /\ dState \in {"ST_READ_REQUEST", "ST_WRITE_REQUEST"}
        /\ dState' \in {"ST_READ_WAIT", "ST_WRITE_WAIT"}
    BY <1>4 DEF DmaTaken, Takes
  <2>2. OverMemory(mem)'
    BY <1>4, StoreOverMemory DEF DmaTaken, Wired
  <2>3. /\ pc' \in Places /\ job' \in Job
        /\ cpuReq' # None => pc' # "idle" /\ owner' # Cpu /\ cpuReq' = Access'[pc']
        /\ owner' = Cpu => pc' # "idle"
    BY <1>0, <2>1, ProgramWired
  <2>4. Wired'
    BY <1>0, <2>1, <2>2, <2>3 DEF Wired, Engine!DmaStates
  <2> QED
    BY <1>0, <2>1, <2>4 DEF NoOrphan, Unreported, Engine!Busy, Engine!MemRspReady
<1>5. CASE Answered
  <2>1. owner # None /\ owner' = None /\ lastOwner' = owner /\ tState' = "TARGET_IDLE" /\ mem' = mem
    BY <1>5 DEF Answered
  <2>2. /\ dState' \in Engine!DmaStates \ {"ST_READ_WAIT", "ST_WRITE_WAIT"}
        /\ {done', irq', irqEnable'} \subseteq BOOLEAN /\ error' \in Engine!Errors
        /\ Engine!Busy' => ~done' /\ error' = "NONE"
    <3>1. CASE owner # Dma
      <4>1. UNCHANGED <<dState, done, irq, irqEnable, error>>
        BY <1>5, <3>1 DEF Answered, dmaRegs
      <4> QED
        BY <3>1, <4>1 DEF Wired, NoOrphan, Unreported, Engine!Busy, Engine!MemRspReady
    <3>2. CASE owner = Dma
      <4>1. Engine!Fail(None, tReply) \/ Engine!HaveRead(None, tReply) \/ Engine!HaveWritten(None, tReply)
        BY <1>0, <1>5, <3>2 DEF Answered
      <4>2. \A r : ~Engine!Writes(None, r)
        BY DEF Engine!Writes
      <4>3. Engine!Busy /\ ~done /\ error = "NONE"
        BY <3>2 DEF NoOrphan, Unreported, Engine!MemRspReady, Engine!Busy
      <4>4. CASE Engine!Fail(None, tReply)
        BY <4>4, <4>3 DEF Engine!Fail, Engine!latches, Wired, Engine!Errors, Engine!Busy, Engine!DmaStates
      <4>5. CASE Engine!HaveRead(None, tReply)
        BY <4>5, <4>2, <4>3 DEF Engine!HaveRead, Engine!latches, Wired, Engine!Errors, Engine!Busy,
                                Engine!DmaStates, Engine!ClearStatus
      <4>6. CASE Engine!HaveWritten(None, tReply)
        BY <4>6, <4>2, <4>3 DEF Engine!HaveWritten, Engine!latches, Wired, Engine!Errors, Engine!Busy,
                                Engine!DmaStates, Engine!ClearStatus
      <4> QED
        BY <4>1, <4>4, <4>5, <4>6
    <3> QED
      BY <3>1, <3>2
  <2>3. /\ pc' \in Places /\ job' \in Job
        /\ cpuReq' # None => pc' # "idle" /\ cpuReq' = Access'[pc']
    <3>1. CASE owner = Cpu
      BY <1>0, <1>5, <3>1 DEF Answered, Wired, NextPc, Places
    <3>2. CASE owner # Cpu
      BY <1>0, <1>5, <2>1, <3>2, ProgramWired DEF Answered
    <3> QED
      BY <3>1, <3>2
  <2>4. Wired'
    BY <1>0, <2>1, <2>2, <2>3 DEF Wired, OverMemory, Cpu, Fetch, Dma
  <2> QED
    BY <1>0, <2>1, <2>2, <2>4 DEF NoOrphan, Unreported, Engine!MemRspReady
<1> QED
  BY <1>1, <1>2, <1>3, <1>4, <1>5

\* So does a stuttering step.
LEMMA CoreStutters == ASSUME Core, UNCHANGED vars PROVE Core'
<1>1. Access' = Access
  BY DEF vars, Access, Read, Write, Control
<1> QED
  BY <1>1 DEF vars, dmaRegs, Core, Wired, OverMemory, NoOrphan, Unreported, Engine!Busy,
              Engine!MemRspReady

\* How a transfer ends, for any of the three reasons there are.
LEMMA EndIsReported ==
  ASSUME Core, Waits \/ FetchTaken \/ CpuTaken \/ DmaTaken \/ Answered,
         Engine!Busy, ~Engine!Busy'
  PROVE  done' = (error' = "NONE") /\ irq' = irqEnable
<1> USE DEF Core
<1>0. None \notin {Cpu, Fetch, Dma} /\ Cpu # Fetch /\ Cpu # Dma /\ Fetch # Dma
  BY NoneAssumption DEF Cpu, Fetch, Dma
<1>1. ~Waits /\ ~FetchTaken
  BY DEF Waits, FetchTaken, dmaRegs, Engine!Busy
<1>2. ~DmaTaken
  BY DEF DmaTaken, Engine!Busy
<1>3. done = FALSE /\ error = "NONE"
  BY DEF Unreported, Wired
<1>4. CASE CpuTaken
  <2>1. AbortTaken \/ StartTaken \/ RegisterTaken
    BY <1>4, EngineTaken
  <2>2. ~StartTaken /\ ~RegisterTaken
    BY DEF StartTaken, RegisterTaken, Engine!Busy
  <2> QED
    BY <1>3, <2>1, <2>2 DEF AbortTaken
<1>5. CASE Answered
  <2>1. owner = Dma
    BY <1>5 DEF Answered, dmaRegs, Engine!Busy
  <2>2. Engine!Fail(None, tReply) \/ Engine!HaveRead(None, tReply) \/ Engine!HaveWritten(None, tReply)
    BY <1>0, <1>5, <2>1 DEF Answered
  <2>3. \A r : ~Engine!Writes(None, r)
    BY DEF Engine!Writes
  <2>4. CASE Engine!Fail(None, tReply)
    BY <1>3, <2>4 DEF Engine!Fail
  <2>5. CASE Engine!HaveWritten(None, tReply)
    BY <1>3, <2>3, <2>5 DEF Engine!HaveWritten, Engine!Busy
  <2>6. ~Engine!HaveRead(None, tReply)
    BY DEF Engine!HaveRead, Engine!Busy
  <2> QED
    BY <2>2, <2>4, <2>5, <2>6
<1> QED
  BY <1>1, <1>2, <1>4, <1>5

-----------------------------------------------------------------------------
(***************************************************************************)
(* The data: beats, the accesses that move them, and what these do.        *)
(***************************************************************************)
\* A beat is never more than what is left, and one byte at width 0.
LEMMA BeatSize ==
  ASSUME width \in 0 .. 2, remaining \in Nat \ {0}
  PROVE  /\ Engine!BeatBytes \in Nat \ {0} /\ Engine!BeatBytes <= remaining
         /\ width = 0 => Engine!BeatBytes = 1
BY DEF Engine!BeatBytes

\* Consecutive addresses: the first, and how many.
LEMMA SpanFacts ==
  ASSUME NEW req, NEW a \in Int, NEW n \in Nat \ {0}, req.bytes = a .. a + n - 1
  PROVE  /\ First(req) = a /\ Cardinality(req.bytes) = n /\ a \in req.bytes
         /\ n = 1 => req.bytes = {a}
<1>1. a \in req.bytes /\ \A c \in req.bytes : c \in Int /\ a <= c
  OBVIOUS
<1>2. First(req) = a
  BY <1>1 DEF First
<1>3. Cardinality(a .. a + n - 1) = n
  BY FS_Interval
<1>4. n = 1 => req.bytes = {a}
  OBVIOUS
<1> QED
  BY <1>1, <1>2, <1>3, <1>4

\* What JobAssumption says of the transfer under way.
LEMMA SourceKinds ==
  ASSUME NEW j \in Job, TransferOf(j)
  PROVE  /\ sourceReg \in Nat /\ lengthReg \in Nat /\ width \in 0 .. 3
         /\ \/ sourceReg \in Memory /\ Extent(sourceReg, lengthReg) \subseteq Memory /\ sourceIncrement
            \/ sourceReg = Rx /\ ~sourceIncrement /\ width \in {0, 3}
            \/ sourceReg \notin Memory \cup {Rx, Tx}
BY JobAssumption DEF TransferOf

\* The same of where the transfer goes.
LEMMA DestinationKinds ==
  ASSUME NEW j \in Job, TransferOf(j)
  PROVE  /\ destinationReg \in Nat /\ lengthReg \in Nat /\ width \in 0 .. 3
         /\ \/ /\ destinationReg \in Memory /\ Extent(destinationReg, lengthReg) \subseteq Memory
               /\ destinationIncrement
            \/ destinationReg = Tx /\ ~destinationIncrement /\ width \in {0, 3}
            \/ destinationReg \notin Memory \cup {Rx, Tx}
BY JobAssumption DEF TransferOf

\* What is memory is not a register.
LEMMA ApartFacts ==
  /\ Memory \subseteq Nat /\ Rx \in Nat /\ Tx \in Nat /\ Rx # Tx
  /\ Rx \notin Memory /\ Tx \notin Memory /\ Rx \notin DmaWindow /\ Tx \notin DmaWindow
  /\ Memory \cap DmaWindow = {}
BY MemoryAssumption

\* A beat that is read is answered with the bytes that come next, or with an error.
LEMMA ReadAnswer ==
  ASSUME NEW j \in Job, TransferOf(j), Counted, BeatHeld, SourcesKept,
         dState = "ST_READ_REQUEST"
  PROVE  LET req == Engine!MemRequest
         IN /\ Answer(req).err \/ Answer(req).data = Beat
            /\ sourceReg \notin Memory \cup {Rx} => Answer(req).err
            /\ ~req.write /\ (req.bytes = {Rx} <=> sourceReg = Rx)
<1> DEFINE req == Engine!MemRequest
           n == Engine!BeatBytes
<1>1. width \in 0 .. 2 /\ remaining \in Nat \ {0} /\ transferred \in Nat /\ transferred + remaining = lengthReg
  BY SourceKinds DEF Counted
<1>2. n \in Nat \ {0} /\ n <= remaining /\ (width = 0 => n = 1)
  BY <1>1, BeatSize
<1>3. ~req.write /\ req.bytes = currentSource .. currentSource + n - 1
  BY DEF Engine!MemRequest, Engine!Read, Engine!Span
<1>4. sourceReg \in Nat /\ currentSource \in Nat
  BY <1>1, SourceKinds DEF Counted
<1> HIDE DEF req, n
<1>5. /\ First(req) = currentSource /\ Cardinality(req.bytes) = n /\ currentSource \in req.bytes
      /\ n = 1 => req.bytes = {currentSource}
  <2>1. currentSource \in Int /\ n \in Nat \ {0} /\ req.bytes = currentSource .. currentSource + n - 1
    BY <1>2, <1>3, <1>4
  <2> QED
    BY ONLY <2>1, SpanFacts
<1>6. CASE sourceReg \in Memory /\ Extent(sourceReg, lengthReg) \subseteq Memory /\ sourceIncrement
  <2>1. currentSource = sourceReg + transferred
    BY <1>6 DEF Counted
  <2>2. req.bytes \subseteq Extent(sourceReg, lengthReg)
    BY <1>1, <1>2, <1>3, <1>4, <2>1 DEF Extent
  <2>3. req.bytes \subseteq Memory /\ req.bytes # DmaWindow /\ req.bytes # {Rx}
    BY <1>5, <1>6, <2>2, ApartFacts
  <2>4. Answer(req).data = [i \in 1 .. n |-> mem[currentSource + i - 1]]
    BY <1>3, <1>5, <2>3 DEF Answer, Mapped
  <2>5. \A i \in 1 .. n : mem[currentSource + i - 1] = SourceByte(transferred + i - 1)
    <3> SUFFICES ASSUME NEW i \in 1 .. n PROVE mem[currentSource + i - 1] = SourceByte(transferred + i - 1)
      OBVIOUS
    <3>1. currentSource + i - 1 \in Extent(j.source, j.length) \cap Memory
      BY <1>2, <1>3, <1>4, <2>2, <2>3 DEF TransferOf
    <3>2. mem[currentSource + i - 1] = PowerUp[currentSource + i - 1]
      BY <3>1 DEF SourcesKept
    <3>3. currentSource + i - 1 = sourceReg + (transferred + i - 1)
      BY <1>1, <1>2, <1>4, <2>1
    <3> QED
      BY <1>6, <3>2, <3>3, ApartFacts DEF SourceByte
  <2>6. Answer(req).data = Beat
    BY <2>4, <2>5 DEF Beat, n
  <2> QED
    BY <1>3, <1>6, <2>3, <2>6, ApartFacts DEF req
<1>7. CASE sourceReg = Rx /\ ~sourceIncrement /\ width \in {0, 3}
  <2>1. n = 1 /\ currentSource = Rx /\ req.bytes = {Rx}
    BY <1>1, <1>2, <1>5, <1>7 DEF Counted
  <2>2. popped = transferred
    BY <1>1, <1>7 DEF BeatHeld, Unread
  <2>3. req.bytes # DmaWindow /\ Mapped(req)
    BY <2>1, ApartFacts DEF Mapped
  <2>4. Answer(req).data = <<Received(transferred)>>
    BY <1>3, <2>1, <2>2, <2>3 DEF Answer
  <2>5. Beat = [i \in 1 .. 1 |-> Received(transferred + i - 1)]
    BY <1>7, <2>1 DEF Beat, SourceByte, n
  <2>6. Answer(req).data = Beat
    BY <1>1, <2>4, <2>5
  <2> QED
    BY <1>3, <1>7, <2>1, <2>6 DEF req
<1>8. CASE sourceReg \notin Memory \cup {Rx, Tx}
  <2>1. transferred = 0 /\ sourceReg \notin DmaWindow
    BY <1>8 DEF BeatHeld, Counted
  <2>2. currentSource = sourceReg
    BY <1>4, <2>1 DEF Counted
  <2>3. ~Mapped(req) /\ req.bytes # {Rx}
    BY <1>5, <1>8, <2>1, <2>2 DEF Mapped
  <2>4. Answer(req).err
    BY <2>3 DEF Answer
  <2> QED
    BY <1>3, <1>8, <2>3, <2>4 DEF req
<1> QED
  BY <1>6, <1>7, <1>8, SourceKinds

\* A beat that is written lands where it belongs and nowhere else, or is refused.
LEMMA WriteEffect ==
  ASSUME NEW j \in Job, TransferOf(j), Counted, BeatHeld, BeatsLanded,
         dState = "ST_WRITE_REQUEST", Engine!MemRequest # None, Store(Engine!MemRequest)
  PROVE  LET req == Engine!MemRequest
         IN /\ req.write /\ req.data = Beat /\ (req.bytes = {Tx} <=> destinationReg = Tx)
            /\ destinationReg \notin Memory \cup {Tx} => Answer(req).err
            /\ destinationReg \in Memory =>
                 \A k \in 0 .. transferred + Engine!BeatBytes - 1 :
                   mem'[destinationReg + k] = SourceByte(k)
            /\ \A a \in Memory : a \notin Extent(destinationReg, lengthReg) => mem'[a] = mem[a]
<1> DEFINE req == Engine!MemRequest
           n == Engine!BeatBytes
<1>1. width \in 0 .. 2 /\ remaining \in Nat \ {0} /\ transferred \in Nat /\ transferred + remaining = lengthReg
  BY DestinationKinds DEF Counted
<1>2. n \in Nat \ {0} /\ n <= remaining /\ (width = 0 => n = 1)
  BY <1>1, BeatSize
<1>3. req = [Engine!Read(currentDestination) EXCEPT !.write = TRUE, !.data = readBuffer]
  BY DEF Engine!MemRequest
<1>4. req.write /\ req.data = Beat /\ req.bytes = currentDestination .. currentDestination + n - 1
  <2>1. readBuffer = Beat
    BY DEF BeatHeld
  <2>2. req.write /\ req.data = readBuffer /\ req.bytes = Engine!Span(currentDestination)
    <3> HIDE DEF req
    <3> QED
      BY <1>3 DEF Engine!Read
  <2> QED
    BY <2>1, <2>2 DEF Engine!Span
<1>5. destinationReg \in Nat /\ currentDestination \in Nat
  BY <1>1, DestinationKinds DEF Counted
<1>6. Store(req) /\ req # None
  OBVIOUS
<1> HIDE DEF req, n
<1>7. /\ First(req) = currentDestination /\ currentDestination \in req.bytes
      /\ n = 1 => req.bytes = {currentDestination}
  <2>1. currentDestination \in Int /\ n \in Nat \ {0}
        /\ req.bytes = currentDestination .. currentDestination + n - 1
    BY <1>2, <1>4, <1>5
  <2> QED
    BY ONLY <2>1, SpanFacts
<1>8. CASE destinationReg \in Memory /\ Extent(destinationReg, lengthReg) \subseteq Memory /\ destinationIncrement
  <2>1. currentDestination = destinationReg + transferred
    BY <1>8 DEF Counted
  <2>2. req.bytes \subseteq Extent(destinationReg, lengthReg)
    BY <1>1, <1>2, <1>4, <1>5, <2>1 DEF Extent
  <2>3. req.bytes \subseteq Memory /\ req.bytes # {Tx}
    BY <1>7, <1>8, <2>2, ApartFacts
  <2>4. mem' = [a \in Memory |-> IF a \in req.bytes THEN req.data[a - First(req) + 1] ELSE mem[a]]
    BY <1>4, <1>6, <2>3 DEF Store
  <2>5. \A a \in Memory : mem'[a] = IF a \in req.bytes THEN req.data[a - First(req) + 1] ELSE mem[a]
    BY <2>4
  <2>6. ASSUME NEW k \in 0 .. transferred + n - 1
        PROVE  mem'[destinationReg + k] = SourceByte(k)
    <3>1. destinationReg + k \in Extent(destinationReg, lengthReg) /\ destinationReg + k \in Memory
      <4>1. destinationReg + k \in Extent(destinationReg, lengthReg)
        BY <1>1, <1>2, <1>5, <2>6 DEF Extent
      <4> QED
        BY <1>8, <4>1
    <3>2. CASE k < transferred
      <4>1. destinationReg + k \notin req.bytes
        BY <1>1, <1>2, <1>4, <1>5, <2>1, <2>6, <3>2
      <4>2. mem[destinationReg + k] = SourceByte(k)
        BY <1>1, <1>2, <1>8, <2>6, <3>2 DEF BeatsLanded
      <4> QED
        BY <2>5, <3>1, <4>1, <4>2
    <3>3. CASE k >= transferred
      <4> DEFINE i == k - transferred + 1
      <4>1. destinationReg + k \in req.bytes
        BY <1>1, <1>2, <1>4, <1>5, <2>1, <2>6, <3>3
      <4>2. /\ (destinationReg + k) - First(req) + 1 = i
            /\ i \in 1 .. n /\ transferred + i - 1 = k
        BY <1>1, <1>2, <1>5, <1>7, <2>1, <2>6, <3>3
      <4> HIDE DEF i
      <4>3. Beat[i] = SourceByte(k)
        BY <4>2 DEF Beat, n
      <4>4. mem'[destinationReg + k] = req.data[i]
        <5> DEFINE a == destinationReg + k
        <5>1. a \in Memory
          BY <3>1
        <5>2. a \in req.bytes
          BY <4>1
        <5>3. a - First(req) + 1 = i
          BY <4>2
        <5> HIDE DEF a
        <5>4. mem'[a] = req.data[i]
          BY <2>5, <5>1, <5>2, <5>3
        <5> QED
          BY <5>4 DEF a
      <4> QED
        BY <1>4, <4>3, <4>4
    <3> QED
      BY <1>1, <1>2, <2>6, <3>2, <3>3
  <2>7. \A a \in Memory : a \notin Extent(destinationReg, lengthReg) => mem'[a] = mem[a]
    BY <2>2, <2>5
  <2> QED
    BY <1>4, <1>8, <2>3, <2>6, <2>7, ApartFacts DEF req, n
<1>9. CASE destinationReg = Tx /\ ~destinationIncrement /\ width \in {0, 3}
  <2>1. n = 1 /\ req.bytes = {Tx}
    BY <1>1, <1>2, <1>7, <1>9 DEF Counted
  <2>2. mem' = mem
    BY <1>6, <2>1, ApartFacts DEF Store
  <2> QED
    BY <1>4, <1>9, <2>1, <2>2, ApartFacts DEF req, n
<1>10. CASE destinationReg \notin Memory \cup {Rx, Tx}
  <2>1. transferred = 0 /\ destinationReg \notin DmaWindow
    BY <1>10 DEF BeatsLanded, Counted
  <2>2. currentDestination = destinationReg
    BY <1>5, <2>1 DEF Counted
  <2>3. ~Mapped(req) /\ req.bytes # {Tx} /\ ~(req.bytes \subseteq Memory)
    BY <1>7, <1>10, <2>1, <2>2 DEF Mapped
  <2>4. Answer(req).err
    BY <2>3 DEF Answer
  <2>5. mem' = mem
    BY <1>6, <2>3 DEF Store
  <2> QED
    BY <1>4, <1>10, <2>3, <2>4, <2>5 DEF req, n
<1> QED
  BY <1>8, <1>9, <1>10, DestinationKinds

-----------------------------------------------------------------------------
(***************************************************************************)
(* The transfer goes on as its registers say.                              *)
(***************************************************************************)

\* A transfer that an edge does not touch is where it was.
LEMMA MovingKept ==
  ASSUME Moving,
         Engine!Busy' =>
           /\ UNCHANGED <<sourceReg, destinationReg, lengthReg, dState, currentSource,
                          currentDestination, remaining, transferred, readBuffer, width,
                          sourceIncrement, destinationIncrement, mem, popped, sent>>
           /\ UNCHANGED tReply \/ ~Engine!MemRspReady
  PROVE  Moving'
<1> SUFFICES ASSUME Engine!Busy'
             PROVE  /\ (\E j \in Job : TransferOf(j))' /\ Counted' /\ BeatHeld' /\ BeatsLanded'
  BY DEF Moving
<1>1. UNCHANGED <<sourceReg, destinationReg, lengthReg, dState, currentSource,
                  currentDestination, remaining, transferred, readBuffer, width,
                  sourceIncrement, destinationIncrement, mem, popped, sent>>
  OBVIOUS
<1>2. (\E j \in Job : TransferOf(j)) /\ Counted /\ BeatHeld /\ BeatsLanded
  BY <1>1 DEF Moving, Engine!Busy
<1>3. Engine!BeatBytes' = Engine!BeatBytes /\ Unread' = Unread /\ Unwritten' = Unwritten
  BY <1>1 DEF Engine!BeatBytes, Unread, Unwritten
<1>4. \A k : SourceByte(k)' = SourceByte(k)
  BY <1>1 DEF SourceByte
<1>5. Beat' = Beat
  BY <1>1, <1>3, <1>4 DEF Beat
<1>6. (\E j \in Job : TransferOf(j))'
  BY <1>1, <1>2 DEF TransferOf
<1>7. Counted'
  BY <1>1, <1>2 DEF Counted
<1>8. BeatHeld'
  BY <1>1, <1>2, <1>3, <1>5 DEF BeatHeld, Engine!MemRspReady
<1>9. BeatsLanded'
  BY <1>1, <1>2, <1>3, <1>4 DEF BeatsLanded, Engine!MemRspReady
<1> QED
  BY <1>6, <1>7, <1>8, <1>9

\* A beat of one byte goes behind what has been sent.
LEMMA OneMoreSent ==
  ASSUME NEW n \in Nat
  PROVE  [k \in 1 .. n |-> SourceByte(k - 1)] \o [i \in 1 .. 1 |-> SourceByte(n + i - 1)]
           = [k \in 1 .. n + 1 |-> SourceByte(k - 1)]
<1> DEFINE S == {SourceByte(k) : k \in Int}
           s == [k \in 1 .. n |-> SourceByte(k - 1)]
           b == [i \in 1 .. 1 |-> SourceByte(n + i - 1)]
           e == [k \in 1 .. n + 1 |-> SourceByte(k - 1)]
<1>1. s \in Seq(S) /\ Len(s) = n /\ \A k \in 1 .. n : s[k] = SourceByte(k - 1)
  <2>1. s \in [1 .. n -> S]
    OBVIOUS
  <2> QED
    BY <2>1
<1>2. b \in Seq(S) /\ Len(b) = 1 /\ b[1] = SourceByte(n)
  <2>1. b \in [1 .. 1 -> S]
    OBVIOUS
  <2> QED
    BY <2>1
<1>3. e \in Seq(S) /\ Len(e) = n + 1 /\ \A k \in 1 .. n + 1 : e[k] = SourceByte(k - 1)
  <2>1. e \in [1 .. n + 1 -> S]
    OBVIOUS
  <2> QED
    BY <2>1
<1> HIDE DEF S, s, b, e
<1>4. s \o b \in Seq(S) /\ Len(s \o b) = n + 1
      /\ \A k \in 1 .. n + 1 : (s \o b)[k] = IF k <= n THEN s[k] ELSE b[k - n]
  <2>1. /\ s \o b \in Seq(S)
        /\ Len(s \o b) = Len(s) + Len(b)
        /\ \A k \in 1 .. Len(s) + Len(b) :
             (s \o b)[k] = IF k <= Len(s) THEN s[k] ELSE b[k - Len(s)]
    BY ONLY <1>1, <1>2, ConcatProperties
  <2> QED
    BY <1>1, <1>2, <2>1
<1>5. ASSUME NEW k \in 1 .. n + 1 PROVE (s \o b)[k] = e[k]
  <2>1. CASE k <= n
    BY <1>1, <1>3, <1>4, <2>1
  <2>2. CASE k = n + 1
    <3>1. k \in 1 .. n + 1 /\ ~(k <= n) /\ k - n = 1 /\ k - 1 = n
      BY <2>2
    <3> QED
      BY <1>2, <1>3, <1>4, <3>1
  <2>3. k <= n \/ k = n + 1
    OBVIOUS
  <2> QED
    BY <2>1, <2>2, <2>3
<1>6. s \o b = e
  BY <1>3, <1>4, <1>5, SeqEqual
<1> QED
  BY <1>6 DEF s, b, e

\* The fabric takes an access of the engine.
LEMMA TakenMoves ==
  ASSUME Core, Moving, SourcesKept, DmaTaken
  PROVE  Moving' /\ SourcesKept'
<1> DEFINE req == Engine!MemRequest
           n == Engine!BeatBytes
<1>1. /\ dState \in {"ST_READ_REQUEST", "ST_WRITE_REQUEST"} /\ req # None
      /\ dState' = IF dState = "ST_READ_REQUEST" THEN "ST_READ_WAIT" ELSE "ST_WRITE_WAIT"
      /\ UNCHANGED <<sourceReg, destinationReg, lengthReg, currentSource, currentDestination,
                     remaining, transferred, width, sourceIncrement, destinationIncrement>>
      /\ tReply' = Answer(req) /\ Store(req)
      /\ popped' = IF req.bytes = {Rx} /\ ~req.write THEN popped + 1 ELSE popped
      /\ sent' = IF req.bytes = {Tx} /\ req.write THEN sent \o req.data ELSE sent
  BY DEF DmaTaken
<1> HIDE DEF req, n
<1>2. Counted /\ BeatHeld /\ BeatsLanded
  BY <1>1 DEF Moving, Engine!Busy
<1>3. PICK j \in Job : TransferOf(j)
  BY <1>1 DEF Moving, Engine!Busy
<1>4. TransferOf(j)' /\ Counted'
  BY <1>1, <1>2, <1>3 DEF TransferOf, Counted
<1>5. /\ Engine!BeatBytes' = Engine!BeatBytes
      /\ \A k : SourceByte(k)' = SourceByte(k)
  BY <1>1 DEF Engine!BeatBytes, SourceByte
<1>6. Beat' = Beat
  BY <1>1, <1>5 DEF Beat
<1>7. /\ width \in 0 .. 2 /\ transferred \in Nat /\ transferred + remaining = lengthReg
      /\ n \in Nat \ {0} /\ n <= remaining /\ (width = 0 => n = 1)
  <2>1. width \in 0 .. 2 /\ transferred \in Nat /\ transferred + remaining = lengthReg
        /\ remaining \in Nat \ {0}
    BY <1>2, <1>3, SourceKinds DEF Counted
  <2> QED
    BY <2>1, BeatSize DEF n
<1>8. CASE dState = "ST_READ_REQUEST"
  <2>1. /\ Answer(req).err \/ Answer(req).data = Beat
        /\ sourceReg \notin Memory \cup {Rx} => Answer(req).err
        /\ ~req.write /\ (req.bytes = {Rx} <=> sourceReg = Rx)
    BY <1>2, <1>3, <1>8, ReadAnswer DEF req
  <2>2. /\ mem' = mem /\ sent' = sent /\ dState' = "ST_READ_WAIT"
        /\ popped' = IF sourceReg = Rx THEN popped + 1 ELSE popped
    BY <1>1, <1>8, <2>1 DEF Store
  <2>3. BeatHeld'
    <3>1. sourceReg = Rx => popped' = transferred + 1
      BY <1>2, <1>7, <1>8, <2>2 DEF BeatHeld, Unread
    <3>2. sourceReg \in Memory \cup {Rx} \/ (transferred = 0 /\ Answer(req).err)
      BY <1>2, <2>1 DEF BeatHeld
    <3> QED
      BY <1>1, <1>6, <2>1, <2>2, <3>1, <3>2 DEF BeatHeld, Unread
  <2>4. BeatsLanded'
    <3>1. Unwritten' = Unwritten
      BY <1>8, <2>2 DEF Unwritten
    <3> QED
      BY <1>1, <1>2, <1>5, <2>2, <3>1 DEF BeatsLanded
  <2>5. SourcesKept'
    BY <2>2 DEF SourcesKept
  <2> QED
    BY <1>4, <2>3, <2>4, <2>5 DEF Moving
<1>9. CASE dState = "ST_WRITE_REQUEST"
  <2>1. /\ req.write /\ req.data = Beat /\ (req.bytes = {Tx} <=> destinationReg = Tx)
        /\ destinationReg \notin Memory \cup {Tx} => Answer(req).err
        /\ destinationReg \in Memory =>
             \A k \in 0 .. transferred + n - 1 : mem'[destinationReg + k] = SourceByte(k)
        /\ \A a \in Memory : a \notin Extent(destinationReg, lengthReg) => mem'[a] = mem[a]
    BY <1>1, <1>2, <1>3, <1>9, WriteEffect DEF req, n
  <2>2. /\ popped' = popped /\ dState' = "ST_WRITE_WAIT"
        /\ sent' = IF destinationReg = Tx THEN sent \o Beat ELSE sent
    BY <1>1, <1>9, <2>1
  <2>3. BeatHeld'
    <3>1. Unread' = Unread
      BY <1>9, <2>2 DEF Unread
    <3>2. sourceReg \in Memory \cup {Rx}
      BY <1>2, <1>9 DEF BeatHeld
    <3> QED
      BY <1>1, <1>2, <2>2, <3>1, <3>2 DEF BeatHeld
  <2>4. BeatsLanded'
    <3>1. ASSUME destinationReg \in Memory
          PROVE  /\ \A k \in 0 .. transferred - 1 : mem'[destinationReg + k] = SourceByte(k)
                 /\ \A k \in transferred .. transferred + n - 1 : mem'[destinationReg + k] = SourceByte(k)
      BY <1>7, <2>1, <3>1
    <3>2. ASSUME destinationReg = Tx
          PROVE  sent' = [k \in 1 .. transferred + 1 |-> SourceByte(k - 1)]
      <4>1. n = 1
        BY <1>2, <1>3, <1>7, <3>2, DestinationKinds, ApartFacts
      <4>2. sent = [k \in 1 .. transferred |-> SourceByte(k - 1)]
        BY <1>2, <1>7, <1>9, <3>2 DEF BeatsLanded, Unwritten
      <4>3. Beat = [i \in 1 .. 1 |-> SourceByte(transferred + i - 1)]
        BY <4>1 DEF Beat, n
      <4> QED
        BY <1>7, <2>2, <3>2, <4>2, <4>3, OneMoreSent
    <3>3. destinationReg \in Memory \cup {Tx} \/ (transferred = 0 /\ Answer(req).err)
      BY <1>2, <2>1 DEF BeatsLanded
    <3>4. Unwritten' = 1
      BY <2>2 DEF Unwritten
    <3>5. destinationReg' = Tx => sent' = [k \in 1 .. transferred' + Unwritten' |-> SourceByte(k - 1)']
      BY <1>1, <1>5, <3>2, <3>4
    <3>6. /\ destinationReg' \in Memory =>
               \A k \in 0 .. transferred' - 1 : mem'[destinationReg' + k] = SourceByte(k)'
          /\ destinationReg' \in Memory =>
               \A k \in transferred' .. transferred' + Engine!BeatBytes' - 1 :
                 mem'[destinationReg' + k] = SourceByte(k)'
      BY <1>1, <1>5, <3>1 DEF n
    <3> QED
      BY <1>1, <3>3, <3>5, <3>6 DEF BeatsLanded
  <2>5. SourcesKept'
    <3> SUFFICES ASSUME NEW i \in Job, NEW a \in Extent(i.source, i.length) \cap Memory
                 PROVE  mem'[a] = PowerUp[a]
      BY DEF SourcesKept
    <3>1. a \notin Extent(destinationReg, lengthReg)
      BY <1>3, JobAssumption DEF TransferOf
    <3>2. mem[a] = PowerUp[a]
      BY DEF SourcesKept
    <3> QED
      BY <2>1, <3>1, <3>2
  <2> QED
    BY <1>4, <2>3, <2>4, <2>5 DEF Moving
<1> QED
  BY <1>1, <1>8, <1>9

\* The engine takes its answer; a transfer that ends without an error has moved everything.
LEMMA AnswerMoves ==
  ASSUME Core, Moving, Answered, owner = Dma
  PROVE  /\ Moving'
         /\ ~Engine!Busy' /\ error' = "NONE" /\ destinationReg \in Memory =>
              \A k \in 0 .. lengthReg - 1 : mem[destinationReg + k] = SourceByte(k)
<1> DEFINE n == Engine!BeatBytes
<1>1. /\ UNCHANGED <<sourceReg, destinationReg, lengthReg>> /\ mem' = mem /\ HistoryKept
      /\ Engine!Fail(None, tReply) \/ Engine!HaveRead(None, tReply) \/ Engine!HaveWritten(None, tReply)
  <2>1. owner # Cpu /\ owner # Fetch
    BY DEF Cpu, Fetch, Dma
  <2> QED
    BY <2>1 DEF Answered
<1>2. Engine!Busy /\ Counted /\ BeatHeld /\ BeatsLanded
  BY DEF Core, NoOrphan, Engine!MemRspReady, Engine!Busy, Moving
<1>3. PICK j \in Job : TransferOf(j)
  BY <1>2 DEF Moving
<1>4. \A k : SourceByte(k)' = SourceByte(k)
  BY <1>1 DEF SourceByte
<1>5. /\ width \in 0 .. 2 /\ transferred \in Nat /\ transferred + remaining = lengthReg
      /\ remaining \in Nat \ {0} /\ n \in Nat \ {0} /\ n <= remaining /\ (width = 0 => n = 1)
  <2>1. width \in 0 .. 2 /\ transferred \in Nat /\ transferred + remaining = lengthReg
        /\ remaining \in Nat \ {0}
    BY <1>2, <1>3, SourceKinds DEF Counted
  <2> QED
    BY <2>1, BeatSize
<1> HIDE DEF n
<1>6. CASE Engine!Fail(None, tReply)
  BY <1>6 DEF Engine!Fail, Engine!Busy, Moving
<1>7. CASE Engine!HaveRead(None, tReply)
  <2>1. /\ dState = "ST_READ_WAIT" /\ ~tReply.err /\ dState' = "ST_WRITE_REQUEST"
        /\ readBuffer' = tReply.data
        /\ UNCHANGED <<currentSource, currentDestination, remaining, transferred, width,
                       sourceIncrement, destinationIncrement>>
    BY <1>7 DEF Engine!HaveRead, Engine!progress, Engine!latches
  <2>2. Engine!Busy' /\ UNCHANGED <<popped, sent>>
    BY <1>1, <2>1 DEF HistoryKept, Engine!Busy
  <2>3. Engine!BeatBytes' = Engine!BeatBytes /\ Unread' = Unread /\ Unwritten' = Unwritten
    BY <2>1 DEF Engine!BeatBytes, Unread, Unwritten
  <2>4. Beat' = Beat
    BY <1>4, <2>1, <2>3 DEF Beat
  <2>5. TransferOf(j)' /\ Counted'
    BY <1>1, <1>2, <1>3, <2>1 DEF TransferOf, Counted
  <2>6. BeatHeld'
    BY <1>1, <1>2, <2>1, <2>2, <2>3, <2>4 DEF BeatHeld
  <2>7. BeatsLanded'
    BY <1>1, <1>2, <1>4, <2>1, <2>2, <2>3 DEF BeatsLanded
  <2> QED
    BY <2>2, <2>5, <2>6, <2>7 DEF Moving
<1>8. CASE Engine!HaveWritten(None, tReply)
  <2>1. /\ dState = "ST_WRITE_WAIT" /\ ~tReply.err
        /\ transferred' = transferred + n /\ remaining' = remaining - n
        /\ currentSource' = IF sourceIncrement THEN currentSource + n ELSE currentSource
        /\ currentDestination' = IF destinationIncrement THEN currentDestination + n
                                 ELSE currentDestination
        /\ UNCHANGED <<width, sourceIncrement, destinationIncrement>>
        /\ IF remaining <= n THEN dState' = "ST_IDLE" ELSE dState' = "ST_READ_REQUEST"
    BY <1>8 DEF Engine!HaveWritten, Engine!latches, n
  <2>2. destinationReg \in Memory =>
          \A k \in 0 .. transferred + n - 1 : mem[destinationReg + k] = SourceByte(k)
    <3> SUFFICES ASSUME destinationReg \in Memory, NEW k \in 0 .. transferred + n - 1
                 PROVE  mem[destinationReg + k] = SourceByte(k)
      OBVIOUS
    <3>1. k \in 0 .. transferred - 1 \/ k \in transferred .. transferred + n - 1
      BY <1>5
    <3> QED
      BY <1>2, <2>1, <3>1 DEF BeatsLanded, n
  <2>3. CASE remaining <= n
    <3>1. lengthReg - 1 = transferred + n - 1
      BY <1>5, <2>1, <2>3
    <3>2. Moving'
      BY <2>1, <2>3 DEF Engine!Busy, Moving
    <3> QED
      BY <2>2, <3>1, <3>2
  <2>4. CASE ~(remaining <= n)
    <3>1. dState' = "ST_READ_REQUEST" /\ Engine!Busy' /\ UNCHANGED <<popped, sent>>
      BY <1>1, <2>1, <2>4 DEF HistoryKept, Engine!Busy
    <3>2. Unread = 1 /\ Unwritten = 1 /\ Unread' = 0 /\ Unwritten' = 0
      <4>1. dState = "ST_WRITE_WAIT" /\ dState' = "ST_READ_REQUEST"
        BY <2>1, <3>1
      <4> QED
        BY <4>1 DEF Unread, Unwritten
    <3>3. TransferOf(j)'
      BY <1>1, <1>3, <2>1 DEF TransferOf
    <3>4. sourceReg \in Nat /\ destinationReg \in Nat
      BY <1>3, SourceKinds, DestinationKinds
    <3>5. Counted'
      <4>1. transferred' \in Nat /\ remaining' \in Nat \ {0} /\ transferred' + remaining' = lengthReg
        BY <1>5, <2>1, <2>4
      <4>2. currentSource' = IF sourceIncrement THEN sourceReg + transferred' ELSE sourceReg
        BY <1>2, <1>5, <2>1, <3>4 DEF Counted
      <4>3. currentDestination' = IF destinationIncrement THEN destinationReg + transferred'
                                  ELSE destinationReg
        BY <1>2, <1>5, <2>1, <3>4 DEF Counted
      <4> QED
        BY <1>1, <1>2, <2>1, <4>1, <4>2, <4>3 DEF Counted
    <3>6. BeatHeld'
      <4>1. sourceReg \in Memory \cup {Rx}
        BY <1>2, <2>1 DEF BeatHeld
      <4>2. sourceReg = Rx => popped = transferred'
        <5>1. sourceReg = Rx => n = 1
          BY <1>3, <1>5, SourceKinds, ApartFacts
        <5> QED
          BY <1>2, <2>1, <3>2, <5>1 DEF BeatHeld
      <4> QED
        BY <1>1, <1>5, <2>1, <3>1, <3>2, <4>1, <4>2 DEF BeatHeld
    <3>7. BeatsLanded'
      <4>1. destinationReg \in Memory \cup {Tx}
        BY <1>2, <2>1 DEF BeatsLanded
      <4>2. destinationReg = Tx => sent = [k \in 1 .. transferred' |-> SourceByte(k - 1)]
        <5>1. destinationReg = Tx => n = 1
          BY <1>3, <1>5, DestinationKinds, ApartFacts
        <5> QED
          BY <1>2, <2>1, <3>2, <5>1 DEF BeatsLanded
      <4>3. transferred' + Unwritten' = transferred'
        <5>1. transferred' + 0 = transferred'
          BY <1>5, <2>1
        <5> QED
          BY <3>2, <5>1
      <4>4. destinationReg' = Tx => sent' = [k \in 1 .. transferred' + Unwritten' |-> SourceByte(k - 1)']
        BY <1>1, <1>4, <3>1, <4>2, <4>3
      <4>5. destinationReg' \in Memory =>
              \A k \in 0 .. transferred' - 1 : mem'[destinationReg' + k] = SourceByte(k)'
        <5>1. transferred' - 1 = transferred + n - 1
          BY <1>5, <2>1
        <5> QED
          BY <1>1, <1>4, <2>2, <5>1
      <4> QED
        BY <1>1, <3>1, <4>1, <4>4, <4>5 DEF BeatsLanded
    <3> QED
      BY <3>1, <3>3, <3>5, <3>6, <3>7 DEF Moving
  <2> QED
    BY <2>3, <2>4
<1> QED
  BY <1>1, <1>6, <1>7, <1>8

\* Every edge keeps the transfer true to its registers, and its sources as they were.
LEMMA DataStep ==
  ASSUME Core, Programmed, Moving, SourcesKept, Fresh,
         Waits \/ FetchTaken \/ CpuTaken \/ DmaTaken \/ Answered
  PROVE  Moving' /\ SourcesKept' /\ Fresh'
<1>0. None \notin {Cpu, Fetch, Dma} /\ Cpu # Fetch /\ Cpu # Dma /\ Fetch # Dma
  BY NoneAssumption DEF Cpu, Fetch, Dma
<1>1. Fresh'
  <2>1. CASE HistoryKept
    BY <2>1 DEF HistoryKept, Fresh
  <2>2. CASE DmaTaken
    BY <2>2 DEF DmaTaken, Engine!Busy, Fresh
  <2> QED
    BY <2>1, <2>2 DEF Waits, FetchTaken, CpuTaken, Answered
<1>2. mem' = mem => SourcesKept'
  BY DEF SourcesKept
<1>3. ASSUME UNCHANGED dmaRegs, UNCHANGED mem, HistoryKept, UNCHANGED tReply \/ owner # Dma
      PROVE  Moving' /\ SourcesKept'
  <2>1. UNCHANGED <<sourceReg, destinationReg, lengthReg, dState, currentSource,
                    currentDestination, remaining, transferred, readBuffer, width,
                    sourceIncrement, destinationIncrement>>
    BY <1>3 DEF dmaRegs
  <2>2. UNCHANGED tReply \/ ~Engine!MemRspReady
    BY <1>3 DEF Core, NoOrphan
  <2>3. Engine!Busy' => UNCHANGED <<popped, sent>>
    BY <1>3 DEF HistoryKept
  <2> QED
    BY <1>2, <1>3, <2>1, <2>2, <2>3, MovingKept
<1>4. CASE Waits
  BY <1>1, <1>3, <1>4 DEF Waits
<1>5. CASE FetchTaken
  BY <1>0, <1>1, <1>3, <1>5 DEF FetchTaken, Takes
<1>6. CASE CpuTaken
  <2>1. owner = None /\ owner # Dma /\ mem' = mem /\ HistoryKept /\ UNCHANGED <<pc, job>>
    BY <1>0, <1>6 DEF CpuTaken, Takes
  <2>2. ~Engine!MemRspReady
    BY <2>1 DEF Core, NoOrphan
  <2>3. CASE AbortTaken
    BY <1>1, <1>2, <2>1, <2>3 DEF AbortTaken, Moving, Engine!Busy
  <2>4. CASE RegisterTaken
    <3>1. Engine!Busy' =>
           /\ Engine!Busy
           /\ UNCHANGED <<sourceReg, destinationReg, lengthReg, dState, currentSource,
                          currentDestination, remaining, transferred, readBuffer, width,
                          sourceIncrement, destinationIncrement, mem, popped, sent>>
      BY <2>1, <2>4 DEF RegisterTaken, Engine!Busy, HistoryKept
    <3> QED
      BY <1>1, <1>2, <2>1, <2>2, <3>1, MovingKept
  <2>5. CASE StartTaken
    <3> SUFFICES ASSUME Engine!Busy' PROVE Moving'
      BY <1>1, <1>2, <2>1 DEF Moving
    <3>1. /\ pc = "control" /\ ~Engine!Busy /\ dState' = "ST_READ_REQUEST" /\ lengthReg # 0
          /\ job.width # 3 /\ {sourceReg, destinationReg} \cap DmaWindow = {}
          /\ UNCHANGED <<sourceReg, destinationReg, lengthReg>>
          /\ currentSource' = sourceReg /\ currentDestination' = destinationReg
          /\ remaining' = lengthReg /\ transferred' = 0
          /\ width' = job.width /\ sourceIncrement' = job.sourceIncrement
          /\ destinationIncrement' = job.destinationIncrement
      BY <2>5 DEF StartTaken, Engine!Busy
    <3>2. sourceReg = job.source /\ destinationReg = job.destination /\ lengthReg = job.length
      BY <1>0, <2>1, <3>1 DEF Programmed, SourceSet, DestinationSet, LengthSet
    <3>3. job \in Job
      BY DEF Core, Wired
    <3>4. TransferOf(job)'
      BY <2>1, <3>1, <3>2 DEF TransferOf
    <3>5. popped' = 0 /\ sent' = <<>>
      BY <2>1, <3>1 DEF Fresh, HistoryKept
    <3>6. sourceReg \in Nat /\ destinationReg \in Nat /\ lengthReg \in Nat
      BY <3>2, <3>3, JobAssumption
    <3>7. Counted'
      <4>1. transferred' \in Nat /\ remaining' \in Nat \ {0} /\ transferred' + remaining' = lengthReg'
        BY <3>1, <3>6
      <4>2. /\ currentSource' = IF sourceIncrement' THEN sourceReg' + transferred' ELSE sourceReg'
            /\ currentDestination' = IF destinationIncrement' THEN destinationReg' + transferred'
                                     ELSE destinationReg'
        BY <3>1, <3>6
      <4> QED
        BY <3>1, <4>1, <4>2 DEF Counted
    <3>8. Unread' = 0 /\ Unwritten' = 0
      BY <3>1 DEF Unread, Unwritten
    <3>9. BeatHeld'
      BY <3>1, <3>5, <3>8 DEF BeatHeld
    <3>10. BeatsLanded'
      <4>1. <<>> = [k \in 1 .. 0 |-> SourceByte(k - 1)'] /\ transferred' + Unwritten' = 0
        BY <3>1, <3>8
      <4>2. \A k \in 0 .. transferred' - 1 : FALSE
        BY <3>1
      <4> QED
        BY <3>1, <3>5, <4>1, <4>2 DEF BeatsLanded
    <3>11. (\E j \in Job : TransferOf(j))'
      BY <2>1, <3>3, <3>4
    <3> QED
      BY <3>7, <3>9, <3>10, <3>11 DEF Moving
  <2> QED
    BY <1>6, <2>3, <2>4, <2>5, EngineTaken DEF Core
<1>7. CASE DmaTaken
  BY <1>1, <1>7, TakenMoves
<1>8. CASE Answered
  <2>1. CASE owner = Dma
    BY <1>1, <1>2, <1>8, <2>1, AnswerMoves DEF Answered
  <2>2. CASE owner # Dma
    BY <1>1, <1>3, <1>8, <2>2 DEF Answered
  <2> QED
    BY <2>1, <2>2
<1> QED
  BY <1>4, <1>5, <1>6, <1>7, <1>8

-----------------------------------------------------------------------------
(***************************************************************************)
(* The program knows what it has programmed, and what its wait has meant.  *)
(***************************************************************************)

\* While the program has no access under way, all it can do is call a helper.
LEMMA ProgramKept ==
  ASSUME Programmed, Waited, ProgramGoesOn, owner # Cpu, owner' # Cpu,
         UNCHANGED <<sourceReg, destinationReg, lengthReg>>,
         ~Engine!Busy => ~Engine!Busy',
         job.waits /\ Pending /\ UNCHANGED job => Pending'
  PROVE  Programmed' /\ Waited'
<1>1. CASE UNCHANGED <<pc, job>>
  <2>1. Programmed'
    BY <1>1 DEF Programmed, Setup, SourceSet, DestinationSet, LengthSet
  <2>2. Waited'
    BY <1>1 DEF Waited
  <2> QED
    BY <2>1, <2>2
<1>2. CASE pc' \in {"poll", "abort", "stray"}
  BY <1>2 DEF Programmed, Setup, SourceSet, DestinationSet, LengthSet, Waited
<1> QED
  BY <1>1, <1>2 DEF ProgramGoesOn

\* Pending is about the registers, what the copy has reached, and the program's transfer.
LEMMA PendingKept ==
  ASSUME Pending, UNCHANGED <<job, mem, error>>, Engine!Busy' <=> Engine!Busy,
         UNCHANGED <<sourceReg, destinationReg, lengthReg, width, sourceIncrement,
                     destinationIncrement>>
  PROVE  Pending'
<1>1. TransferOf(job) => TransferOf(job)'
  BY DEF TransferOf
<1>2. Copied(job) => Copied(job)'
  BY DEF Copied
<1> QED
  BY <1>1, <1>2 DEF Pending

\* What the program is told about the engine.
LEMMA StatusAnswer ==
  ASSUME Core, CpuTaken, pc \in {"poll", "wait"}
  PROVE  tReply'.data = Status
<1>1. Access[pc].bytes = DmaWindow /\ ~Access[pc].write
  BY AccessTable, AccessFields DEF Places
<1>2. Mapped(Access[pc])
  BY <1>1 DEF Mapped
<1> QED
  BY <1>1, <1>2 DEF CpuTaken, Answer

\* Where the program goes with an answer.
LEMMA NextPlaces ==
  ASSUME pc \in Places \ {"idle"}, NEW reply
  PROVE  /\ pc = "poll" => NextPc(reply) = IF "BUSY" \in reply.data THEN "poll" ELSE "clear"
         /\ pc = "clear" => NextPc(reply) = "source"
         /\ pc = "source" => NextPc(reply) = "destination"
         /\ pc = "destination" => NextPc(reply) = "length"
         /\ pc = "length" => NextPc(reply) = "control"
         /\ pc = "control" => NextPc(reply) = IF job.waits THEN "wait" ELSE "idle"
         /\ pc = "wait" => NextPc(reply) = IF "BUSY" \in reply.data THEN "wait" ELSE "idle"
         /\ pc \in {"abort", "stray"} => NextPc(reply) = "idle"
BY DEF NextPc

\* Every edge keeps the program right about what it has set up and what its wait means.
LEMMA ProgramStep ==
  ASSUME Core, Programmed, Moving, Waited,
         Waits \/ FetchTaken \/ CpuTaken \/ DmaTaken \/ Answered
  PROVE  Programmed' /\ Waited'
<1>0. None \notin {Cpu, Fetch, Dma} /\ Cpu # Fetch /\ Cpu # Dma /\ Fetch # Dma
  BY NoneAssumption DEF Cpu, Fetch, Dma
<1>1. ASSUME UNCHANGED dmaRegs, UNCHANGED mem
      PROVE  /\ UNCHANGED <<sourceReg, destinationReg, lengthReg, error, dState>>
             /\ ~Engine!Busy => ~Engine!Busy'
             /\ job.waits /\ Pending /\ UNCHANGED job => Pending'
  <2>1. /\ UNCHANGED <<sourceReg, destinationReg, lengthReg, width, sourceIncrement,
                       destinationIncrement, error, dState>>
        /\ Engine!Busy' <=> Engine!Busy
    BY <1>1 DEF dmaRegs, Engine!Busy
  <2> QED
    BY <1>1, <2>1, PendingKept
<1>2. CASE Waits
  <2>1. CASE owner = Cpu
    <3>1. /\ UNCHANGED <<pc, job, owner, tReply, dState, error>>
          /\ UNCHANGED <<sourceReg, destinationReg, lengthReg>>
          /\ job.waits /\ Pending => Pending'
      BY <1>1, <1>2, <2>1 DEF Waits
    <3>2. Programmed'
      BY <3>1 DEF Programmed, Setup, SourceSet, DestinationSet, LengthSet, Engine!Busy
    <3>3. Waited'
      BY <3>1 DEF Waited, Engine!Busy
    <3> QED
      BY <3>2, <3>3
  <2>2. CASE owner # Cpu
    BY <1>1, <1>2, <2>2, ProgramKept DEF Waits
  <2> QED
    BY <2>1, <2>2
<1>3. CASE FetchTaken
  BY <1>0, <1>1, <1>3, ProgramKept DEF FetchTaken, Takes
<1>4. CASE CpuTaken
  <2>1. /\ owner = None /\ owner # Cpu /\ owner' = Cpu /\ UNCHANGED <<pc, job, mem>> /\ pc # "idle"
    BY <1>0, <1>4 DEF CpuTaken, Takes
  <2>2. pc \in {"poll", "wait"} => tReply'.data = Status
    BY <1>4, StatusAnswer
  <2>3. "BUSY" \notin Status => ~Engine!Busy
    BY DEF Status
  <2>4. CASE AbortTaken
    BY <2>1, <2>4 DEF AbortTaken, Programmed, Setup, SourceSet, DestinationSet, LengthSet, Waited
  <2>5. CASE StartTaken
    <3>1. pc = "control" /\ ~Engine!Busy /\ UNCHANGED <<sourceReg, destinationReg, lengthReg>>
      BY <2>5 DEF StartTaken
    <3>2. Programmed'
      BY <2>1, <3>1 DEF Programmed, Setup, SourceSet, DestinationSet, LengthSet
    <3>3. sourceReg = job.source /\ destinationReg = job.destination /\ lengthReg = job.length
      BY <2>1, <3>1 DEF Programmed, SourceSet, DestinationSet, LengthSet
    <3>4. Pending'
      <4>1. CASE Engine!Busy'
        <5>1. TransferOf(job)'
          BY <2>1, <2>5, <3>1, <3>3 DEF StartTaken, TransferOf
        <5> QED
          BY <4>1, <5>1 DEF Pending
      <4>2. CASE ~Engine!Busy'
        <5>1. error' = "NONE" => lengthReg = 0
          BY <2>5, <4>2 DEF StartTaken, Engine!Busy
        <5>2. job.length = 0 => Copied(job)'
          BY <2>1 DEF Copied
        <5> QED
          BY <3>3, <4>2, <5>1, <5>2 DEF Pending
      <4> QED
        BY <4>1, <4>2
    <3>5. Waited'
      BY <2>1, <3>1, <3>4 DEF Waited
    <3> QED
      BY <3>2, <3>5
  <2>6. CASE RegisterTaken
    <3>1. /\ Engine!Busy' <=> Engine!Busy
          /\ pc = "control" => Engine!Busy
          /\ pc # "clear" => error' = error
          /\ pc \in {"poll", "wait"} =>
               UNCHANGED <<sourceReg, destinationReg, lengthReg, width, sourceIncrement,
                           destinationIncrement>>
      BY <2>6 DEF RegisterTaken, Engine!Busy
    <3>2. Programmed'
      <4>1. Setup' => ~Engine!Busy
        BY <2>1, <2>2, <2>3, <3>1 DEF Programmed, Setup
      <4>2. SourceSet' => sourceReg' = job'.source
        BY <2>1, <2>6, <4>1 DEF Programmed, Setup, SourceSet, RegisterTaken
      <4>3. DestinationSet' => destinationReg' = job'.destination
        BY <2>1, <2>6, <4>1 DEF Programmed, Setup, DestinationSet, RegisterTaken
      <4>4. LengthSet' => lengthReg' = job'.length
        BY <2>1, <2>6, <4>1 DEF Programmed, Setup, LengthSet, RegisterTaken
      <4> QED
        BY <3>1, <4>1, <4>2, <4>3, <4>4 DEF Programmed
    <3>3. Waited'
      <4>1. CASE pc = "wait"
        <5>1. job.waits /\ Pending'
          BY <2>1, <3>1, <4>1, PendingKept DEF Waited
        <5>2. "BUSY" \notin Status => (error = "NONE" <=> "ERROR" \notin Status)
          BY DEF Status
        <5> QED
          BY <2>1, <2>2, <2>3, <3>1, <4>1, <5>1, <5>2 DEF Waited
      <4>2. CASE pc = "control"
        <5>1. ~Setup
          BY <3>1, <4>2 DEF Programmed
        <5> QED
          BY <2>1, <4>2, <5>1 DEF Setup
      <4>3. CASE pc \notin {"wait", "control"}
        BY <2>1, <4>3 DEF Waited
      <4> QED
        BY <4>1, <4>2, <4>3
    <3> QED
      BY <3>2, <3>3
  <2> QED
    BY <1>4, <2>4, <2>5, <2>6, EngineTaken DEF Core
<1>5. CASE DmaTaken
  <2>1. /\ owner # Cpu /\ owner' # Cpu /\ ProgramGoesOn /\ Engine!Busy /\ Engine!Busy'
        /\ UNCHANGED <<sourceReg, destinationReg, lengthReg, width, sourceIncrement, destinationIncrement>>
    BY <1>0, <1>5 DEF DmaTaken, Takes, Engine!Busy
  <2>2. Pending /\ UNCHANGED job => Pending'
    BY <2>1 DEF Pending, TransferOf
  <2> QED
    BY <2>1, <2>2, ProgramKept
<1>6. CASE Answered
  <2>1. CASE owner = Cpu
    <3>1. /\ UNCHANGED <<job, mem>> /\ UNCHANGED dmaRegs /\ owner' = None /\ owner' # Cpu
          /\ pc' = NextPc(tReply) /\ pc \in Places \ {"idle"}
      BY <1>0, <1>6, <2>1 DEF Answered, Core, Wired
    <3>2. /\ UNCHANGED <<sourceReg, destinationReg, lengthReg, error, dState>>
          /\ ~Engine!Busy => ~Engine!Busy'
          /\ job.waits /\ Pending => Pending'
      BY <1>1, <3>1
    <3>3. \/ pc = "poll" /\ pc' = "poll"
          \/ pc = "poll" /\ pc' = "clear" /\ "BUSY" \notin tReply.data
          \/ pc = "clear" /\ pc' = "source"
          \/ pc = "source" /\ pc' = "destination"
          \/ pc = "destination" /\ pc' = "length"
          \/ pc = "length" /\ pc' = "control"
          \/ pc = "control" /\ pc' = "wait" /\ job.waits
          \/ pc = "wait" /\ pc' = "wait"
          \/ pc' = "idle"
      <4> DEFINE next == NextPc(tReply)
      <4>1. /\ pc = "poll" => next = IF "BUSY" \in tReply.data THEN "poll" ELSE "clear"
            /\ pc = "clear" => next = "source"
            /\ pc = "source" => next = "destination"
            /\ pc = "destination" => next = "length"
            /\ pc = "length" => next = "control"
            /\ pc = "control" => next = IF job.waits THEN "wait" ELSE "idle"
            /\ pc = "wait" => next = IF "BUSY" \in tReply.data THEN "wait" ELSE "idle"
            /\ pc \in {"abort", "stray"} => next = "idle"
        BY <3>1, NextPlaces
      <4>2. pc' = next
        BY <3>1
      <4> HIDE DEF next
      <4> QED
        BY <3>1, <4>1, <4>2 DEF Places
    <3>4. Programmed'
      BY <2>1, <3>1, <3>2, <3>3 DEF Programmed, Setup, SourceSet, DestinationSet, LengthSet
    <3>5. Waited'
      BY <2>1, <3>1, <3>2, <3>3 DEF Waited
    <3> QED
      BY <3>4, <3>5
  <2>2. CASE owner = Fetch
    BY <1>0, <1>1, <1>6, <2>2, ProgramKept DEF Answered
  <2>3. CASE owner = Dma
    <3>1. /\ owner # Cpu /\ owner' # Cpu /\ ProgramGoesOn /\ UNCHANGED mem
          /\ UNCHANGED <<sourceReg, destinationReg, lengthReg>>
          /\ \/ Engine!Fail(None, tReply) \/ Engine!HaveRead(None, tReply)
             \/ Engine!HaveWritten(None, tReply)
      BY <1>0, <1>6, <2>3 DEF Answered
    <3>2. Engine!Busy /\ UNCHANGED <<width, sourceIncrement, destinationIncrement>>
      BY <3>1 DEF Engine!Fail, Engine!HaveRead, Engine!HaveWritten, Engine!latches, Engine!Busy,
                  Engine!MemRspReady
    <3>3. ASSUME job.waits, Pending, UNCHANGED job PROVE Pending'
      <4>1. TransferOf(job)
        BY <3>2, <3>3 DEF Pending
      <4>2. CASE Engine!Busy'
        BY <3>1, <3>2, <3>3, <4>1, <4>2 DEF Pending, TransferOf
      <4>3. CASE ~Engine!Busy'
        <5>1. job.source \in Memory /\ job.destination \in Memory
          BY <3>3, JobAssumption DEF Core, Wired
        <5>2. error' = "NONE" =>
                \A k \in 0 .. job.length - 1 : mem[job.destination + k] = SourceByte(k)
          BY <1>6, <2>3, <4>1, <4>3, <5>1, AnswerMoves DEF TransferOf
        <5>3. \A k : SourceByte(k) = PowerUp[job.source + k]
          BY <4>1, <5>1, ApartFacts DEF SourceByte, TransferOf
        <5>4. error' = "NONE" => Copied(job)'
          BY <3>1, <3>3, <5>2, <5>3 DEF Copied
        <5> QED
          BY <4>3, <5>4 DEF Pending
      <4> QED
        BY <4>2, <4>3
    <3> QED
      BY <3>1, <3>2, <3>3, ProgramKept
  <2> QED
    BY <1>6, <2>1, <2>2, <2>3 DEF Answered
<1> QED
  BY <1>2, <1>3, <1>4, <1>5, <1>6

-----------------------------------------------------------------------------
\* The invariant holds at power-up.
LEMMA InitIInv == Init => IInv
<1> SUFFICES ASSUME Init PROVE IInv
  OBVIOUS
<1>1. Core
  BY InitCore
<1>2. /\ dState = "ST_IDLE" /\ pc = "idle" /\ mem = PowerUp /\ popped = 0 /\ sent = <<>>
  BY DEF Init, Engine!Init
<1>3. ~Engine!Busy
  BY <1>2 DEF Engine!Busy
<1>4. Programmed
  BY <1>2 DEF Programmed, Setup, SourceSet, DestinationSet, LengthSet
<1>5. Moving /\ Fresh
  BY <1>2, <1>3 DEF Moving, Fresh
<1>6. SourcesKept
  BY <1>2 DEF SourcesKept
<1>7. Waited
  BY <1>2 DEF Waited
<1> QED
  BY <1>1, <1>4, <1>5, <1>6, <1>7 DEF IInv

\* A stuttering step keeps the invariant.
LEMMA IInvStutters == ASSUME IInv, UNCHANGED vars PROVE IInv'
<1>1. Core'
  BY CoreStutters DEF IInv
<1>2. UNCHANGED <<sourceReg, destinationReg, lengthReg, dState, currentSource, currentDestination,
                  remaining, transferred, readBuffer, width, sourceIncrement, destinationIncrement,
                  error, owner, tReply, pc, job, mem, popped, sent>>
  BY DEF vars, dmaRegs
<1>3. Engine!Busy' <=> Engine!Busy
  BY <1>2 DEF Engine!Busy
<1>4. Programmed'
  BY <1>2, <1>3 DEF IInv, Programmed, Setup, SourceSet, DestinationSet, LengthSet
<1>5. Moving'
  BY <1>2, <1>3, MovingKept DEF IInv
<1>6. SourcesKept' /\ Fresh'
  BY <1>2, <1>3 DEF IInv, SourcesKept, Fresh
<1>7. Waited'
  BY <1>2, <1>3, PendingKept DEF IInv, Waited
<1> QED
  BY <1>1, <1>4, <1>5, <1>6, <1>7 DEF IInv

(***************************************************************************)
(* The inductive invariant: who has the bus, what the program has set up,  *)
(* where the beat under way and the bytes before it are, and what a wait   *)
(* is for.                                                                 *)
(***************************************************************************)
THEOREM DmaInvariance == Spec => []IInv
<1>1. ASSUME IInv, [Next]_vars PROVE IInv'
  <2>1. CASE Next
    <3>1. /\ Waits \/ FetchTaken \/ CpuTaken \/ DmaTaken \/ Answered
          /\ fetchReq' \in {None, [write |-> FALSE, bytes |-> Memory, data |-> None, legal |-> TRUE]}
      BY <1>1, <2>1, EdgeShape DEF Next, IInv, Core
    <3> QED
      BY <1>1, <3>1, CoreStep, DataStep, ProgramStep DEF IInv
  <2>2. CASE UNCHANGED vars
    BY <1>1, <2>2, IInvStutters
  <2> QED
    BY <1>1, <2>1, <2>2
<1> QED
  BY InitIInv, <1>1, PTL DEF Spec

(***************************************************************************)
(* An access of the engine is outstanding exactly while the engine waits   *)
(* for one, whatever is aborted, restarted or misprogrammed, and when.     *)
(***************************************************************************)
THEOREM NoAccessIsOrphaned == Spec => []NoOrphan
<1>1. IInv => NoOrphan
  BY DEF IInv, Core
<1> QED
  BY <1>1, DmaInvariance, PTL

(***************************************************************************)
(* A transfer that ends, by itself, by a bus error or by an abort, is      *)
(* reported once, with the interrupt if it was asked for.                  *)
(***************************************************************************)
THEOREM EndsStayReported == Spec => EndsAreReported
<1>1. IInv /\ [Next]_vars =>
        [Engine!Busy /\ ~Engine!Busy' => done' = (error' = "NONE") /\ irq' = irqEnable]_vars
  BY EdgeShape, EndIsReported DEF Next, IInv, Core
<1> QED
  BY DmaInvariance, <1>1, PTL DEF Spec, EndsAreReported

(***************************************************************************)
(* What the progress registers say is what has been moved, with an abort,  *)
(* a misprogrammed transfer or a stray register write at any moment.       *)
(***************************************************************************)
THEOREM ProgressStaysTrue == Spec => []ProgressIsTrue
<1>1. IInv => ProgressIsTrue
  <2> SUFFICES ASSUME IInv, Engine!Busy
               PROVE  /\ transferred + remaining = lengthReg
                      /\ destinationReg \in Memory => \A k \in 0 .. transferred - 1 :
                           destinationReg + k \in Memory => mem[destinationReg + k] = SourceByte(k)
                      /\ destinationReg = Tx =>
                           /\ Len(sent) = transferred + Unwritten
                           /\ \A k \in 1 .. Len(sent) : sent[k] = SourceByte(k - 1)
                      /\ sourceReg = Rx => popped = transferred + Unread
    BY DEF ProgressIsTrue
  <2>1. Counted /\ BeatHeld /\ BeatsLanded
    BY DEF IInv, Moving
  <2>2. transferred + Unwritten \in Nat
    BY <2>1 DEF Counted, Unwritten
  <2>3. ASSUME destinationReg = Tx
        PROVE  /\ Len(sent) = transferred + Unwritten
               /\ \A k \in 1 .. Len(sent) : sent[k] = SourceByte(k - 1)
    <3> DEFINE n == transferred + Unwritten
    <3>1. sent = [k \in 1 .. n |-> SourceByte(k - 1)]
      BY <2>1, <2>3 DEF BeatsLanded
    <3>2. n \in Nat
      BY <2>2
    <3> HIDE DEF n
    <3>3. Len(sent) = n
      BY <3>1, <3>2
    <3> QED
      BY <3>1, <3>3 DEF n
  <2> QED
    BY <2>1, <2>3 DEF Counted, BeatHeld, BeatsLanded
<1> QED
  BY <1>1, DmaInvariance, PTL

(***************************************************************************)
(* When dma_copy() returns 0 the whole of the source is in place.          *)
(***************************************************************************)
THEOREM WaitStaysMeaningful == Spec => WaitMeansCopied
<1>1. ASSUME IInv, [Next]_vars
      PROVE  [pc = "wait" /\ pc' = "idle" /\ "ERROR" \notin tReply.data =>
                \A k \in 0 .. job.length - 1 :
                  mem[job.destination + k] = PowerUp[job.source + k]]_vars
  <2> SUFFICES ASSUME Next, pc = "wait", pc' = "idle", "ERROR" \notin tReply.data
               PROVE  Copied(job)
    BY <1>1 DEF Copied
  <2>1. Waits \/ FetchTaken \/ CpuTaken \/ DmaTaken \/ Answered
    BY <1>1, EdgeShape DEF Next, IInv, Core
  <2>2. ~ProgramGoesOn
    BY DEF ProgramGoesOn
  <2>3. Answered /\ owner = Cpu /\ pc' = NextPc(tReply)
    BY <2>1, <2>2 DEF Waits, FetchTaken, CpuTaken, DmaTaken, Answered
  <2>4. "BUSY" \notin tReply.data
    BY <2>3, NextPlaces DEF Places
  <2> QED
    BY <1>1, <2>3, <2>4 DEF IInv, Waited, Pending
<1> QED
  BY DmaInvariance, <1>1, PTL DEF Spec, WaitMeansCopied
=============================================================================
