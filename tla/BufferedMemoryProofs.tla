------------------------ MODULE BufferedMemoryProofs ------------------------
(***************************************************************************)
(* Proofs about BufferedMemory for a ring of any size, any memory and any  *)
(* set of requests.                                                        *)
(***************************************************************************)
EXTENDS BufferedMemory, SequenceTheorems, TLAPS

-----------------------------------------------------------------------------
(***************************************************************************)
(* The ring.                                                               *)
(***************************************************************************)

\* Counting entries from head stays in the ring, never repeats an entry, and
\* one more entry is one more step of the pointer.
LEMMA NthFacts ==
  ASSUME head \in Slot
  PROVE  /\ Nth(0) = head
         /\ \A i \in 0 .. Depth : Nth(i) \in Slot
         /\ \A i, j \in 0 .. Depth - 1 : Nth(i) = Nth(j) => i = j
         /\ \A i \in 0 .. Depth - 1 : After(Nth(i)) = Nth(i + 1)
BY DepthAssumption DEF Nth, Slot, After

\* Moving head up by one entry moves every count by one.
LEMMA NthAfterPop ==
  ASSUME head \in Slot, head' = After(head)
  PROVE  \A i \in 0 .. Depth - 1 : Nth(i)' = Nth(i + 1)
BY DepthAssumption DEF Nth, Slot, After

\* While head stands still, so does every entry's place.
LEMMA NthSame ==
  ASSUME head' = head
  PROVE  \A i : Nth(i)' = Nth(i)
BY DEF Nth

-----------------------------------------------------------------------------
(***************************************************************************)
(* What one clock edge does to the registers, whatever its inputs.         *)
(***************************************************************************)
LEMMA ClockFacts ==
  ASSUME TypeOK, RingShape, OneAccess,
         NEW req \in Request \cup {None}, NEW rspTaken \in BOOLEAN,
         NEW memTakes \in BOOLEAN, NEW reply \in Reply \cup {None},
         Clock(req, rspTaken, memTakes, reply)
  PROVE  /\ Push(req) => /\ slots' = [slots EXCEPT ![tail] = req]
                         /\ tail' = After(tail)
                         /\ req \in Request /\ count < Depth
         /\ ~Push(req) => UNCHANGED <<slots, tail>>
         /\ Pop(reply) => head' = After(head) /\ fault' = (fault \/ reply.err)
         /\ ~Pop(reply) => UNCHANGED <<head, fault>>
         /\ count' = IF Push(req) = Pop(reply) THEN count
                     ELSE IF Push(req) THEN count + 1 ELSE count - 1
<1> USE NoneAssumption, RequestAssumption DEF Push, Taken, Pop
<1>1. RequesterSide(req, rspTaken, reply) /\ MemorySide(req, memTakes, reply)
      /\ Count(req, reply)
  BY DEF Clock
<1>2. /\ Push(req) => /\ slots' = [slots EXCEPT ![tail] = req]
                      /\ tail' = After(tail)
                      /\ req \in Request /\ count < Depth
      /\ ~Push(req) => UNCHANGED <<slots, tail>>
  BY <1>1 DEF RequesterSide, Hold, Refuse, Post, OpenDirect, CloseDirect, ReqReady,
     DirectActive
<1>3. /\ Pop(reply) => head' = After(head) /\ fault' = (fault \/ reply.err)
      /\ ~Pop(reply) => UNCHANGED <<head, fault>>
  BY <1>1 DEF MemorySide, Rest, Issue, Send, Await, RetireStore, RetireDirect, MemRspReady
<1> QED
  BY <1>1, <1>2, <1>3, Zenon DEF Count

\* The registers of the requester's side and the state machine, edge by edge.
LEMMA ClockStates ==
  ASSUME TypeOK, RingShape, OneAccess,
         NEW req \in Request \cup {None}, NEW rspTaken \in BOOLEAN,
         NEW memTakes \in BOOLEAN, NEW reply \in Reply \cup {None},
         Clock(req, rspTaken, memTakes, reply)
  PROVE  /\ direct' \in Request \cup {None}
         /\ rsp' \in Reply \cup {None}
         /\ state' \in States
         /\ state' = "STORE_SEND" => ~fault /\ count > 0 /\ ~Pop(reply)
         /\ state' = "STORE_WAIT" => ~fault /\ count > 0 /\ ~Pop(reply)
         /\ fault' => state' = "IDLE"
         /\ DirectActive' => /\ direct' # None /\ rsp' = None /\ count = 0
                             /\ ~Push(req) /\ ~Pop(reply)
         /\ state' = "DIRECT_WAIT" => direct' = direct
         /\ state \in {"STORE_SEND", "DIRECT_SEND"} =>
              state' = IF ~memTakes THEN state
                       ELSE IF state = "STORE_SEND" THEN "STORE_WAIT" ELSE "DIRECT_WAIT"
         /\ state = "IDLE" => state' \in {"IDLE", "STORE_SEND", "DIRECT_SEND"}
         /\ MemRspReady => state' = IF reply = None THEN state ELSE "IDLE"
<1> USE NoneAssumption, BlankIsReply DEF Push, Taken, Pop, DirectActive, TypeOK, States
<1>1. RequesterSide(req, rspTaken, reply) /\ MemorySide(req, memTakes, reply)
  BY DEF Clock
<1>2. state' \in States
  BY <1>1 DEF MemorySide, Rest, Issue, Send, Await, RetireStore, RetireDirect, MemRspReady
<1>3. direct' \in Request \cup {None} /\ rsp' \in Reply \cup {None}
  BY <1>1 DEF RequesterSide, Hold, Refuse, Post, OpenDirect, CloseDirect
<1>4. (state' = "STORE_SEND" \/ state' = "STORE_WAIT")
        => ~fault /\ count > 0 /\ ~Pop(reply)
  BY <1>1 DEF MemorySide, Rest, Issue, Send, Await, RetireStore, RetireDirect, MemRspReady,
     OneAccess
<1>5. fault' => state' = "IDLE"
  BY <1>1 DEF MemorySide, Rest, Issue, Send, Await, RetireStore, RetireDirect, MemRspReady,
     OneAccess
<1>6. /\ state \in {"STORE_SEND", "DIRECT_SEND"} =>
           state' = IF ~memTakes THEN state
                    ELSE IF state = "STORE_SEND" THEN "STORE_WAIT" ELSE "DIRECT_WAIT"
      /\ state = "IDLE" => state' \in {"IDLE", "STORE_SEND", "DIRECT_SEND"}
      /\ MemRspReady => state' = IF reply = None THEN state ELSE "IDLE"
  BY <1>1 DEF MemorySide, Rest, Issue, Send, Await, RetireStore, RetireDirect, MemRspReady
<1>7. ASSUME DirectActive'
      PROVE  /\ direct' # None /\ rsp' = None /\ count = 0
             /\ ~Push(req) /\ ~Pop(reply)
             /\ state' = "DIRECT_WAIT" => direct' = direct
  <2>1. CASE DirectActive
    <3>1. ~Taken(req) /\ (state = "DIRECT_WAIT" => reply = None)
      BY <1>6, <1>7, <2>1 DEF ReqReady, MemRspReady
    <3>2. Hold(req, rspTaken, reply)
      BY <1>1, <3>1 DEF RequesterSide, Refuse, Post, OpenDirect, CloseDirect
    <3> QED
      BY <2>1, <3>1, <3>2 DEF Hold, OneAccess
  <2>2. CASE ~DirectActive
    <3>1. state = "IDLE" /\ state' = "DIRECT_SEND"
      BY <1>6, <1>7, <2>2 DEF MemRspReady
    <3>2. Taken(req) /\ ~fault /\ ~Postable(req)
      BY <1>1, <3>1 DEF MemorySide, Rest, Issue, Send, Await, RetireStore, RetireDirect,
         MemRspReady
    <3>3. OpenDirect(req)
      BY <1>1, <3>1, <3>2 DEF RequesterSide, Hold, Refuse, Post, CloseDirect
    <3> QED
      BY <3>1, <3>2, <3>3 DEF OpenDirect, ReqReady
  <2> QED
    BY <2>1, <2>2
<1> QED
  BY <1>2, <1>3, <1>4, <1>5, <1>6, <1>7

\* Every entry the ring holds after an edge is the one it held before, one place
\* nearer to head if the oldest left, or the request that entered at the end.
LEMMA RingStep ==
  ASSUME TypeOK, RingShape, OneAccess,
         NEW req \in Request \cup {None}, NEW rspTaken \in BOOLEAN,
         NEW memTakes \in BOOLEAN, NEW reply \in Reply \cup {None},
         Clock(req, rspTaken, memTakes, reply),
         NEW shift, shift = IF Pop(reply) THEN 1 ELSE 0
  PROVE  /\ count' = count - shift + (IF Push(req) THEN 1 ELSE 0)
         /\ shift \in 0 .. 1 /\ shift <= count
         /\ \A i \in 0 .. count' - 1 :
              slots'[Nth(i)'] = IF i + shift = count THEN req ELSE slots[Nth(i + shift)]
         /\ tail' = Nth(count)'
<1> USE DepthAssumption
<1>1. /\ Push(req) => /\ slots' = [slots EXCEPT ![tail] = req]
                      /\ tail' = After(tail) /\ count < Depth
      /\ ~Push(req) => UNCHANGED <<slots, tail>>
      /\ Pop(reply) => head' = After(head)
      /\ ~Pop(reply) => head' = head
      /\ count' = IF Push(req) = Pop(reply) THEN count
                  ELSE IF Push(req) THEN count + 1 ELSE count - 1
  BY ClockFacts
<1>2. /\ head \in Slot /\ tail \in Slot /\ count \in 0 .. Depth /\ DOMAIN slots = Slot
      /\ tail = Nth(count)
  BY DEF TypeOK, RingShape
<1>3. Pop(reply) => count > 0
  BY DEF Pop, OneAccess
<1>4. Push(req) \in BOOLEAN /\ Pop(reply) \in BOOLEAN
  BY DEF Push, Pop, Taken, Postable
<1>5. count' = count - shift + (IF Push(req) THEN 1 ELSE 0)
  BY <1>1, <1>2, <1>3, <1>4
<1>6. /\ \A i \in 0 .. Depth : Nth(i) \in Slot
      /\ \A i, j \in 0 .. Depth - 1 : Nth(i) = Nth(j) => i = j
      /\ \A i \in 0 .. Depth - 1 : After(Nth(i)) = Nth(i + 1)
  BY <1>2, NthFacts
<1>7. \A i \in 0 .. Depth - shift : Nth(i)' = Nth(i + shift)
  <2>1. CASE Pop(reply)
    BY <1>1, <1>2, <2>1, NthAfterPop
  <2>2. CASE ~Pop(reply)
    BY <1>1, <2>2, NthSame
  <2> QED
    BY <2>1, <2>2
<1>8. ASSUME NEW i \in 0 .. count' - 1
      PROVE  slots'[Nth(i)'] = IF i + shift = count THEN req ELSE slots[Nth(i + shift)]
  <2>1. /\ i + shift \in 0 .. Depth - 1
        /\ i + shift <= count
        /\ ~Push(req) => i + shift < count
    BY <1>1, <1>2, <1>3, <1>5
  <2>2. Nth(i)' = Nth(i + shift) /\ Nth(i + shift) \in Slot
    BY <1>2, <1>6, <1>7, <2>1
  <2>3. CASE Push(req)
    <3>1. (Nth(i + shift) = tail) <=> (i + shift = count)
      BY <1>1, <1>2, <1>6, <2>1, <2>3
    <3> QED
      BY <1>1, <1>2, <2>2, <2>3, <3>1
  <2>4. CASE ~Push(req)
    BY <1>1, <2>1, <2>2, <2>4
  <2> QED
    BY <2>3, <2>4
<1>9. tail' = Nth(count)'
  <2>1. CASE Push(req)
    <3>1. CASE Pop(reply)
      <4>1. /\ head' = After(head) /\ count' = count
            /\ tail' = After(Nth(count)) /\ count \in 1 .. Depth - 1
        BY <1>1, <1>2, <1>3, <2>1, <3>1
      <4> QED
        BY <1>2, <4>1 DEF Nth, After, Slot
    <3>2. CASE ~Pop(reply)
      <4>1. /\ head' = head /\ count' = count + 1
            /\ tail' = After(Nth(count)) /\ count \in 0 .. Depth - 1
        <5>1. shift = 0
          BY <3>2
        <5>2. count' = count + 1
          BY <1>2, <1>5, <2>1, <5>1
        <5>3. head' = head /\ tail' = After(tail) /\ count < Depth
          BY <1>1, <2>1, <3>2, Zenon
        <5> QED
          BY <1>2, <5>2, <5>3
      <4> QED
        BY <1>2, <4>1 DEF Nth, After, Slot
    <3> QED
      BY <3>1, <3>2
  <2>2. CASE ~Push(req)
    BY <1>1, <1>2, <1>3, <1>4, <2>2 DEF Nth, After, Slot
  <2> QED
    BY <2>1, <2>2
<1> QED
  BY <1>2, <1>3, <1>5, <1>8, <1>9

-----------------------------------------------------------------------------
(***************************************************************************)
(* The invariant, edge by edge.                                            *)
(***************************************************************************)

\* RingShape is kept by every edge: what it says is RingStep.
LEMMA RingShapeStep ==
  ASSUME TypeOK, RingShape, OneAccess,
         NEW req \in Request \cup {None}, NEW rspTaken \in BOOLEAN,
         NEW memTakes \in BOOLEAN, NEW reply \in Reply \cup {None},
         Clock(req, rspTaken, memTakes, reply)
  PROVE  /\ RingShape'
         /\ slots' \in [Slot -> {r \in Request : Postable(r)} \cup {Unwritten}]
         /\ head' \in Slot /\ tail' \in Slot /\ count' \in 0 .. Depth /\ fault' \in BOOLEAN
<1> DEFINE shift == IF Pop(reply) THEN 1 ELSE 0
<1> USE DepthAssumption
<1>1. /\ count' = count - shift + (IF Push(req) THEN 1 ELSE 0)
      /\ shift \in 0 .. 1 /\ shift <= count
      /\ \A i \in 0 .. count' - 1 :
           slots'[Nth(i)'] = IF i + shift = count THEN req ELSE slots[Nth(i + shift)]
      /\ tail' = Nth(count)'
  BY RingStep
<1>2. /\ Push(req) => /\ slots' = [slots EXCEPT ![tail] = req]
                      /\ tail' = After(tail)
                      /\ req \in Request /\ count < Depth
      /\ ~Push(req) => UNCHANGED <<slots, tail>>
      /\ Pop(reply) => head' = After(head) /\ fault' = (fault \/ reply.err)
      /\ ~Pop(reply) => UNCHANGED <<head, fault>>
  BY ClockFacts
<1>3. Push(req) => Postable(req) /\ req # Unwritten
  BY NoneAssumption DEF Push, Taken, Unwritten
<1>4. slots' \in [Slot -> {r \in Request : Postable(r)} \cup {Unwritten}]
  BY <1>2, <1>3 DEF TypeOK
<1>5. head' \in Slot /\ tail' \in Slot
  BY <1>2 DEF TypeOK, After, Slot
<1>6. count' \in 0 .. Depth
  BY <1>1, <1>2 DEF TypeOK
<1>7. fault' \in BOOLEAN
  <2>1. Pop(reply) => reply.err \in BOOLEAN
    BY DEF Pop, Reply
  <2> QED
    BY <1>2, <2>1 DEF TypeOK
<1>8. ASSUME NEW i \in 0 .. count' - 1
      PROVE  slots'[Nth(i)'] # Unwritten
  <2>1. CASE i + shift = count
    BY <1>1, <1>3, <1>6, <2>1 DEF TypeOK
  <2>2. CASE i + shift # count
    <3>1. i + shift \in Pending
      BY <1>1, <1>6, <2>2 DEF Pending, TypeOK
    <3> QED
      BY <1>1, <2>2, <3>1 DEF RingShape
  <2> QED
    BY <2>1, <2>2
<1> QED
  BY <1>1, <1>4, <1>5, <1>6, <1>7, <1>8 DEF RingShape, Pending

\* What the memory's answer must have done to its contents, and the history
\* variable to the promise, for an edge to count as an edge of the system.
Faithful(reply) ==
  /\ ddr' \in [Byte -> Value]
  /\ reply = None => ddr' = ddr
  /\ reply # None => MemRspReady
  /\ Pop(reply) /\ ~reply.err => ddr' = Stored(ddr, slots[head], slots[head].bytes)
  /\ Promise(reply)

\* NoLostStore is kept by every edge: a store that enters joins both the promise
\* and the ring, a store that leaves reaches the memory it was promised for.
LEMMA NoLostStoreStep ==
  ASSUME IInv,
         NEW rspTaken \in BOOLEAN,
         NEW memTakes \in BOOLEAN, NEW reply \in Reply \cup {None},
         Clock(want, rspTaken, memTakes, reply), Faithful(reply)
  PROVE  view' \in [Byte -> Value] /\ NoLostStore'
<1> DEFINE shift == IF Pop(reply) THEN 1 ELSE 0
<1> USE DEF Faithful
<1>1. TypeOK /\ RingShape /\ OneAccess /\ NoLostStore /\ want \in Request \cup {None}
  BY DEF IInv, TypeOK
<1>2. /\ count' = count - shift + (IF Push(want) THEN 1 ELSE 0)
      /\ shift \in 0 .. 1 /\ shift <= count
      /\ \A i \in 0 .. count' - 1 :
           slots'[Nth(i)'] = IF i + shift = count THEN want ELSE slots[Nth(i + shift)]
  BY <1>1, RingStep
<1>3. /\ count \in 0 .. Depth /\ ddr \in [Byte -> Value] /\ view \in [Byte -> Value]
      /\ Nth(0) = head
  BY <1>1, NthFacts DEF TypeOK
<1>4. Push(want) => want \in Request /\ want.data \in Value /\ ~(state = "DIRECT_WAIT")
  BY <1>1, RequestAssumption, NoneAssumption
     DEF Push, Taken, ReqReady, DirectActive, AnyRequest
<1>5. view' \in [Byte -> Value]
  <2>1. Push(want) => Stored(view, want, want.bytes) \in [Byte -> Value]
    BY <1>3, <1>4 DEF Stored
  <2> QED
    BY <1>3, <2>1 DEF Promise
<1>6. CASE state = "DIRECT_WAIT" /\ reply # None
  <2>1. view' = ddr' /\ count = 0 /\ ~Push(want) /\ ~Pop(reply)
    BY <1>1, <1>4, <1>6 DEF Promise, OneAccess, DirectActive, Pop
  <2>2. count' = 0
    BY <1>2, <2>1
  <2> QED
    BY <1>5, <2>1, <2>2 DEF NoLostStore, Pending
<1>7. CASE ~(state = "DIRECT_WAIT" /\ reply # None)
  <2> SUFFICES ASSUME ~fault', NEW b \in Byte
               PROVE  /\ Untouched(b)' => view'[b] = ddr'[b]
                      /\ \A i \in Pending' : Newest(b, i)' => view'[b] = slots'[Nth(i)'].data
    BY <1>5 DEF NoLostStore
  <2>1. ~fault /\ (Pop(reply) => ~reply.err)
    <3>1. /\ Pop(reply) => fault' = (fault \/ reply.err)
          /\ ~Pop(reply) => UNCHANGED fault
      BY <1>1, ClockFacts
    <3>2. fault \in BOOLEAN /\ (Pop(reply) => reply.err \in BOOLEAN)
      BY <1>1 DEF TypeOK, Pop, Reply
    <3> QED
      BY <3>1, <3>2
  <2>2. /\ Untouched(b) => view[b] = ddr[b]
        /\ \A i \in Pending : Newest(b, i) => view[b] = slots[Nth(i)].data
    BY <1>1, <2>1 DEF NoLostStore
  <2>3. view'[b] = IF Push(want) /\ b \in want.bytes THEN want.data ELSE view[b]
    BY <1>7 DEF Promise, Stored
  <2>4. ddr'[b] = IF Pop(reply) /\ b \in slots[head].bytes THEN slots[head].data ELSE ddr[b]
    <3>1. CASE Pop(reply)
      BY <2>1, <3>1 DEF Stored
    <3>2. CASE ~Pop(reply)
      <4>1. reply = None \/ ~MemRspReady
        BY <1>7, <3>2 DEF Pop, MemRspReady
      <4> QED
        BY <3>2, <4>1
    <3> QED
      BY <3>1, <3>2
  <2>5. ASSUME Untouched(b)'
        PROVE  view'[b] = ddr'[b]
    <3>1. \A i \in 0 .. count' - 1 : b \notin slots'[Nth(i)'].bytes
      BY <2>5 DEF Untouched, Pending
    <3>2. Push(want) => b \notin want.bytes
      <4> SUFFICES ASSUME Push(want) PROVE b \notin want.bytes
        OBVIOUS
      <4>1. PICK k \in 0 .. count' - 1 : k + shift = count
        BY <1>2, <1>3
      <4>2. slots'[Nth(k)'] = want
        BY <1>2, <4>1
      <4> QED
        BY <3>1, <4>2
    <3>3. \A j \in shift .. count - 1 : b \notin slots[Nth(j)].bytes
      <4> TAKE j \in shift .. count - 1
      <4>1. PICK k \in 0 .. count' - 1 : k + shift = j
        BY <1>2, <1>3
      <4> QED
        BY <1>2, <1>3, <3>1, <4>1
    <3>4. CASE Pop(reply) /\ b \in slots[head].bytes
      <4>1. Newest(b, 0) /\ 0 \in Pending
        BY <1>2, <1>3, <3>3, <3>4 DEF Newest, Pending
      <4> QED
        BY <1>3, <2>2, <2>3, <2>4, <3>2, <3>4, <4>1
    <3>5. CASE ~(Pop(reply) /\ b \in slots[head].bytes)
      <4>1. Untouched(b)
        BY <1>2, <1>3, <3>3, <3>5 DEF Untouched, Pending
      <4> QED
        BY <2>2, <2>3, <2>4, <3>2, <3>5, <4>1
    <3> QED
      BY <3>4, <3>5
  <2>6. ASSUME NEW i \in Pending', Newest(b, i)'
        PROVE  view'[b] = slots'[Nth(i)'].data
    <3>1. /\ i \in 0 .. count' - 1
          /\ b \in slots'[Nth(i)'].bytes
          /\ \A j \in 0 .. count' - 1 : j > i => b \notin slots'[Nth(j)'].bytes
      BY <2>6 DEF Newest, Pending
    <3>2. CASE Push(want) /\ i + shift = count
      BY <1>2, <2>3, <3>1, <3>2
    <3>3. CASE ~(Push(want) /\ i + shift = count)
      <4>1. i + shift \in Pending /\ slots'[Nth(i)'] = slots[Nth(i + shift)]
        BY <1>2, <1>3, <3>1, <3>3 DEF Pending
      <4>2. Push(want) => b \notin want.bytes
        <5> SUFFICES ASSUME Push(want) PROVE b \notin want.bytes
          OBVIOUS
        <5>1. PICK k \in 0 .. count' - 1 : k + shift = count /\ k > i
          BY <1>2, <1>3, <4>1 DEF Pending
        <5>2. slots'[Nth(k)'] = want
          BY <1>2, <5>1
        <5> QED
          BY <3>1, <5>1, <5>2
      <4>3. ASSUME NEW j \in Pending, j > i + shift
            PROVE  b \notin slots[Nth(j)].bytes
        <5>1. j \in 0 .. count - 1 /\ j > i + shift /\ shift \in 0 .. 1
          BY <1>2, <4>3 DEF Pending
        <5>2. PICK k \in Int : k + shift = j
          BY <5>1
        <5>3. k \in 0 .. count' - 1 /\ k > i /\ k + shift # count
          BY <1>2, <1>3, <3>1, <5>1, <5>2
        <5>4. slots'[Nth(k)'] = slots[Nth(j)]
          BY <1>2, <5>2, <5>3
        <5> QED
          BY <3>1, <5>3, <5>4
      <4>4. Newest(b, i + shift)
        BY <3>1, <4>1, <4>3 DEF Newest
      <4> QED
        BY <2>2, <2>3, <4>1, <4>2, <4>4
    <3> QED
      BY <3>2, <3>3
  <2> QED
    BY <2>5, <2>6
<1> QED
  BY <1>6, <1>7

\* An edge without an answer of the fabric keeps the invariant: in particular the
\* ring, the state machine and the fabric still agree.
LEMMA QuietStep ==
  ASSUME IInv, NEW rspTaken \in BOOLEAN, NEW memTakes \in BOOLEAN,
         QuietCycle(rspTaken, memTakes)
  PROVE  IInv'
<1> USE NoneAssumption
<1>1. /\ TypeOK /\ RingShape /\ OneAccess /\ NoLostStore
      /\ Clock(want, rspTaken, memTakes, None)
      /\ ~Pop(None)
  BY DEF IInv, QuietCycle, Pop
<1>2. want \in Request \cup {None} /\ want' \in Request \cup {None}
  BY <1>1 DEF TypeOK, QuietCycle, RequesterHolds
<1>3. /\ RingShape'
      /\ slots' \in [Slot -> {r \in Request : Postable(r)} \cup {Unwritten}]
      /\ head' \in Slot /\ tail' \in Slot /\ count' \in 0 .. Depth /\ fault' \in BOOLEAN
  BY <1>1, <1>2, RingShapeStep
<1>4. view' \in [Byte -> Value] /\ NoLostStore' /\ ddr' \in [Byte -> Value]
  <2>1. Faithful(None)
    BY <1>1 DEF QuietCycle, Faithful, TypeOK
  <2> QED
    BY <1>1, <2>1, NoLostStoreStep DEF Faithful
<1>5. /\ direct' \in Request \cup {None}
      /\ rsp' \in Reply \cup {None}
      /\ state' \in States
      /\ state' \in {"STORE_SEND", "STORE_WAIT"} => ~fault /\ count > 0
      /\ fault' => state' = "IDLE"
      /\ DirectActive' => direct' # None /\ rsp' = None /\ count = 0 /\ ~Push(want)
      /\ state' = "DIRECT_WAIT" => direct' = direct
      /\ state \in {"STORE_SEND", "DIRECT_SEND"} =>
           state' = IF ~memTakes THEN state
                    ELSE IF state = "STORE_SEND" THEN "STORE_WAIT" ELSE "DIRECT_WAIT"
      /\ state = "IDLE" => state' \in {"IDLE", "STORE_SEND", "DIRECT_SEND"}
      /\ MemRspReady => state' = state
  BY <1>1, <1>2, ClockStates
<1>6. /\ head' = head
      /\ count' = IF Push(want) THEN count + 1 ELSE count
      /\ count > 0 => slots'[head] = slots[head]
  <2>1. head' = head
    BY <1>1, <1>2, ClockFacts
  <2>2. /\ count' = IF Push(want) THEN count + 1 ELSE count
        /\ \A i \in 0 .. count' - 1 :
             slots'[Nth(i)'] = IF i + 0 = count THEN want ELSE slots[Nth(i + 0)]
    BY <1>1, <1>2, RingStep DEF TypeOK
  <2>3. Nth(0) = head /\ Nth(0)' = head
    BY <1>1, <2>1, NthFacts, NthSame DEF TypeOK
  <2>4. ASSUME count > 0 PROVE slots'[head] = slots[head]
    <3>1. 0 \in 0 .. count' - 1 /\ 0 + 0 # count
      BY <1>1, <2>2, <2>4 DEF TypeOK
    <3> QED
      BY <2>2, <2>3, <3>1
  <2> QED
    BY <2>1, <2>2, <2>4
<1>7. /\ state' = "STORE_WAIT" => inFlight' = slots'[head]
      /\ state' = "DIRECT_WAIT" => inFlight' = direct'
      /\ state' \notin {"STORE_WAIT", "DIRECT_WAIT"} => inFlight' = None
  <2>1. CASE memTakes
    <3>1. inFlight' = MemRequest /\ MemRequest # None
      BY <2>1 DEF QuietCycle
    <3>2. state = "STORE_SEND" \/ state = "DIRECT_SEND"
      BY <3>1 DEF MemRequest
    <3> QED
      BY <1>5, <1>6, <2>1, <3>1, <3>2 DEF MemRequest
  <2>2. CASE ~memTakes
    <3>1. inFlight' = inFlight
      BY <2>2 DEF QuietCycle
    <3> QED
      BY <1>1, <1>5, <1>6, <2>2, <3>1 DEF OneAccess, MemRspReady, TypeOK, States
  <2> QED
    BY <2>1, <2>2
<1>8. OneAccess'
  <2>1. state' \in {"STORE_SEND", "STORE_WAIT"} => count' > 0
    BY <1>1, <1>5, <1>6 DEF TypeOK
  <2>2. DirectActive' => direct' # None /\ rsp' = None /\ count' = 0
    BY <1>5, <1>6
  <2> QED
    BY <1>5, <1>6, <1>7, <2>1, <2>2 DEF OneAccess
<1>9. inFlight' \in Request \cup {None}
  BY <1>3, <1>5, <1>6, <1>7 DEF Slot, Unwritten
<1> QED
  BY <1>2, <1>3, <1>4, <1>5, <1>8, <1>9 DEF IInv, TypeOK

\* An edge on which the fabric answers keeps the invariant.
LEMMA AnswerStep ==
  ASSUME IInv, NEW rspTaken \in BOOLEAN, AnswerCycle(rspTaken)
  PROVE  IInv'
<1> USE NoneAssumption
<1>1. TypeOK /\ RingShape /\ OneAccess /\ NoLostStore
  BY DEF IInv
<1>2. /\ inFlight # None /\ MemRspReady /\ inFlight' = None
      /\ want \in Request \cup {None} /\ want' \in Request \cup {None}
  BY <1>1 DEF TypeOK, AnswerCycle, RequesterHolds
<1>3. PICK outcome \in Outcomes(ddr, inFlight) :
        /\ Clock(want, rspTaken, FALSE, outcome[2])
        /\ ddr' = outcome[1]
        /\ Promise(outcome[2])
  BY DEF AnswerCycle
<1> DEFINE reply == outcome[2]
<1>4. inFlight \in Request /\ ddr \in [Byte -> Value]
  BY <1>1, <1>2 DEF TypeOK
<1>5. /\ ddr' \in [Byte -> Value]
      /\ reply \in Reply /\ reply # None
      /\ inFlight.write /\ ~reply.err => ddr' = Stored(ddr, inFlight, inFlight.bytes)
  BY <1>3, <1>4, RequestAssumption, OutcomeFacts
<1>6. /\ RingShape'
      /\ slots' \in [Slot -> {r \in Request : Postable(r)} \cup {Unwritten}]
      /\ head' \in Slot /\ tail' \in Slot /\ count' \in 0 .. Depth /\ fault' \in BOOLEAN
  BY <1>1, <1>2, <1>3, <1>5, RingShapeStep
<1>7. view' \in [Byte -> Value] /\ NoLostStore'
  <2>1. Pop(reply) => inFlight = slots[head] /\ inFlight.write
    BY <1>1, <1>2 DEF Pop, OneAccess, TypeOK, Unwritten, Postable
  <2>2. Faithful(reply)
    BY <1>2, <1>3, <1>5, <2>1 DEF Faithful
  <2> QED
    BY <1>3, <1>5, <2>2, NoLostStoreStep
<1>8. /\ direct' \in Request \cup {None} /\ rsp' \in Reply \cup {None} /\ state' = "IDLE"
  BY <1>1, <1>2, <1>3, <1>5, ClockStates
<1>9. OneAccess'
  BY <1>2, <1>8 DEF OneAccess, DirectActive
<1> QED
  BY <1>2, <1>5, <1>6, <1>7, <1>8, <1>9 DEF IInv, TypeOK, States

\* Reset keeps the invariant: the promise is forgotten with the ring.
LEMMA ResetStep == ASSUME IInv, SystemReset PROVE IInv'
<1> USE DepthAssumption
<1>1. /\ head' = 0 /\ tail' = 0 /\ count' = 0 /\ state' = "IDLE" /\ direct' = None
      /\ rsp' = None /\ fault' = FALSE /\ slots' = slots
      /\ want' = None /\ inFlight' = None /\ view' = ddr'
  BY DEF SystemReset, Reset, ResetRegisters
<1>2. ddr' \in [Byte -> Value]
  <2>1. ddr \in [Byte -> Value] /\ inFlight \in Request \cup {None}
    BY DEF IInv, TypeOK
  <2>2. \/ ddr' = ddr
        \/ inFlight # None /\ \E outcome \in Outcomes(ddr, inFlight) : ddr' = outcome[1]
    BY Zenon DEF SystemReset
  <2> QED
    BY <2>1, <2>2, RequestAssumption, OutcomeFacts
<1>3. TypeOK'
  <2>1. slots' \in [Slot -> {r \in Request : Postable(r)} \cup {Unwritten}]
    BY <1>1, Zenon DEF IInv, TypeOK
  <2>2. head' \in Slot /\ tail' \in Slot /\ count' \in 0 .. Depth
    BY <1>1 DEF Slot
  <2>3. state' \in States /\ fault' \in BOOLEAN
    BY <1>1, Zenon DEF States
  <2> QED
    BY <1>1, <1>2, <2>1, <2>2, <2>3 DEF TypeOK
<1>4. Nth(count)' = 0
  BY <1>1 DEF Nth
<1>5. RingShape' /\ OneAccess' /\ NoLostStore'
  BY <1>1, <1>4 DEF RingShape, OneAccess, NoLostStore, Pending, DirectActive
<1> QED
  BY <1>3, <1>5 DEF IInv

\* The invariant holds at power-up, where the ring is empty.
LEMMA InitIInv == BMInit => IInv
<1> SUFFICES ASSUME BMInit PROVE IInv
  OBVIOUS
<1> USE DepthAssumption
<1>1. /\ head = 0 /\ tail = 0 /\ count = 0 /\ state = "IDLE" /\ direct = None
      /\ rsp = None /\ fault = FALSE /\ slots = [i \in Slot |-> Unwritten]
      /\ want = None /\ inFlight = None /\ view = ddr /\ ddr \in [Byte -> Value]
  BY DEF BMInit, Init, ResetRegisters
<1>2. TypeOK
  <2>1. slots \in [Slot -> {r \in Request : Postable(r)} \cup {Unwritten}]
    BY <1>1
  <2>2. head \in Slot /\ tail \in Slot /\ count \in 0 .. Depth
    BY <1>1 DEF Slot
  <2>3. state \in States /\ fault \in BOOLEAN
    BY <1>1, Zenon DEF States
  <2> QED
    BY <1>1, <2>1, <2>2, <2>3 DEF TypeOK
<1>3. Nth(count) = 0
  BY <1>1 DEF Nth
<1>4. RingShape /\ OneAccess /\ NoLostStore
  BY <1>1, <1>3 DEF RingShape, OneAccess, NoLostStore, Pending, DirectActive
<1> QED
  BY <1>2, <1>4 DEF IInv

\* Every step of the system keeps the invariant.
LEMMA NextIInv == IInv /\ [Next]_vars => IInv'
<1> SUFFICES ASSUME IInv, [Next]_vars PROVE IInv'
  OBVIOUS
<1>1. CASE \E rspTaken, memTakes \in BOOLEAN : QuietCycle(rspTaken, memTakes)
  BY <1>1, QuietStep
<1>2. CASE \E rspTaken \in BOOLEAN : AnswerCycle(rspTaken)
  BY <1>2, AnswerStep
<1>3. CASE SystemReset
  BY <1>3, ResetStep
<1>4. CASE UNCHANGED vars
  BY <1>4 DEF vars, wbVars, envVars, IInv, TypeOK, RingShape, OneAccess, NoLostStore,
     Untouched, Newest, Nth, Pending, DirectActive
<1> QED
  BY <1>1, <1>2, <1>3, <1>4 DEF Next

-----------------------------------------------------------------------------
(***************************************************************************)
(* Theorems of the specification.                                          *)
(***************************************************************************)

\* The inductive invariant, for a ring of any size.
THEOREM Invariance == Spec => []IInv
<1> QED
  BY InitIInv, NextIInv, PTL DEF Spec

\* The registers hold what they may hold: in particular the ring never counts
\* more stores than it has entries, and never fewer than none.
THEOREM TypeCorrect == Spec => []TypeOK
<1>1. IInv => TypeOK
  BY DEF IInv
<1> QED
  BY <1>1, Invariance, PTL

\* No posted store is lost, duplicated or reordered (rv_write_buffer.sv:42-92).
THEOREM StoresAreKept == Spec => []NoLostStore
<1>1. IInv => NoLostStore
  BY DEF IInv
<1> QED
  BY <1>1, Invariance, PTL

\* Reads and MMIO find the ring drained (rv_write_buffer.sv:1).
THEOREM DirectIsOrdered == Spec => []DirectSeesAllStores
<1>1. IInv => DirectSeesAllStores
  <2> SUFFICES ASSUME IInv, DirectActive PROVE count = 0 /\ ddr = view
    BY DEF DirectSeesAllStores
  <2>1. count = 0 /\ ~fault
    BY DEF IInv, OneAccess, DirectActive
  <2>2. Pending = {}
    BY <2>1 DEF Pending
  <2>3. \A b \in Byte : view[b] = ddr[b]
    BY <2>1, <2>2, Zenon DEF IInv, NoLostStore, Untouched
  <2> QED
    BY <2>1, <2>3 DEF IInv, TypeOK
<1> QED
  BY <1>1, Invariance, PTL

\* A late store error stops all memory traffic until reset (rv_write_buffer.sv:2-3).
THEOREM FaultStops == Spec => FailStop
<1> DEFINE Stopped ==
      fault => \/ SystemReset
               \/ fault' /\ inFlight' = None /\ UNCHANGED <<slots, head, count, ddr>>
<1>1. IInv /\ [Next]_vars => [Stopped]_vars
  <2> SUFFICES ASSUME IInv, Next, fault, ~SystemReset
               PROVE  fault' /\ inFlight' = None /\ UNCHANGED <<slots, head, count, ddr>>
    BY DEF Stopped
  <2>1. state = "IDLE" /\ inFlight = None /\ TypeOK /\ RingShape /\ OneAccess
    BY DEF IInv, OneAccess
  <2>2. PICK rspTaken \in BOOLEAN, memTakes \in BOOLEAN : QuietCycle(rspTaken, memTakes)
    BY <2>1 DEF Next, AnswerCycle
  <2>3. ~memTakes /\ inFlight' = None /\ ddr' = ddr /\ Clock(want, rspTaken, memTakes, None)
    BY <2>1, <2>2 DEF QuietCycle, MemRequest
  <2>4. ~Push(want) /\ ~Pop(None)
    BY DEF Push, Pop
  <2>5. /\ slots' = slots /\ head' = head /\ fault' = fault
    BY <2>1, <2>3, <2>4, ClockFacts DEF TypeOK
  <2>6. count' = count
    BY <2>1, <2>3, <2>4, RingStep DEF TypeOK
  <2> QED
    BY <2>3, <2>5, <2>6
<1> QED
  BY <1>1, Invariance, PTL DEF Spec, FailStop

-----------------------------------------------------------------------------
(***************************************************************************)
(* The buffer implements OrderedMemory: the backlog is the ring read from  *)
(* head on, and every edge is a step of the abstract memory or a stutter.  *)
(***************************************************************************)

\* The backlog is a sequence of requests, as long as the ring is full.
BacklogShape ==
  /\ Backlog \in Seq(Request)
  /\ Len(Backlog) = count
  /\ \A i \in 1 .. count : Backlog[i] = slots[Nth(i - 1)]

\* The backlog is the ring, oldest store first.
LEMMA BacklogFacts == TypeOK /\ RingShape => BacklogShape
<1> SUFFICES ASSUME TypeOK, RingShape PROVE BacklogShape
  OBVIOUS
<1> USE DepthAssumption
<1>1. count \in Nat /\ head \in Slot /\ count <= Depth
  BY DEF TypeOK
<1>2. ASSUME NEW i \in 1 .. count
      PROVE  slots[Nth(i - 1)] \in Request
  <2>1. i - 1 \in Pending /\ Nth(i - 1) \in Slot
    BY <1>1, NthFacts DEF Pending
  <2> QED
    BY <2>1 DEF TypeOK, RingShape
<1>3. Backlog \in [1 .. count -> Request]
  BY <1>2 DEF Backlog
<1>4. Backlog \in Seq(Request)
  BY <1>1, <1>3, SeqDef
<1> QED
  BY <1>1, <1>3, <1>4, LenProperties DEF Backlog, BacklogShape

\* The backlog loses its first store when the ring does, and gains the request
\* that enters the ring at its end.
LEMMA BacklogStep ==
  ASSUME TypeOK, RingShape, OneAccess,
         NEW req \in Request \cup {None}, NEW rspTaken \in BOOLEAN,
         NEW memTakes \in BOOLEAN, NEW reply \in Reply \cup {None},
         Clock(req, rspTaken, memTakes, reply), TypeOK', RingShape',
         NEW shift, shift = IF Pop(reply) THEN 1 ELSE 0,
         NEW added, added = IF Push(req) THEN <<req>> ELSE <<>>
  PROVE  Backlog' = SubSeq(Backlog, shift + 1, Len(Backlog)) \o added
<1>1. /\ count' = count - shift + (IF Push(req) THEN 1 ELSE 0)
      /\ shift \in 0 .. 1 /\ shift <= count
      /\ \A i \in 0 .. count' - 1 :
           slots'[Nth(i)'] = IF i + shift = count THEN req ELSE slots[Nth(i + shift)]
  BY RingStep
<1>2. /\ Backlog \in Seq(Request) /\ Len(Backlog) = count
      /\ \A i \in 1 .. count : Backlog[i] = slots[Nth(i - 1)]
  BY BacklogFacts DEF BacklogShape
<1>3. /\ Backlog' \in Seq(Request) /\ Len(Backlog') = count'
      /\ \A i \in 1 .. count' : Backlog'[i] = slots'[Nth(i - 1)']
  <2>1. (TypeOK /\ RingShape => BacklogShape)'
    BY BacklogFacts, PTL
  <2> QED
    BY <2>1 DEF BacklogShape
<1>4. count \in Nat /\ count' \in Nat
  BY DEF TypeOK
<1> DEFINE rest == SubSeq(Backlog, shift + 1, Len(Backlog))
<1>5. /\ rest \in Seq(Request)
      /\ Len(rest) = count - shift
      /\ \A i \in 1 .. count - shift : rest[i] = Backlog[shift + i]
  <2>1. \A i \in shift + 1 .. Len(Backlog) : Backlog[i] \in Request
    BY <1>1, <1>2, <1>4, ElementOfSeq
  <2>2. shift + 1 \in Int /\ Len(Backlog) \in Int
    BY <1>1, <1>2, <1>4
  <2>3. /\ rest \in Seq(Request)
        /\ Len(rest) = IF shift + 1 <= Len(Backlog) THEN Len(Backlog) - (shift + 1) + 1 ELSE 0
        /\ \A i \in 1 .. Len(Backlog) - (shift + 1) + 1 : rest[i] = Backlog[(shift + 1) + i - 1]
    BY <2>1, <2>2, SubSeqProperties
  <2> HIDE DEF rest
  <2> QED
    BY <1>1, <1>2, <1>4, <2>3
<1>6. Push(req) => req \in Request
  BY NoneAssumption DEF Push, Taken
<1>7. /\ added \in Seq(Request)
      /\ Len(added) = IF Push(req) THEN 1 ELSE 0
      /\ Push(req) => added[1] = req
  <2>1. <<>> \in Seq(Request) /\ Len(<<>>) = 0
    BY EmptySeq
  <2>2. CASE Push(req)
    <3>1. added = <<req>> /\ req \in Request
      BY <1>6, <2>2
    <3> QED
      BY <2>2, <3>1
  <2>3. CASE ~Push(req)
    <3>1. added = <<>>
      BY <2>3
    <3> QED
      BY <2>1, <2>3, <3>1
  <2> QED
    BY <2>2, <2>3
<1> HIDE DEF rest
<1>8. /\ rest \o added \in Seq(Request)
      /\ Len(rest \o added) = count'
      /\ \A i \in 1 .. count' : (rest \o added)[i] =
           IF i <= count - shift THEN rest[i] ELSE added[i - (count - shift)]
  <2>1. /\ rest \o added \in Seq(Request)
        /\ Len(rest \o added) = Len(rest) + Len(added)
        /\ \A i \in 1 .. Len(rest) + Len(added) : (rest \o added)[i] =
             IF i <= Len(rest) THEN rest[i] ELSE added[i - Len(rest)]
    <3>1. rest \in Seq(Request) /\ added \in Seq(Request)
      BY <1>5, <1>7, Zenon
    <3> QED
      BY <3>1, ConcatProperties, Zenon
  <2>2. Len(rest) + Len(added) = count'
    <3>1. /\ count' = count - shift + (IF Push(req) THEN 1 ELSE 0)
          /\ Len(rest) = count - shift
          /\ Len(added) = IF Push(req) THEN 1 ELSE 0
      BY <1>1, <1>5, <1>7, Zenon
    <3> QED
      BY <3>1
  <2> QED
    BY <1>5, <2>1, <2>2
<1>9. ASSUME NEW i \in 1 .. count'
      PROVE  Backlog'[i] = (rest \o added)[i]
  <2>1. Backlog'[i] = IF i - 1 + shift = count THEN req ELSE slots[Nth(i - 1 + shift)]
    BY <1>1, <1>3, <1>4
  <2>2. CASE i <= count - shift
    <3>1. i - 1 + shift # count /\ shift + i \in 1 .. count
      BY <1>1, <1>4, <2>2
    <3>2. rest[i] = slots[Nth(shift + i - 1)]
      BY <1>2, <1>4, <1>5, <2>2, <3>1
    <3>3. shift + i - 1 = i - 1 + shift
      BY <1>1, <1>4
    <3> QED
      BY <1>8, <2>1, <2>2, <3>1, <3>2, <3>3
  <2>3. CASE ~(i <= count - shift)
    <3>1. Push(req) /\ i - 1 + shift = count /\ i - (count - shift) = 1
      BY <1>1, <1>4, <2>3
    <3> QED
      BY <1>7, <1>8, <2>1, <2>3, <3>1
  <2> QED
    BY <2>2, <2>3
<1> QED
  BY <1>3, <1>8, <1>9, SeqEqual DEF rest

\* The requester's half of an edge: unless the memory answers a direct request,
\* it is a response taken, a request refused, opened, or posted.
LEMMA FrontStep ==
  ASSUME IInv, IInv',
         NEW rspTaken \in BOOLEAN, NEW memTakes \in BOOLEAN,
         NEW reply \in Reply \cup {None},
         Clock(want, rspTaken, memTakes, reply),
         ~(state = "DIRECT_WAIT" /\ reply # None),
         NEW added, added = IF Push(want) THEN <<want>> ELSE <<>>
  PROVE  Ordered!Front(added)
<1> USE NoneAssumption
<1>1. /\ TypeOK /\ RingShape /\ OneAccess /\ OneAccess'
      /\ want \in Request \cup {None}
  BY DEF IInv, TypeOK
<1>2. RequesterSide(want, rspTaken, reply) /\ MemorySide(want, memTakes, reply)
  BY DEF Clock
<1> DEFINE Opened == IF DirectActive THEN direct ELSE None
<1>3. CASE Hold(want, rspTaken, reply)
  <2>1. /\ added = <<>> /\ rsp' \in {rsp, None} /\ direct' = direct /\ ~Taken(want)
    BY <1>3 DEF Hold, Push
  <2>2. DirectActive' <=> DirectActive
    BY <1>1, <1>2, <2>1 DEF MemorySide, Rest, Issue, Send, Await, RetireStore,
       RetireDirect, MemRspReady, DirectActive, TypeOK, States, Pop
  <2>3. Opened' = Opened
    BY <2>1, <2>2
  <2> QED
    BY <2>1, <2>3 DEF Ordered!Front, Ordered!Take
<1>4. CASE Refuse(want)
  <2>1. /\ added = <<>> /\ fault /\ rsp' = Blank(TRUE) /\ rsp = None /\ ~DirectActive
    BY <1>4 DEF Refuse, Push, Taken, ReqReady
  <2>2. ~DirectActive'
    BY <1>1, <1>2, <2>1 DEF MemorySide, Rest, Issue, Send, Await, RetireStore,
       RetireDirect, MemRspReady, DirectActive, OneAccess
  <2> QED
    BY <2>1, <2>2 DEF Ordered!Front, Ordered!Refuse, Blank, Ordered!Blank
<1>5. CASE Post(want)
  <2>1. /\ added = <<want>> /\ want \in Request /\ Postable(want) /\ ~fault
        /\ rsp' = Blank(FALSE) /\ rsp = None /\ ~DirectActive
    BY <1>1, <1>5 DEF Post, Push, Taken, ReqReady
  <2>2. ~DirectActive'
    BY <1>1, <1>2, <2>1 DEF MemorySide, Rest, Issue, Send, Await, RetireStore,
       RetireDirect, MemRspReady, DirectActive, OneAccess
  <2>3. Ordered!Post(want)
    BY <2>1, <2>2 DEF Ordered!Post, Blank, Ordered!Blank
  <2> QED
    BY <2>1, <2>3 DEF Ordered!Front
<1>6. CASE OpenDirect(want)
  <2>1. /\ added = <<>> /\ want \in Request /\ ~Postable(want) /\ ~fault
        /\ rsp' = rsp /\ rsp = None /\ ~DirectActive /\ direct' = want
        /\ Taken(want) /\ count = 0 /\ state = "IDLE"
    BY <1>1, <1>6 DEF OpenDirect, Push, Taken, ReqReady
  <2>2. DirectActive'
    BY <1>1, <1>2, <2>1 DEF MemorySide, Rest, Issue, Send, Await, RetireStore,
       RetireDirect, MemRspReady, DirectActive, Pop
  <2>3. Ordered!Open(want)
    BY <2>1, <2>2 DEF Ordered!Open
  <2> QED
    BY <2>1, <2>3 DEF Ordered!Front
<1>7. ~CloseDirect(reply)
  BY DEF CloseDirect
<1> QED
  BY <1>2, <1>3, <1>4, <1>5, <1>6, <1>7 DEF RequesterSide

\* Instantiated, the operators of Bus are the same operators.
LEMMA SameOutcomes == \A m, req : Ordered!Outcomes(m, req) = Outcomes(m, req)
BY DEF Outcomes, Ordered!Outcomes, Stored, Ordered!Stored, Blank, Ordered!Blank,
   ReadFrom, Ordered!ReadFrom

\* An edge without an answer moves the requester's half only.
LEMMA QuietImplements ==
  ASSUME IInv, IInv', NEW rspTaken \in BOOLEAN, NEW memTakes \in BOOLEAN,
         QuietCycle(rspTaken, memTakes)
  PROVE  Ordered!Next
<1> USE NoneAssumption
<1> DEFINE added == IF Push(want) THEN <<want>> ELSE <<>>
<1>1. /\ TypeOK /\ RingShape /\ OneAccess /\ TypeOK' /\ RingShape'
      /\ Clock(want, rspTaken, memTakes, None) /\ ~Pop(None)
      /\ ddr' = ddr /\ want \in Request \cup {None}
  BY DEF IInv, QuietCycle, Pop, TypeOK
<1>2. Ordered!Front(added)
  BY <1>1, FrontStep
<1>3. Ordered!Rest(0)
  BY <1>1, ClockFacts DEF Ordered!Rest
<1>4. Backlog' = SubSeq(Backlog, 0 + 1, Len(Backlog)) \o added
  <2>1. 0 = IF Pop(None) THEN 1 ELSE 0
    BY <1>1
  <2> QED
    BY <1>1, <2>1, BacklogStep
<1>5. added \in {<<>>} \cup {<<req>> : req \in Request}
  BY <1>1 DEF Push, Taken
<1> HIDE DEF added
<1> SUFFICES \E removed \in 0 .. 1, next \in {<<>>} \cup {<<req>> : req \in Request} :
           /\ Ordered!Front(next)
           /\ Ordered!Perform(removed) \/ Ordered!Rest(removed)
           /\ Backlog' = SubSeq(Backlog, removed + 1, Len(Backlog)) \o next
  BY DEF Ordered!Next
<1> WITNESS 0 \in 0 .. 1, added \in {<<>>} \cup {<<req>> : req \in Request}
<1> QED
  BY <1>2, <1>3, <1>4

\* The fabric answers: the oldest posted store reaches the memory, or the direct
\* request is performed on a memory that lacks no posted store.
LEMMA AnswerImplements ==
  ASSUME IInv, IInv', NEW rspTaken \in BOOLEAN, AnswerCycle(rspTaken)
  PROVE  Ordered!Next
<1> USE NoneAssumption
<1> DEFINE added == IF Push(want) THEN <<want>> ELSE <<>>
<1>1. /\ TypeOK /\ RingShape /\ OneAccess /\ TypeOK' /\ RingShape'
      /\ inFlight # None /\ MemRspReady /\ want \in Request \cup {None}
      /\ inFlight \in Request /\ ddr \in [Byte -> Value]
  BY DEF IInv, AnswerCycle, TypeOK
<1>2. PICK outcome \in Outcomes(ddr, inFlight) :
        /\ Clock(want, rspTaken, FALSE, outcome[2])
        /\ ddr' = outcome[1]
  BY DEF AnswerCycle
<1>3. outcome[2] \in Reply /\ outcome[2] # None
  BY <1>1, RequestAssumption, OutcomeFacts
<1>4. /\ Backlog \in Seq(Request) /\ Len(Backlog) = count
      /\ \A i \in 1 .. count : Backlog[i] = slots[Nth(i - 1)]
  BY <1>1, BacklogFacts DEF BacklogShape
<1>5. CASE state = "STORE_WAIT"
  <2>1. Pop(outcome[2]) /\ count > 0 /\ ~fault /\ inFlight = slots[head]
    BY <1>1, <1>3, <1>5 DEF Pop, OneAccess
  <2>2. Ordered!Front(added)
    BY <1>1, <1>2, <1>3, <1>5, FrontStep
  <2>3. Backlog # <<>> /\ Head(Backlog) = inFlight
    <3>1. Nth(0) = head /\ count \in Nat
      BY <1>1, NthFacts DEF TypeOK
    <3>2. Backlog[1] = inFlight
      BY <1>4, <2>1, <3>1
    <3>3. Backlog # <<>>
      BY <1>4, <2>1, EmptySeq
    <3> QED
      BY <1>4, <3>2, <3>3
  <2>4. fault' = outcome[2].err
    <3>1. fault' = (fault \/ outcome[2].err)
      BY <1>1, <1>2, <1>3, <2>1, ClockFacts
    <3>2. outcome[2].err \in BOOLEAN
      BY <1>3 DEF Reply
    <3> QED
      BY <2>1, <3>1, <3>2
  <2>5. Ordered!Perform(1)
    BY <1>2, <2>1, <2>3, <2>4, SameOutcomes DEF Ordered!Perform
  <2>6. Backlog' = SubSeq(Backlog, 1 + 1, Len(Backlog)) \o added
    <3>1. 1 = IF Pop(outcome[2]) THEN 1 ELSE 0
      BY <2>1
    <3> QED
      BY <1>1, <1>2, <1>3, <3>1, BacklogStep
  <2>7. added \in {<<>>} \cup {<<req>> : req \in Request}
    BY <1>1 DEF Push, Taken
  <2> HIDE DEF added
  <2> SUFFICES \E removed \in 0 .. 1, next \in {<<>>} \cup {<<req>> : req \in Request} :
             /\ Ordered!Front(next)
             /\ Ordered!Perform(removed) \/ Ordered!Rest(removed)
             /\ Backlog' = SubSeq(Backlog, removed + 1, Len(Backlog)) \o next
    BY DEF Ordered!Next
  <2> WITNESS 1 \in 0 .. 1, added \in {<<>>} \cup {<<req>> : req \in Request}
  <2> QED
    BY <2>2, <2>5, <2>6
<1>6. CASE state = "DIRECT_WAIT"
  <2>1. DirectActive /\ direct = inFlight /\ direct # None /\ count = 0
    BY <1>1, <1>6 DEF DirectActive, OneAccess
  <2>2. Backlog = <<>>
    BY <1>4, <2>1, EmptySeq
  <2>3. ~Push(want) /\ ~Pop(outcome[2])
    BY <1>6, <2>1 DEF Push, Taken, ReqReady, Pop
  <2>4. rsp' = outcome[2] /\ state' = "IDLE"
    BY <1>2, <1>3, <1>6, <2>1 DEF Clock, RequesterSide, Hold, Refuse, Post, OpenDirect,
       CloseDirect, Push, Taken, ReqReady, MemorySide, Rest, Issue, Send, Await,
       RetireStore, RetireDirect, Pop
  <2>5. fault' = fault /\ count' = 0
    <3>1. fault' = fault
      BY <1>1, <1>2, <1>3, <2>3, ClockFacts
    <3>2. count' = IF Push(want) = Pop(outcome[2]) THEN count
                   ELSE IF Push(want) THEN count + 1 ELSE count - 1
      BY <1>1, <1>2, <1>3, ClockFacts
    <3>3. Push(want) \in BOOLEAN /\ Pop(outcome[2]) \in BOOLEAN
      BY DEF Push, Pop, Taken, Postable
    <3>4. count' = 0
      BY <2>1, <2>3, <3>2, <3>3
    <3> QED
      BY <3>1, <3>4
  <2>6. Backlog' = <<>>
    <3>1. (TypeOK /\ RingShape => BacklogShape)'
      BY BacklogFacts, PTL
    <3> QED
      BY <1>1, <2>5, <3>1, EmptySeq DEF BacklogShape
  <2>7. ~DirectActive'
    BY <2>4 DEF DirectActive
  <2>8. Ordered!Close
    BY <1>2, <2>1, <2>2, <2>4, <2>5, <2>6, <2>7, SameOutcomes DEF Ordered!Close
  <2> QED
    BY <2>8 DEF Ordered!Next
<1> QED
  BY <1>1, <1>5, <1>6 DEF MemRspReady

\* Reset forgets the ring; the access in flight may have landed.
LEMMA ResetImplements == ASSUME IInv, IInv', SystemReset PROVE Ordered!Next
<1> USE NoneAssumption
<1>1. /\ TypeOK /\ RingShape /\ OneAccess /\ TypeOK' /\ RingShape'
      /\ count' = 0 /\ state' = "IDLE" /\ rsp' = None /\ fault' = FALSE
  BY DEF IInv, SystemReset, Reset, ResetRegisters
<1>2. /\ Backlog \in Seq(Request) /\ Len(Backlog) = count
      /\ \A i \in 1 .. count : Backlog[i] = slots[Nth(i - 1)]
  BY <1>1, BacklogFacts DEF BacklogShape
<1>3. Backlog' = <<>> /\ ~DirectActive'
  <2>1. (TypeOK /\ RingShape => BacklogShape)'
    BY BacklogFacts, PTL
  <2> QED
    BY <1>1, <2>1, EmptySeq DEF BacklogShape, DirectActive
<1> DEFINE Opened == IF DirectActive THEN direct ELSE None
           Landing == IF Backlog # <<>> THEN Ordered!Outcomes(ddr, Head(Backlog))
                      ELSE IF Opened # None THEN Ordered!Outcomes(ddr, Opened) ELSE {}
<1>4. inFlight # None => Landing = Outcomes(ddr, inFlight)
  <2> SUFFICES ASSUME inFlight # None PROVE Landing = Outcomes(ddr, inFlight)
    OBVIOUS
  <2>1. CASE state = "STORE_WAIT"
    <3>1. inFlight = slots[head] /\ count > 0 /\ Nth(0) = head /\ count \in Nat
      BY <1>1, <2>1, NthFacts DEF OneAccess, TypeOK
    <3>2. Backlog # <<>> /\ Backlog[1] = inFlight
      BY <1>2, <3>1, EmptySeq
    <3>3. Head(Backlog) = inFlight
      BY <1>2, <3>2
    <3> QED
      BY <3>2, <3>3, SameOutcomes
  <2>2. CASE state = "DIRECT_WAIT"
    <3>1. inFlight = direct /\ count = 0 /\ DirectActive
      BY <1>1, <2>2 DEF OneAccess, DirectActive
    <3>2. Backlog = <<>>
      BY <1>2, <3>1, EmptySeq
    <3> QED
      BY <3>1, <3>2, SameOutcomes
  <2> QED
    BY <1>1, <2>1, <2>2 DEF OneAccess
<1>5. ddr' \in {ddr} \cup {outcome[1] : outcome \in Landing}
  BY <1>4, Zenon DEF SystemReset
<1>6. Ordered!Reset
  BY <1>1, <1>3, <1>5 DEF Ordered!Reset
<1> QED
  BY <1>6 DEF Ordered!Next

\* The store buffer is an ordered memory (rv_write_buffer.sv:1-3): posted stores
\* reach the memory in order and exactly once, every other request sees them all,
\* and a late failure stops the memory.
THEOREM BufferIsOrdered == Spec => ImplementsOrderedMemory
<1>1. BMInit => Ordered!Init
  <2> SUFFICES ASSUME BMInit PROVE Ordered!Init
    OBVIOUS
  <2>1. IInv /\ TypeOK /\ RingShape
    BY InitIInv DEF IInv
  <2>2. BacklogShape /\ count = 0
    BY <2>1, BacklogFacts DEF BMInit, Init, ResetRegisters
  <2>3. Backlog = <<>>
    BY <2>2, EmptySeq DEF BacklogShape
  <2> QED
    BY <2>3 DEF Ordered!Init, BMInit, Init, ResetRegisters, DirectActive
<1>2. IInv /\ IInv' /\ [Next]_vars => [Ordered!Next]_(Ordered!vars)
  <2> SUFFICES ASSUME IInv, IInv', [Next]_vars PROVE [Ordered!Next]_(Ordered!vars)
    OBVIOUS
  <2>1. CASE UNCHANGED vars
    BY <2>1 DEF vars, wbVars, envVars, Ordered!vars, Backlog, Nth, DirectActive
  <2> QED
    BY <2>1, QuietImplements, AnswerImplements, ResetImplements DEF Next
<1> QED
  BY <1>1, <1>2, Invariance, PTL DEF Spec, ImplementsOrderedMemory, Ordered!Spec
=============================================================================
