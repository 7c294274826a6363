-------------------------- MODULE SocMemoryProofs --------------------------
(***************************************************************************)
(* Proofs about SocMemory for any division of DDR into words, any cache,   *)
(* any ring, any memory and any requests of the four masters.              *)
(***************************************************************************)
EXTENDS SocMemory, WellFoundedInduction, TLAPS

-----------------------------------------------------------------------------
(***************************************************************************)
(* The invariant.  First the registers, one by one.                        *)
(***************************************************************************)
CacheTyped ==
  /\ cState \in Cache!CacheStates
  /\ lines \in [Index -> Cache!Line \cup {None}]
  /\ held \in CpuRequest \cup {None} /\ line \in Cache!Line \cup {None}
  /\ cRsp \in Reply \cup {None}
  /\ writeHit \in BOOLEAN /\ poisoned \in BOOLEAN

\* The entry i stores behind the oldest one.
Nth(i) == (head + i) % Depth

BufferTyped ==
  /\ slots \in [Buffer!Slot -> AnyRequest \cup {None}]
  /\ head \in Buffer!Slot /\ tail \in Buffer!Slot /\ count \in 0 .. Depth
  /\ bState \in Buffer!States
  /\ direct \in AnyRequest \cup {None} /\ bRsp \in Reply \cup {None}
  /\ fault \in BOOLEAN

FabricTyped ==
  /\ owner \in {None} \cup 0 .. 3 /\ lastOwner \in 0 .. 3
  /\ tState \in Target!TargetStates /\ tReply \in Reply \cup {None}
  /\ agentActive \in BOOLEAN
  /\ cpuReq \in CpuRequest \cup {None} /\ walkerReq \in WalkerRequest \cup {None}
  /\ fetchReq \in FetchRequest \cup {None} /\ dmaReq \in DmaRequest \cup {None}
  /\ atMemory \in AnyRequest \cup {None}
  /\ ddr \in [Byte -> Value]

Typed == CacheTyped /\ BufferTyped /\ FabricTyped

\* The ring holds stores, from head on as many as count says.
RingShape ==
  /\ tail = Nth(count)
  /\ \A i \in 0 .. Depth - 1 : i < count => slots[Nth(i)] # None /\ slots[Nth(i)].write

\* What the buffer is sending, or waiting for.
CpuAccess == IF bState \in {"STORE_SEND", "STORE_WAIT"} THEN slots[head] ELSE direct

\* The arbiter, the target and the memory agree on the access that is outstanding.
OneAccess ==
  /\ owner = None <=> tState = "TARGET_IDLE"
  /\ atMemory # None <=> tState = "TARGET_EXTERNAL"
  /\ tReply # None <=> tState \in {"TARGET_WAIT", "TARGET_RESPONSE"}
  /\ owner = Cpu <=> Buffer!MemRspReady
  /\ owner = Cpu /\ atMemory # None => atMemory = CpuAccess
  /\ owner = Fetch /\ atMemory # None => ~atMemory.write
  /\ fault => owner = None

\* The request the cache sends for the access it holds: a load that missed asks for its word.
Sent == IF Cache!Cacheable(held) /\ ~held.write
        THEN [held EXCEPT !.bytes = Cache!WordOf(held)] ELSE held

\* The buffer is at work for the cache only while the cache waits for it.
InStep ==
  /\ Cache!Idle <=> held = None
  /\ cState # "WAIT_DATA" => bRsp = None /\ ~Buffer!DirectActive
  /\ cState = "WAIT_DATA" =>
       IF bRsp # None THEN ~Buffer!DirectActive ELSE Buffer!DirectActive /\ direct = Sent
  /\ cState = "RESPONSE" <=> cRsp # None
  /\ Buffer!DirectActive => count = 0 /\ ~fault
  /\ bState \in {"STORE_SEND", "STORE_WAIT"} => count > 0 /\ ~fault

\* The store is merged into the line only if the line is its own.
WriteHit ==
  writeHit /\ cState \in {"SEND", "WAIT_DATA"} =>
    line # None /\ line.word = Cache!WordOf(held) /\ held.write

\* Data that will be looked at is there.
AnswerShape ==
  /\ owner = Cpu /\ tReply # None /\ ~tReply.err /\ ~CpuAccess.write =>
       tReply.data \in [CpuAccess.bytes -> Value]
  /\ bRsp # None /\ ~bRsp.err /\ ~held.write => bRsp.data \in [Sent.bytes -> Value]

Control == RingShape /\ OneAccess /\ InStep /\ WriteHit /\ AnswerShape /\ AgentsOwnMemory

Wired == Typed /\ Control

(***************************************************************************)
(* Then what they hold.                                                    *)
(***************************************************************************)

\* A cached line is what the CPU would read.
LinesCurrent ==
  \A i \in Index :
    lines[i] # None =>
      /\ IndexOf[lines[i].word] = i
      /\ \A b \in lines[i].word : lines[i].data[b] = View[b]

\* So is the line read for the access in hand, but for the bytes the access stores.
CapturedCurrent ==
  line # None =>
    /\ cState # "IDLE" /\ Cache!Cacheable(held)
    /\ cState # "RESPONSE" =>
         \A b \in line.word : b \notin held.bytes \/ ~held.write => line.data[b] = View[b]

\* A store on its way is in no line.
StoreUncached ==
  held # None /\ held.write /\ (cState \in {"SEND", "WAIT_DATA"} \/ ~Cache!Cacheable(held)) =>
    \A i \in Index : lines[i] # None => lines[i].word \cap held.bytes = {}

\* What the target is about to answer to the CPU has been performed.
Performed ==
  owner = Cpu /\ tReply # None /\ ~tReply.err =>
    IF CpuAccess.write THEN \A b \in CpuAccess.bytes : ddr[b] = CpuAccess.data
    ELSE tReply.data = ReadFrom(ddr, CpuAccess.bytes)

\* What the buffer answers the cache is current.
AnswerCurrent ==
  cState = "WAIT_DATA" /\ bRsp # None /\ ~bRsp.err =>
    IF held.write THEN \A b \in held.bytes : View[b] = held.data
    ELSE bRsp.data = ReadFrom(View, Sent.bytes)

\* What the cache answers the CPU is current.
DeliveryCurrent ==
  cState = "RESPONSE" /\ ~held.write /\ ~cRsp.err => cRsp.data = ReadFrom(View, held.bytes)

Current ==
  ~fault => /\ LinesCurrent /\ CapturedCurrent /\ StoreUncached
            /\ Performed /\ AnswerCurrent /\ DeliveryCurrent

IInv == Wired /\ Current

-----------------------------------------------------------------------------
(***************************************************************************)
(* The ring, and the memory with its stores applied.                       *)
(***************************************************************************)

\* Numbers up to n have a greatest one.
LEMMA GreatestIndex ==
  ASSUME NEW n \in Nat, NEW T, T \subseteq 1 .. n, T # {}
  PROVE  \E i \in T : \A j \in T : j <= i
<1> DEFINE R == OpToRel(<, Nat)
           D == {n - i : i \in T}
<1>1. IsWellFoundedOn(R, Nat)
  BY NatLessThanWellFounded
<1> HIDE DEF R
<1>2. D \subseteq Nat /\ D # {}
  <2>1. \A i \in T : i \in 1 .. n /\ n - i \in Nat
    OBVIOUS
  <2> QED
    BY <2>1
<1>3. PICK d \in D : \A e \in D : ~(<<e, d>> \in R)
  BY <1>1, <1>2, WFMin
<1>4. ASSUME NEW e \in D PROVE d <= e
  <2>1. ~(<<e, d>> \in R) /\ e \in Nat /\ d \in Nat
    BY <1>2, <1>3
  <2>2. ~(e < d)
    BY <2>1 DEF R, OpToRel
  <2> QED
    BY <2>1, <2>2
<1> HIDE DEF D
<1>5. PICK i \in T : d = n - i
  BY <1>3 DEF D
<1>6. ASSUME NEW j \in T PROVE j <= i
  <2>1. n - j \in D /\ i \in 1 .. n /\ j \in 1 .. n
    BY DEF D
  <2>2. n - i <= n - j
    BY <1>4, <1>5, <2>1
  <2> QED
    BY <2>1, <2>2
<1> QED
  BY <1>5, <1>6

\* Counting stores from head stays in the ring and never repeats a slot.
LEMMA NthFacts ==
  ASSUME head \in Buffer!Slot
  PROVE  /\ Nth(0) = head
         /\ \A i \in 0 .. Depth : Nth(i) \in Buffer!Slot
         /\ \A i, j \in 0 .. Depth - 1 : Nth(i) = Nth(j) => i = j
         /\ \A i \in 0 .. Depth - 1 : Buffer!After(Nth(i)) = Nth(i + 1)
BY ShapeAssumption DEF Nth, Buffer!Slot, Buffer!After

\* When the oldest store leaves, every other one is one place nearer.
LEMMA NthAfterPop ==
  ASSUME head \in Buffer!Slot, head' = Buffer!After(head)
  PROVE  \A i \in 0 .. Depth - 1 : Nth(i)' = Nth(i + 1)
BY ShapeAssumption DEF Nth, Buffer!Slot, Buffer!After

\* The ring by slots.
LEMMA RingIs ==
  ASSUME head \in Buffer!Slot, count \in 0 .. Depth
  PROVE  \A i \in 1 .. count : Ring[i] = slots[Nth(i - 1)]
BY ShapeAssumption DEF Ring, Nth, Buffer!Slot

\* The newest of n stores in r to byte b, and what the byte is with them applied to d.
LEMMA NewestFacts ==
  ASSUME NEW n \in Nat, NEW r, NEW d, NEW b, NEW v, NEW T,
         T = {i \in 1 .. n : b \in r[i].bytes /\ \A j \in i + 1 .. n : b \notin r[j].bytes},
         v = IF T = {} THEN d ELSE r[CHOOSE i \in T : TRUE].data
  PROVE  /\ T = {} => v = d
         /\ \A i \in T : v = r[i].data
         /\ \A i \in 1 .. n : b \in r[i].bytes => T # {}
<1>2. ASSUME NEW i \in T, NEW j \in T PROVE i = j
  <2>1. /\ i \in 1 .. n /\ b \in r[i].bytes /\ \A k \in i + 1 .. n : b \notin r[k].bytes
        /\ j \in 1 .. n /\ b \in r[j].bytes /\ \A k \in j + 1 .. n : b \notin r[k].bytes
    OBVIOUS
  <2>2. ~(i < j) /\ ~(j < i)
    BY <2>1
  <2> QED
    BY <2>1, <2>2
<1>3. ASSUME NEW i \in 1 .. n, b \in r[i].bytes PROVE T # {}
  <2> DEFINE U == {k \in 1 .. n : b \in r[k].bytes}
  <2>1. U \subseteq 1 .. n /\ U # {}
    BY <1>3
  <2>2. PICK k \in U : \A j \in U : j <= k
    BY <2>1, GreatestIndex
  <2>3. ASSUME NEW j \in k + 1 .. n PROVE b \notin r[j].bytes
    BY <2>2
  <2> QED
    BY <2>2, <2>3
<1>4. ASSUME NEW i \in T PROVE v = r[i].data
  <2>1. (CHOOSE k \in T : TRUE) \in T
    BY <1>4
  <2>2. (CHOOSE k \in T : TRUE) = i
    BY <1>2, <2>1
  <2> QED
    BY <2>1, <2>2
<1> QED
  BY <1>3, <1>4

\* How View changes when a store enters, the oldest one leaves, and memory changes
\* where the oldest one goes.
LEMMA ViewStep ==
  ASSUME count \in Nat, count' \in Nat, NEW pushed \in BOOLEAN, NEW popped \in BOOLEAN,
         NEW req, NEW k \in 0 .. 1, k = IF popped THEN 1 ELSE 0, k <= count,
         count' = count - k + IF pushed THEN 1 ELSE 0,
         \A i \in 1 .. count - k : Ring'[i] = Ring[i + k],
         pushed => Ring'[count'] = req,
         \A b \in Byte : ddr'[b] = ddr[b] \/ (count > 0 /\ b \in Ring[1].bytes),
         popped => \A b \in Ring[1].bytes : ddr'[b] = Ring[1].data
  PROVE  \A b \in Byte : View'[b] = IF pushed /\ b \in req.bytes THEN req.data ELSE View[b]
<1> SUFFICES ASSUME NEW b \in Byte
             PROVE  View'[b] = IF pushed /\ b \in req.bytes THEN req.data ELSE View[b]
  OBVIOUS
<1>3. /\ Newest(b) = {i \in 1 .. count : /\ b \in Ring[i].bytes
                                       /\ \A j \in i + 1 .. count : b \notin Ring[j].bytes}
      /\ Newest(b)' = {i \in 1 .. count' : /\ b \in Ring'[i].bytes
                                         /\ \A j \in i + 1 .. count' : b \notin Ring'[j].bytes}
  BY DEF Newest
<1>1. /\ Newest(b) = {} => View[b] = ddr[b]
      /\ \A i \in Newest(b) : View[b] = Ring[i].data
      /\ \A i \in 1 .. count : b \in Ring[i].bytes => Newest(b) # {}
  <2> DEFINE n == count
             r == Ring
             T == Newest(b)
             v == View[b]
             d == ddr[b]
  <2>1. /\ n \in Nat
        /\ T = {i \in 1 .. n : b \in r[i].bytes /\ \A j \in i + 1 .. n : b \notin r[j].bytes}
        /\ v = IF T = {} THEN d ELSE r[CHOOSE i \in T : TRUE].data
    BY <1>3 DEF View
  <2> HIDE DEF n, r, T, v, d
  <2>2. /\ T = {} => v = d
        /\ \A i \in T : v = r[i].data
    BY <2>1, NewestFacts
  <2>3. \A i \in 1 .. n : b \in r[i].bytes => T # {}
    BY <2>1, NewestFacts
  <2> QED
    BY <2>2, <2>3 DEF n, r, T, v, d
<1>2. /\ Newest(b)' = {} => View'[b] = ddr'[b]
      /\ \A i \in Newest(b)' : View'[b] = Ring'[i].data
  <2> DEFINE n == count'
             r == Ring'
             T == Newest(b)'
             v == View'[b]
             d == ddr'[b]
  <2>1. /\ n \in Nat
        /\ T = {i \in 1 .. n : b \in r[i].bytes /\ \A j \in i + 1 .. n : b \notin r[j].bytes}
        /\ v = IF T = {} THEN d ELSE r[CHOOSE i \in T : TRUE].data
    BY <1>3 DEF View
  <2> HIDE DEF n, r, T, v, d
  <2>2. /\ T = {} => v = d
        /\ \A i \in T : v = r[i].data
    BY <2>1, NewestFacts
  <2> QED
    BY <2>2 DEF n, r, T, v, d
<1>4. CASE pushed /\ b \in req.bytes
  <2>1. count' \in Newest(b)'
    BY <1>3, <1>4
  <2> QED
    BY <1>2, <1>4, <2>1
<1>5. CASE ~(pushed /\ b \in req.bytes)
  <2>1. ASSUME NEW j \in 1 .. count', b \in Ring'[j].bytes
        PROVE  j \in 1 .. count - k /\ Ring'[j] = Ring[j + k]
    <3>1. CASE j <= count - k
      BY <3>1
    <3>2. CASE j > count - k
      BY <1>5, <2>1, <3>2
    <3> QED
      BY <3>1, <3>2
  <2>2. CASE \E i \in Newest(b) : i > k
    <3>1. PICK i \in Newest(b) : i > k
      BY <2>2
    <3>2. i - k \in 1 .. count' /\ Ring'[i - k] = Ring[i] /\ b \in Ring[i].bytes
      BY <1>3, <3>1
    <3>3. ASSUME NEW j \in i - k + 1 .. count', b \in Ring'[j].bytes PROVE FALSE
      <4>1. j \in 1 .. count - k /\ Ring'[j] = Ring[j + k]
        BY <2>1, <3>1, <3>3, <3>2
      <4>2. j + k \in i + 1 .. count
        BY <3>1, <3>2, <4>1, <1>3
      <4> QED
        BY <1>3, <3>1, <3>3, <4>1, <4>2
    <3>4. i - k \in Newest(b)'
      BY <1>3, <3>2, <3>3
    <3> QED
      BY <1>1, <1>2, <1>5, <3>1, <3>2, <3>4
  <2>3. CASE ~\E i \in Newest(b) : i > k
    <3>1. ASSUME NEW j \in Newest(b)' PROVE FALSE
      <4>1. j \in 1 .. count - k /\ b \in Ring[j + k].bytes
        BY <1>3, <2>1
      <4>2. j + k \in 1 .. count
        BY <4>1
      <4>3. PICK i \in Newest(b) : TRUE
        BY <1>1, <4>1, <4>2
      <4>4. i \in 1 .. count /\ i <= k
        BY <1>3, <2>3, <4>3
      <4> QED
        BY <1>3, <4>1, <4>2, <4>3, <4>4
    <3>2. View'[b] = ddr'[b]
      BY <1>2, <3>1
    <3>3. CASE Newest(b) = {}
      <4>1. ~(count > 0 /\ b \in Ring[1].bytes)
        BY <1>1, <3>3
      <4> QED
        BY <1>1, <1>5, <3>2, <3>3, <4>1
    <3>4. CASE Newest(b) # {}
      <4>1. PICK i \in Newest(b) : TRUE
        BY <3>4
      <4>2. i = 1 /\ k = 1 /\ b \in Ring[1].bytes
        BY <1>3, <2>3, <4>1
      <4> QED
        BY <1>1, <1>5, <3>2, <4>1, <4>2
    <3> QED
      BY <3>3, <3>4
  <2> QED
    BY <2>2, <2>3
<1> QED
  BY <1>4, <1>5

-----------------------------------------------------------------------------
(***************************************************************************)
(* What is on the wires.                                                   *)
(***************************************************************************)

\* None is no master, no request and no response.
LEMMA NoneFacts ==
  /\ None \notin 0 .. 3 /\ None \notin Request /\ None \notin AnyRequest /\ None \notin Reply
  /\ Cpu # Walker /\ Cpu # Fetch /\ Cpu # Dma /\ Walker # Fetch /\ Walker # Dma /\ Fetch # Dma
  /\ {Cpu, Walker, Fetch, Dma} = 0 .. 3
BY ShapeAssumption, NoneAssumption, RequestAssumption DEF Cpu, Walker, Fetch, Dma

\* The word of an access is the only one it touches.
LEMMA WordFacts ==
  ASSUME NEW req \in Request, Cache!Cacheable(req)
  PROVE  /\ Cache!WordOf(req) \in Word /\ Cache!WordOf(req) \subseteq Byte
         /\ req.bytes \subseteq Cache!WordOf(req)
         /\ IndexOf[Cache!WordOf(req)] \in Index
         /\ req.bytes # {} => \A w \in Word : w \cap req.bytes # {} => w = Cache!WordOf(req)
<1>1. Cache!WordOf(req) \in Word /\ req.bytes \subseteq Cache!WordOf(req)
  BY DEF Cache!WordOf, Cache!Cacheable
<1>2. Cache!WordOf(req) \subseteq Byte /\ IndexOf[Cache!WordOf(req)] \in Index
  BY <1>1, WordAssumption, RequestAssumption
<1>3. req.bytes # {} => \A w \in Word : w \cap req.bytes # {} => w = Cache!WordOf(req)
  BY <1>1, WordAssumption
<1> QED
  BY <1>1, <1>2, <1>3

\* What the cache sends differs from what it holds only for a load, and only in covering more.
LEMMA SentFacts ==
  ASSUME held \in CpuRequest
  PROVE  /\ held \in Request /\ held # None /\ held.bytes # {}
         /\ Sent \in AnyRequest /\ Sent # None /\ Sent.write = held.write
         /\ held.bytes \subseteq Sent.bytes
         /\ held.write => Sent = held
         /\ Cache!Cacheable(held) /\ ~held.write => Sent.bytes = Cache!WordOf(held)
         /\ ~Cache!Cacheable(held) => Sent = held
<1>1. held \in Request /\ held \in AnyRequest /\ held # None /\ held.bytes # {}
  BY MasterAssumption, RequestAssumption, NoneFacts
<1>2. CASE Cache!Cacheable(held) /\ ~held.write
  <2>1. Cache!WordOf(held) \subseteq Byte /\ held.bytes \subseteq Cache!WordOf(held)
    BY <1>1, <1>2, WordFacts
  <2>2. Sent = [held EXCEPT !.bytes = Cache!WordOf(held)]
    BY <1>2 DEF Sent
  <2>3. /\ Sent \in AnyRequest /\ Sent.write = held.write
        /\ Sent.bytes = Cache!WordOf(held)
    BY <1>1, <2>1, <2>2 DEF AnyRequest
  <2> QED
    BY <1>1, <1>2, <2>1, <2>3, NoneFacts
<1>3. CASE ~(Cache!Cacheable(held) /\ ~held.write)
  BY <1>1, <1>3 DEF Sent
<1> QED
  BY <1>2, <1>3

\* What the buffer is at work on.
LEMMA BufferFacts ==
  ASSUME Typed, RingShape, InStep
  PROVE  /\ cState # "IDLE" => held \in CpuRequest
         /\ Cache!MemRequest = IF cState = "SEND" THEN Sent ELSE None
         /\ Buffer!MemRequest = IF ~fault /\ bState \in {"STORE_SEND", "DIRECT_SEND"}
                                  THEN CpuAccess ELSE None
         /\ bState # "IDLE" => CpuAccess \in AnyRequest /\ CpuAccess # None
         /\ bState \in {"STORE_SEND", "STORE_WAIT"} =>
              count > 0 /\ CpuAccess = Ring[1] /\ CpuAccess.write
         /\ Buffer!DirectActive =>
              /\ cState = "WAIT_DATA" /\ bRsp = None /\ count = 0 /\ ~fault
              /\ CpuAccess = Sent
<1>1. cState # "IDLE" => held \in CpuRequest
  BY DEF Typed, CacheTyped, InStep, Cache!Idle
<1>2. Cache!MemRequest = IF cState = "SEND" THEN Sent ELSE None
  BY DEF Cache!MemRequest, Sent
<1>3. Buffer!DirectActive =>
        /\ cState = "WAIT_DATA" /\ bRsp = None /\ count = 0 /\ ~fault
        /\ CpuAccess = Sent
  BY DEF InStep, CpuAccess, Buffer!DirectActive
<1>4. bState \in {"STORE_SEND", "STORE_WAIT"} =>
        /\ count > 0 /\ CpuAccess = Ring[1] /\ CpuAccess.write
        /\ CpuAccess \in AnyRequest /\ CpuAccess # None
  <2> SUFFICES ASSUME bState \in {"STORE_SEND", "STORE_WAIT"}
               PROVE  /\ count > 0 /\ CpuAccess = Ring[1] /\ CpuAccess.write
                      /\ CpuAccess \in AnyRequest /\ CpuAccess # None
    OBVIOUS
  <2>1. count > 0 /\ head \in Buffer!Slot /\ count \in 0 .. Depth /\ CpuAccess = slots[head]
    BY DEF InStep, Typed, BufferTyped, CpuAccess
  <2>2. Nth(0) = head /\ Ring[1] = slots[Nth(0)]
    BY <2>1, NthFacts, RingIs
  <2>3. slots[head] # None /\ slots[head].write
    BY <2>1, <2>2, ShapeAssumption DEF RingShape
  <2>4. slots[head] \in AnyRequest \cup {None}
    BY <2>1 DEF Typed, BufferTyped
  <2> QED
    BY <2>1, <2>2, <2>3, <2>4
<1>5. bState # "IDLE" => CpuAccess \in AnyRequest /\ CpuAccess # None
  <2>1. Buffer!DirectActive => CpuAccess \in AnyRequest /\ CpuAccess # None
    BY <1>1, <1>3, SentFacts
  <2> QED
    BY <1>4, <2>1 DEF Buffer!DirectActive, Typed, BufferTyped, Buffer!States
<1>6. Buffer!MemRequest = IF ~fault /\ bState \in {"STORE_SEND", "DIRECT_SEND"}
                            THEN CpuAccess ELSE None
  BY DEF Buffer!MemRequest, CpuAccess
<1> QED
  BY <1>1, <1>2, <1>3, <1>4, <1>5, <1>6

\* What the target has to say, and that it is heard.
LEMMA ResponseFacts ==
  ASSUME Typed, OneAccess
  PROVE  /\ BusResponse # None <=> tState = "TARGET_RESPONSE"
         /\ BusResponseTaken <=> tState = "TARGET_RESPONSE"
         /\ tState = "TARGET_RESPONSE" => /\ BusResponse = tReply /\ tReply \in Reply
                                          /\ tReply # None /\ owner # None
         /\ Buffer!MemRspReady /\ ResponseTo(Cpu) # None <=>
              owner = Cpu /\ tState = "TARGET_RESPONSE"
         /\ ResponseTo(Cpu) # None => ResponseTo(Cpu) = tReply
<1>1. /\ BusResponse # None <=> tState = "TARGET_RESPONSE"
      /\ tState = "TARGET_RESPONSE" => BusResponse = tReply /\ tReply # None /\ owner # None
      /\ tState = "TARGET_RESPONSE" => tReply \in Reply
  BY DEF BusResponse, Target!Response, OneAccess, Typed, FabricTyped
<1>2. BusResponseTaken <=> tState = "TARGET_RESPONSE"
  BY <1>1 DEF BusResponseTaken, OneAccess
<1> QED
  BY <1>1, <1>2 DEF ResponseTo, OneAccess

\* Somebody asking is chosen.
LEMMA ChosenFacts ==
  ASSUME Typed, Chosen # None
  PROVE  owner = None /\ Chosen \in 0 .. 3 /\ Presented[Chosen] # None
<1> DEFINE A == {m \in 0 .. 3 : Presented[m] # None}
           T(m) == (m - lastOwner - 1) % 4
<1>1. /\ owner = None /\ A # {}
      /\ Chosen = CHOOSE m \in A : \A n \in A : T(m) <= T(n)
  BY DEF Chosen, Arbiter!Chosen, Arbiter!Asking, Arbiter!Master, Arbiter!Turn
<1>2. \A m \in 0 .. 3 : T(m) \in 0 .. 3
  BY DEF Typed, FabricTyped
<1>3. A \subseteq 0 .. 3
  OBVIOUS
<1>4. \E m \in A : \A n \in A : T(m) <= T(n)
  <2> HIDE DEF A, T
  <2>1. \A m \in A : T(m) \in 0 .. 3
    BY <1>2, <1>3
  <2> QED
    BY <1>1, <2>1
<1>5. Chosen \in A
  BY <1>1, <1>4
<1>6. Chosen \in 0 .. 3 /\ Presented[Chosen] # None
  BY <1>5
<1> QED
  BY <1>1, <1>6

\* A request at the arbiter: whose it is, and what its being there says.
LEMMA PresentedFacts ==
  ASSUME Typed, RingShape, OneAccess, InStep, NEW m \in 0 .. 3, Presented[m] # None
  PROVE  /\ Presented[m] \in AnyRequest /\ ~fault
         /\ m = Cpu => bState \in {"STORE_SEND", "DIRECT_SEND"} /\ Presented[m] = CpuAccess
         /\ m = Fetch => ~Presented[m].write /\ Buffer!Idle
         /\ m \in {Walker, Dma} => AgentGrant /\ AgentPending
<1>1. CASE m = Cpu
  <2>1. Presented[m] = Buffer!MemRequest
    BY <1>1 DEF Presented, Arbiter!Master
  <2> QED
    BY <1>1, <2>1, BufferFacts, NoneFacts
<1>2. CASE m = Walker
  <2>1. AgentGrant /\ Presented[m] = walkerReq /\ walkerReq # None
    BY <1>2, NoneFacts DEF Presented, Arbiter!Master
  <2>2. walkerReq \in AnyRequest
    BY <2>1, MasterAssumption, RequestAssumption DEF Typed, FabricTyped
  <2> QED
    BY <1>2, <2>1, <2>2, NoneFacts DEF AgentGrant, AgentPending
<1>3. CASE m = Fetch
  <2>1. InstructionGrant /\ Presented[m] = fetchReq /\ fetchReq # None
    BY <1>3, NoneFacts DEF Presented, Arbiter!Master
  <2>2. fetchReq \in AnyRequest /\ ~fetchReq.write
    BY <2>1, MasterAssumption, RequestAssumption DEF Typed, FabricTyped
  <2> QED
    BY <1>3, <2>1, <2>2, NoneFacts DEF InstructionGrant
<1>4. CASE m = Dma
  <2>1. AgentGrant /\ Presented[m] = dmaReq /\ dmaReq # None
    BY <1>4, NoneFacts DEF Presented, Arbiter!Master
  <2>2. dmaReq \in AnyRequest
    BY <2>1, MasterAssumption, RequestAssumption DEF Typed, FabricTyped
  <2> QED
    BY <1>4, <2>1, <2>2, NoneFacts DEF AgentGrant, AgentPending
<1> QED
  BY <1>1, <1>2, <1>3, <1>4, NoneFacts

-----------------------------------------------------------------------------
(***************************************************************************)
(* What an edge does to the fabric.                                        *)
(***************************************************************************)
Rests ==
  owner = None /\ UNCHANGED <<owner, lastOwner, tState, tReply, atMemory, agentActive, ddr>>

Waits ==
  /\ owner # None /\ UNCHANGED <<owner, lastOwner, tReply, atMemory, agentActive, ddr>>
  /\ \/ tState = "TARGET_WAIT" /\ tState' = "TARGET_RESPONSE"
     \/ tState = "TARGET_EXTERNAL" /\ tState' = tState

Collects ==
  /\ owner # None /\ UNCHANGED <<owner, lastOwner, agentActive>>
  /\ tState = "TARGET_EXTERNAL" /\ tState' = "TARGET_RESPONSE"
  /\ atMemory # None /\ atMemory' = None
  /\ \E outcome \in Outcomes(ddr, atMemory) : ddr' = outcome[1] /\ tReply' = outcome[2]

Releases ==
  /\ owner # None /\ owner' = None /\ lastOwner' = owner
  /\ tState = "TARGET_RESPONSE" /\ tState' = "TARGET_IDLE" /\ tReply' = None
  /\ agentActive' = (agentActive /\ owner \notin {Walker, Dma})
  /\ UNCHANGED <<atMemory, ddr>>

Grants(m) ==
  /\ owner = None /\ owner' = m /\ m \in 0 .. 3 /\ Presented[m] # None /\ UNCHANGED lastOwner
  /\ agentActive' = (agentActive \/ m \in {Walker, Dma})
  /\ \/ /\ tState' = "TARGET_EXTERNAL" /\ tReply' = None /\ atMemory' = Presented[m]
        /\ UNCHANGED ddr
     \/ /\ tState' = "TARGET_WAIT" /\ atMemory' = None
        /\ \E outcome \in Outcomes(ddr, Presented[m]) : ddr' = outcome[1] /\ tReply' = outcome[2]

FabricMoves(granted) ==
  IF granted = None THEN Rests \/ Waits \/ Collects \/ Releases ELSE Grants(granted)

\* What the cache and the buffer see of the edge, and what the masters ask for after it.
CpuSide(ready, granted) ==
  /\ Cache!Clock(HostRequest, TRUE, Buffer!Taken(Cache!MemRequest), bRsp, Invalidate(ready))
  /\ Buffer!Clock(Cache!MemRequest, Cache!MemRspReady, granted = Cpu, ResponseTo(Cpu))
  /\ cpuReq' \in CpuRequest \cup {None} /\ walkerReq' \in WalkerRequest \cup {None}
  /\ fetchReq' \in FetchRequest \cup {None} /\ dmaReq' \in DmaRequest \cup {None}

\* The part of an edge that does not depend on who performs an access.
LEMMA EdgeFacts ==
  ASSUME Typed, RingShape, OneAccess, InStep, NEW ready \in Ready, NEW willing \in BOOLEAN,
         NEW local \in Reply \cup {None}, NEW external \in Reply \cup {None},
         Edge(ready, willing, local, external)
  PROVE  LET granted == Granted(ready, willing)
             taken == IF granted = None THEN None ELSE Presented[granted]
         IN /\ CpuSide(ready, granted)
            /\ granted # None =>
                 /\ granted \in 0 .. 3 /\ taken = BusRequest /\ taken # None
                 /\ TargetReady(ready, willing) /\ owner = None /\ tState = "TARGET_IDLE"
                 /\ owner' = granted /\ UNCHANGED lastOwner
                 /\ agentActive' = (agentActive \/ granted \in {Walker, Dma})
                 /\ IF Target!External(taken)
                      THEN tState' = "TARGET_EXTERNAL" /\ tReply' = None /\ atMemory' = taken
                      ELSE /\ tState' = "TARGET_WAIT" /\ tReply' = local
                           /\ atMemory' = IF external # None THEN None ELSE atMemory
            /\ granted = None =>
                 /\ atMemory' = IF external # None THEN None ELSE atMemory
                 /\ IF tState = "TARGET_RESPONSE"
                      THEN /\ owner' = None /\ lastOwner' = owner
                           /\ tState' = "TARGET_IDLE" /\ tReply' = None
                           /\ agentActive' = (agentActive /\ owner \notin {Walker, Dma})
                      ELSE UNCHANGED <<owner, lastOwner, agentActive>>
                 /\ tState = "TARGET_IDLE" => UNCHANGED <<tState, tReply>>
                 /\ tState = "TARGET_WAIT" => tState' = "TARGET_RESPONSE" /\ UNCHANGED tReply
                 /\ tState = "TARGET_EXTERNAL" =>
                      IF external # None THEN tState' = "TARGET_RESPONSE" /\ tReply' = external
                                         ELSE UNCHANGED <<tState, tReply>>
<1> DEFINE granted == Granted(ready, willing)
           taken == IF granted = None THEN None ELSE Presented[granted]
<1>1. /\ Cache!Clock(HostRequest, TRUE, Buffer!Taken(Cache!MemRequest), bRsp, Invalidate(ready))
      /\ Buffer!Clock(Cache!MemRequest, Cache!MemRspReady, granted = Cpu, ResponseTo(Cpu))
      /\ Arbiter!Clock(granted, BusResponseTaken)
      /\ Target!Clock(taken, local, external, BusResponseTaken)
      /\ atMemory' = IF taken # None /\ Target!External(taken) THEN taken
                     ELSE IF external # None THEN None ELSE atMemory
      /\ CpuStep(ready)
      /\ WalkerStep(granted = Walker)
      /\ FetchStep(granted = Fetch)
      /\ DmaStep(granted = Dma)
      /\ AgentStep(granted \in {Walker, Dma})
  BY DEF Edge
<1>2. /\ cpuReq' \in CpuRequest \cup {None} /\ walkerReq' \in WalkerRequest \cup {None}
      /\ fetchReq' \in FetchRequest \cup {None} /\ dmaReq' \in DmaRequest \cup {None}
  <2>1. cpuReq' \in CpuRequest \cup {None}
    BY <1>1 DEF CpuStep, Typed, FabricTyped
  <2>2. walkerReq' \in WalkerRequest \cup {None}
    BY <1>1 DEF WalkerStep, Typed, FabricTyped
  <2>3. fetchReq' \in FetchRequest \cup {None}
    BY <1>1 DEF FetchStep, Typed, FabricTyped
  <2>4. dmaReq' \in DmaRequest \cup {None}
    BY <1>1 DEF DmaStep, Typed, FabricTyped
  <2> QED
    BY <2>1, <2>2, <2>3, <2>4
<1>3. CpuSide(ready, granted)
  BY <1>1, <1>2 DEF CpuSide
<1>4. granted # None => /\ granted = Chosen /\ TargetReady(ready, willing)
                        /\ granted \in 0 .. 3 /\ taken = BusRequest /\ taken # None
                        /\ owner = None /\ tState = "TARGET_IDLE"
  BY ChosenFacts DEF Granted, BusRequest, TargetReady, Target!Idle
<1>5. /\ BusResponseTaken <=> tState = "TARGET_RESPONSE"
      /\ owner = None <=> tState = "TARGET_IDLE"
  BY ResponseFacts DEF OneAccess
<1>6. /\ granted # None => owner' = granted /\ UNCHANGED lastOwner
      /\ granted = None => IF tState = "TARGET_RESPONSE"
                             THEN owner' = None /\ lastOwner' = owner
                             ELSE UNCHANGED <<owner, lastOwner>>
  <2>1. \/ owner = None /\ granted # None /\ owner' = granted /\ UNCHANGED lastOwner
        \/ owner # None /\ BusResponseTaken /\ owner' = None /\ lastOwner' = owner
        \/ /\ granted = None /\ ~(owner # None /\ BusResponseTaken)
           /\ UNCHANGED <<owner, lastOwner>>
    BY <1>1 DEF Arbiter!Clock, Arbiter!Grant, Arbiter!Release, Arbiter!Wait,
                Arbiter!arbiterVars
  <2> QED
    BY <1>4, <1>5, <2>1
<1>7. /\ granted # None => agentActive' = (agentActive \/ granted \in {Walker, Dma})
      /\ granted = None =>
           agentActive' = IF tState = "TARGET_RESPONSE"
                            THEN (agentActive /\ owner \notin {Walker, Dma}) ELSE agentActive
  <2>1. agentActive \in BOOLEAN
    BY DEF Typed, FabricTyped
  <2> QED
    BY <1>1, <1>4, <1>5, <2>1, NoneFacts DEF AgentStep
<1>8. /\ tState = "TARGET_IDLE" =>
           IF taken = None THEN UNCHANGED <<tState, tReply>>
           ELSE IF Target!External(taken) THEN tState' = "TARGET_EXTERNAL" /\ tReply' = None
           ELSE tState' = "TARGET_WAIT" /\ tReply' = local
      /\ tState = "TARGET_WAIT" => tState' = "TARGET_RESPONSE" /\ UNCHANGED tReply
      /\ tState = "TARGET_RESPONSE" => tState' = "TARGET_IDLE" /\ tReply' = None
      /\ tState = "TARGET_EXTERNAL" =>
           IF external # None THEN tState' = "TARGET_RESPONSE" /\ tReply' = external
                              ELSE UNCHANGED <<tState, tReply>>
  <2> HIDE DEF taken
  <2> QED
    BY <1>1, <1>5
       DEF Target!Clock, Target!Accept, Target!Rest, Target!Latch, Target!Respond,
           Target!Collect, Target!Idle, Target!MemRspReady, Target!targetVars
<1>9. granted = None => taken = None
  OBVIOUS
<1> HIDE DEF granted, taken
<1>10. granted # None =>
         IF Target!External(taken)
           THEN tState' = "TARGET_EXTERNAL" /\ tReply' = None /\ atMemory' = taken
           ELSE /\ tState' = "TARGET_WAIT" /\ tReply' = local
                /\ atMemory' = IF external # None THEN None ELSE atMemory
  BY <1>1, <1>4, <1>8
<1>11. granted = None => atMemory' = IF external # None THEN None ELSE atMemory
  BY <1>1, <1>9
<1>12. granted = None =>
         IF tState = "TARGET_RESPONSE"
           THEN /\ owner' = None /\ lastOwner' = owner
                /\ tState' = "TARGET_IDLE" /\ tReply' = None
                /\ agentActive' = (agentActive /\ owner \notin {Walker, Dma})
           ELSE UNCHANGED <<owner, lastOwner, agentActive>>
  BY <1>6, <1>7, <1>8
<1>13. granted = None /\ tState = "TARGET_IDLE" => UNCHANGED <<tState, tReply>>
  BY <1>8, <1>9
<1> QED
  BY <1>3, <1>4, <1>6, <1>7, <1>8, <1>10, <1>11, <1>12, <1>13 DEF granted, taken

\* Every edge lets the fabric make one of these moves.
LEMMA FabricStep ==
  ASSUME Typed, RingShape, OneAccess, InStep, Next
  PROVE  \E ready \in BOOLEAN, granted \in 0 .. 3 \cup {None} :
           FabricMoves(granted) /\ CpuSide(ready, granted)
<1> DEFINE Goal == \E ready \in BOOLEAN, granted \in 0 .. 3 \cup {None} :
                     FabricMoves(granted) /\ CpuSide(ready, granted)
<1>0. /\ Ready \subseteq BOOLEAN /\ None \notin Reply
      /\ owner = None <=> tState = "TARGET_IDLE"
      /\ atMemory # None <=> tState = "TARGET_EXTERNAL"
      /\ tState \in {"TARGET_IDLE", "TARGET_WAIT", "TARGET_RESPONSE", "TARGET_EXTERNAL"}
      /\ ddr \in [Byte -> Value] /\ atMemory \in AnyRequest \cup {None}
  BY ShapeAssumption, NoneFacts DEF OneAccess, Typed, FabricTyped, Target!TargetStates
<1> SUFFICES ASSUME NEW ready \in Ready,
                    \/ \E willing \in BOOLEAN : QuietEdge(ready, willing)
                    \/ LocalEdge(ready)
                    \/ MemoryEdge(ready)
             PROVE  Goal
  BY DEF Next
<1>1. ASSUME NEW willing \in BOOLEAN, QuietEdge(ready, willing) PROVE Goal
  <2> DEFINE granted == Granted(ready, willing)
  <2>1. Edge(ready, willing, None, None) /\ UNCHANGED ddr
    BY <1>1 DEF QuietEdge
  <2>2. CpuSide(ready, granted)
    BY <2>1, EdgeFacts
  <2>3. CASE granted = None
    <3>1. Rests \/ Waits \/ Releases
      BY <1>0, <2>1, <2>3, EdgeFacts DEF Rests, Waits, Releases
    <3> QED
      BY <1>0, <2>2, <2>3, <3>1 DEF FabricMoves
  <2>4. CASE granted # None
    <3>1. willing /\ Target!External(BusRequest)
      BY <1>1, <2>1, <2>4, EdgeFacts DEF QuietEdge, TargetReady
    <3>2. Grants(granted) /\ granted \in 0 .. 3
      BY <2>1, <2>4, <3>1, EdgeFacts DEF Grants
    <3> QED
      BY <1>0, <2>2, <2>4, <3>2 DEF FabricMoves
  <2> QED
    BY <2>3, <2>4
<1>2. ASSUME LocalEdge(ready) PROVE Goal
  <2> DEFINE granted == Granted(ready, TRUE)
  <2>1. TargetReady(ready, TRUE) /\ ~Target!External(BusRequest)
    BY <1>2 DEF LocalEdge
  <2>2. PICK outcome \in Outcomes(ddr, BusRequest) :
          Edge(ready, TRUE, outcome[2], None) /\ ddr' = outcome[1]
    BY <1>2 DEF LocalEdge
  <2>3. granted = Chosen /\ granted # None
    BY <2>1 DEF Granted, TargetReady, BusRequest
  <2>4. granted \in 0 .. 3 /\ BusRequest = Presented[granted] /\ BusRequest \in AnyRequest
    BY <2>3, ChosenFacts, PresentedFacts DEF BusRequest
  <2>5. outcome[2] \in Reply
    BY <1>0, <2>2, <2>4, OutcomeFacts
  <2>6. Grants(granted) /\ CpuSide(ready, granted)
    <3>1. /\ CpuSide(ready, granted) /\ owner = None /\ owner' = granted /\ UNCHANGED lastOwner
          /\ agentActive' = (agentActive \/ granted \in {Walker, Dma})
          /\ tState = "TARGET_IDLE" /\ tState' = "TARGET_WAIT" /\ tReply' = outcome[2]
          /\ atMemory' = atMemory /\ Presented[granted] # None
      BY <2>1, <2>2, <2>3, <2>4, <2>5, EdgeFacts
    <3>2. atMemory' = None
      BY <1>0, <3>1
    <3> HIDE DEF granted
    <3> QED
      BY <2>2, <2>4, <3>1, <3>2 DEF Grants
  <2> QED
    BY <1>0, <2>3, <2>4, <2>6 DEF FabricMoves
<1>3. ASSUME MemoryEdge(ready) PROVE Goal
  <2> DEFINE granted == Granted(ready, FALSE)
  <2>1. granted = None
    BY DEF Granted, TargetReady
  <2>2. PICK outcome \in Outcomes(ddr, atMemory) :
          Edge(ready, FALSE, None, outcome[2]) /\ ddr' = outcome[1]
    BY <1>3 DEF MemoryEdge
  <2>3. atMemory # None /\ tState = "TARGET_EXTERNAL" /\ outcome[2] \in Reply
    BY <1>0, <1>3, <2>2, OutcomeFacts DEF MemoryEdge
  <2>4. /\ CpuSide(ready, granted) /\ UNCHANGED <<owner, lastOwner, agentActive>>
        /\ atMemory' = None /\ tState' = "TARGET_RESPONSE" /\ tReply' = outcome[2]
    <3>1. /\ FALSE \in BOOLEAN /\ None \in Reply \cup {None} /\ outcome[2] \in Reply \cup {None}
          /\ outcome[2] # None
      BY <1>0, <2>3
    <3>2. /\ CpuSide(ready, granted)
          /\ granted = None =>
               /\ atMemory' = IF outcome[2] # None THEN None ELSE atMemory
               /\ IF tState = "TARGET_RESPONSE"
                    THEN /\ owner' = None /\ lastOwner' = owner
                         /\ tState' = "TARGET_IDLE" /\ tReply' = None
                         /\ agentActive' = (agentActive /\ owner \notin {Walker, Dma})
                    ELSE UNCHANGED <<owner, lastOwner, agentActive>>
               /\ tState = "TARGET_EXTERNAL" =>
                    IF outcome[2] # None
                      THEN tState' = "TARGET_RESPONSE" /\ tReply' = outcome[2]
                      ELSE UNCHANGED <<tState, tReply>>
      BY <2>2, <3>1, EdgeFacts
    <3> HIDE DEF granted
    <3> QED
      BY <2>1, <2>3, <3>1, <3>2
  <2>5. Collects
    BY <1>0, <2>2, <2>3, <2>4 DEF Collects
  <2> QED
    BY <1>0, <2>1, <2>4, <2>5 DEF FabricMoves
<1> QED
  BY <1>1, <1>2, <1>3

-----------------------------------------------------------------------------
(***************************************************************************)
(* What an edge does to the buffer.                                        *)
(***************************************************************************)
CpuAnswered == owner = Cpu /\ tState = "TARGET_RESPONSE"

Accepts == Buffer!Taken(Cache!MemRequest)

Leaving == IF bState = "STORE_WAIT" /\ CpuAnswered THEN 1 ELSE 0

Holds ==
  /\ ~Accepts /\ bRsp' = None /\ count' = count - Leaving
  /\ UNCHANGED <<slots, tail, direct>>

Refuses ==
  /\ Accepts /\ cState = "SEND" /\ fault /\ bRsp' = Blank(TRUE) /\ count' = count - Leaving
  /\ UNCHANGED <<slots, tail, direct>>

Posts ==
  /\ Accepts /\ cState = "SEND" /\ ~fault /\ Sent.write /\ count < Depth
  /\ bRsp' = Blank(FALSE) /\ count' = count - Leaving + 1
  /\ slots' = [slots EXCEPT ![tail] = Sent] /\ tail' = Buffer!After(tail)
  /\ UNCHANGED direct

Stays(granted) ==
  granted # Cpu /\ ~CpuAnswered /\ UNCHANGED <<bState, head, fault>>

Issues(granted) ==
  /\ granted # Cpu /\ ~CpuAnswered /\ bState = "IDLE" /\ bState' = "STORE_SEND"
  /\ count # 0 /\ ~fault /\ UNCHANGED <<head, fault>>

Sends(granted) ==
  /\ granted = Cpu
  /\ \/ bState = "STORE_SEND" /\ bState' = "STORE_WAIT"
     \/ bState = "DIRECT_SEND" /\ bState' = "DIRECT_WAIT"
  /\ UNCHANGED <<head, fault>>

Pops(granted) ==
  /\ granted # Cpu /\ CpuAnswered /\ bState = "STORE_WAIT" /\ bState' = "IDLE"
  /\ head' = Buffer!After(head) /\ fault' = (fault \/ tReply.err)

Opens(granted) ==
  /\ granted # Cpu /\ ~CpuAnswered
  /\ Accepts /\ cState = "SEND" /\ ~fault /\ count = 0
  /\ bState = "IDLE" /\ bState' = "DIRECT_SEND" /\ direct' = Sent /\ bRsp' = None
  /\ UNCHANGED <<slots, tail, head, count, fault>>

Closes(granted) ==
  /\ granted # Cpu /\ CpuAnswered /\ ~Accepts
  /\ bState = "DIRECT_WAIT" /\ bState' = "IDLE" /\ bRsp' = tReply
  /\ UNCHANGED <<slots, tail, direct, head, count, fault>>

BufferMoves(granted) ==
  \/ Opens(granted) \/ Closes(granted)
  \/ /\ Holds \/ Refuses \/ Posts
     /\ Stays(granted) \/ Issues(granted) \/ Sends(granted) \/ Pops(granted)

\* Every edge lets the buffer make one of these moves.
LEMMA BufferStep ==
  ASSUME Typed, RingShape, OneAccess, InStep,
         NEW ready \in BOOLEAN, NEW granted \in 0 .. 3 \cup {None},
         FabricMoves(granted), CpuSide(ready, granted)
  PROVE  BufferMoves(granted)
<1> DEFINE req == Cache!MemRequest
           reply == ResponseTo(Cpu)
<1>1. /\ Buffer!RequesterSide(req, Cache!MemRspReady, reply)
      /\ Buffer!MemorySide(req, granted = Cpu, reply)
      /\ Buffer!Count(req, reply)
  BY DEF CpuSide, Buffer!Clock
<1>2. /\ req = IF cState = "SEND" THEN Sent ELSE None
      /\ Accepts => cState = "SEND" /\ req = Sent
  BY BufferFacts DEF Accepts, Buffer!Taken
<1>3. /\ Buffer!MemRspReady /\ reply # None <=> CpuAnswered
      /\ reply # None => reply = tReply
      /\ owner = Cpu <=> Buffer!MemRspReady
  BY ResponseFacts DEF CpuAnswered, OneAccess
<1>4. /\ bState \in {"IDLE", "STORE_SEND", "STORE_WAIT", "DIRECT_SEND", "DIRECT_WAIT"}
      /\ Buffer!DirectActive <=> bState \in {"DIRECT_SEND", "DIRECT_WAIT"}
      /\ Buffer!MemRspReady <=> bState \in {"STORE_WAIT", "DIRECT_WAIT"}
      /\ count \in Nat /\ fault \in BOOLEAN
  BY ShapeAssumption
     DEF Typed, BufferTyped, Buffer!States, Buffer!DirectActive, Buffer!MemRspReady
<1>5. /\ CpuAnswered => granted # Cpu
      /\ granted = Cpu => bState \in {"STORE_SEND", "DIRECT_SEND"} /\ ~fault
  BY PresentedFacts, NoneFacts DEF FabricMoves, Grants, CpuAnswered
<1>6. cState # "WAIT_DATA" => bRsp = None
  BY DEF InStep
<1>7. Accepts => bRsp = None /\ ~Buffer!DirectActive
  BY DEF Accepts, Buffer!Taken, Buffer!ReqReady
<1> HIDE DEF req, reply
<1>8. /\ Accepts <=> Buffer!Taken(req)
      /\ Buffer!Pop(reply) <=> bState = "STORE_WAIT" /\ CpuAnswered
      /\ bState = "DIRECT_WAIT" /\ reply # None <=> bState = "DIRECT_WAIT" /\ CpuAnswered
  BY <1>3, <1>4 DEF Accepts, Buffer!Pop, req
<1>9. count' = count - Leaving + IF Buffer!Push(req) THEN 1 ELSE 0
  <2>1. count' = IF Buffer!Push(req) = Buffer!Pop(reply) THEN count
                 ELSE IF Buffer!Push(req) THEN count + 1 ELSE count - 1
    BY <1>1 DEF Buffer!Count
  <2>2. Buffer!Push(req) \in BOOLEAN /\ Buffer!Pop(reply) \in BOOLEAN
    BY DEF Buffer!Push, Buffer!Pop, Buffer!Taken
  <2> QED
    BY <1>4, <1>8, <2>1, <2>2 DEF Leaving
<1>10. CASE Buffer!OpenDirect(req)
  <2>1. /\ Accepts /\ ~fault /\ ~Buffer!Postable(req) /\ direct' = req
        /\ UNCHANGED <<slots, tail, bRsp>> /\ ~Buffer!Push(req)
    BY <1>8, <1>10 DEF Buffer!OpenDirect, Buffer!Push
  <2>2. count = 0 /\ bState = "IDLE"
    BY <2>1 DEF Accepts, Buffer!Taken, Buffer!ReqReady, req
  <2>3. bState' = "DIRECT_SEND" /\ UNCHANGED <<head, fault>>
    BY <1>1, <1>8, <2>1, <2>2
       DEF Buffer!MemorySide, Buffer!Rest, Buffer!Issue, Buffer!Send, Buffer!Await,
           Buffer!RetireStore, Buffer!RetireDirect, Buffer!Pop, Buffer!MemRspReady
  <2>4. granted # Cpu /\ ~CpuAnswered /\ count' = count
    BY <1>3, <1>4, <1>5, <1>9, <2>1, <2>2 DEF Leaving
  <2>5. Opens(granted)
    BY <1>2, <1>7, <2>1, <2>2, <2>3, <2>4 DEF Opens
  <2> QED
    BY <2>5 DEF BufferMoves
<1>11. CASE Buffer!CloseDirect(reply)
  <2>1. /\ bState = "DIRECT_WAIT" /\ reply # None /\ bRsp' = reply
        /\ UNCHANGED <<slots, tail, direct>>
    BY <1>11 DEF Buffer!CloseDirect
  <2>2. CpuAnswered /\ granted # Cpu /\ ~Accepts
    BY <1>3, <1>4, <1>5, <1>7, <2>1
  <2>3. bState' = "IDLE" /\ UNCHANGED <<head, fault>>
    BY <1>1, <2>1
       DEF Buffer!MemorySide, Buffer!Rest, Buffer!Issue, Buffer!Send, Buffer!Await,
           Buffer!RetireStore, Buffer!RetireDirect, Buffer!Pop, Buffer!MemRspReady
  <2>4. count' = count
    BY <1>4, <1>8, <1>9, <2>1, <2>2 DEF Leaving, Buffer!Push
  <2>5. Closes(granted)
    BY <1>3, <2>1, <2>2, <2>3, <2>4 DEF Closes
  <2> QED
    BY <2>5 DEF BufferMoves
<1>12. CASE ~Buffer!OpenDirect(req) /\ ~Buffer!CloseDirect(reply)
  <2>1. Holds \/ Refuses \/ Posts
    <3>1. CASE Buffer!Hold(req, Cache!MemRspReady, reply)
      <4>1. /\ ~Accepts /\ bRsp' = IF Cache!MemRspReady THEN None ELSE bRsp
            /\ UNCHANGED <<slots, tail, direct>> /\ ~Buffer!Push(req)
        BY <1>8, <3>1 DEF Buffer!Hold, Buffer!Push
      <4>2. bRsp' = None
        BY <1>6, <4>1 DEF Cache!MemRspReady
      <4>3. count' = count - Leaving
        BY <1>4, <1>9, <4>1 DEF Leaving
      <4> QED
        BY <4>1, <4>2, <4>3 DEF Holds
    <3>2. CASE Buffer!Refuse(req)
      <4>1. /\ Accepts /\ fault /\ bRsp' = Blank(TRUE) /\ UNCHANGED <<slots, tail, direct>>
            /\ ~Buffer!Push(req)
        BY <1>8, <3>2 DEF Buffer!Refuse, Buffer!Push, Buffer!Blank, Blank
      <4>2. count' = count - Leaving
        BY <1>4, <1>9, <4>1 DEF Leaving
      <4> QED
        BY <1>2, <4>1, <4>2 DEF Refuses
    <3>3. CASE Buffer!Post(req)
      <4>1. /\ Accepts /\ ~fault /\ Buffer!Postable(req) /\ Buffer!Push(req)
            /\ slots' = [slots EXCEPT ![tail] = req] /\ tail' = Buffer!After(tail)
            /\ bRsp' = Blank(FALSE) /\ UNCHANGED direct
        BY <1>8, <3>3 DEF Buffer!Post, Buffer!Push, Buffer!Blank, Blank
      <4>2. req.write /\ count < Depth
        BY <4>1 DEF Accepts, Buffer!Taken, Buffer!ReqReady, Buffer!Postable, req
      <4>3. count' = count - Leaving + 1
        BY <1>9, <4>1
      <4> QED
        BY <1>2, <4>1, <4>2, <4>3 DEF Posts
    <3> QED
      BY <1>1, <1>12, <3>1, <3>2, <3>3 DEF Buffer!RequesterSide
  <2>2. Stays(granted) \/ Issues(granted) \/ Sends(granted) \/ Pops(granted)
    <3>1. CASE Buffer!Rest(req)
      <4>1. ~(Accepts /\ ~fault /\ ~Buffer!Postable(req))
        BY <1>1, <1>8, <1>12
           DEF Buffer!RequesterSide, Buffer!Hold, Buffer!Refuse, Buffer!Post, Buffer!Push
      <4>2. UNCHANGED <<bState, head, fault>> /\ bState = "IDLE"
        BY <1>8, <3>1, <4>1 DEF Buffer!Rest
      <4> QED
        BY <1>3, <1>4, <1>5, <4>2 DEF Stays
    <3>2. CASE Buffer!Issue
      BY <1>3, <1>4, <1>5, <3>2 DEF Issues, Buffer!Issue
    <3>3. CASE Buffer!Send(granted = Cpu)
      <4>1. /\ bState \in {"STORE_SEND", "DIRECT_SEND"} /\ ~CpuAnswered
            /\ bState' = IF granted # Cpu THEN bState
                         ELSE IF bState = "STORE_SEND" THEN "STORE_WAIT" ELSE "DIRECT_WAIT"
            /\ UNCHANGED <<head, fault>>
        BY <1>3, <1>4, <3>3 DEF Buffer!Send
      <4> QED
        BY <4>1 DEF Sends, Stays
    <3>4. CASE Buffer!Await(reply)
      BY <1>3, <1>4, <1>5, <3>4 DEF Stays, Buffer!Await
    <3>5. CASE Buffer!RetireStore(reply)
      BY <1>3, <1>4, <1>5, <1>8, <3>5 DEF Pops, Buffer!RetireStore, Buffer!Pop
    <3>6. CASE Buffer!RetireDirect(reply)
      <4>1. bState = "DIRECT_WAIT" /\ reply # None
        BY <3>6 DEF Buffer!RetireDirect
      <4>2. Buffer!CloseDirect(reply)
        BY <1>1, <1>7, <1>8, <4>1, <1>4
           DEF Buffer!RequesterSide, Buffer!Hold, Buffer!Refuse, Buffer!Post,
               Buffer!OpenDirect, Buffer!Push
      <4> QED
        BY <1>12, <4>2
    <3> QED
      BY <1>1, <3>1, <3>2, <3>3, <3>4, <3>5, <3>6 DEF Buffer!MemorySide
  <2> QED
    BY <2>1, <2>2 DEF BufferMoves
<1> QED
  BY <1>10, <1>11, <1>12

-----------------------------------------------------------------------------
(***************************************************************************)
(* What an edge does to the cache.                                         *)
(***************************************************************************)

\* The lines after the edge, if nobody asks for them to be dropped.
Kept(updated) ==
  /\ lines' = updated \/ lines' = Cache!NoLines
  /\ AgentPending \/ fault => lines' = Cache!NoLines

Rested == UNCHANGED <<held, line, writeHit, cRsp>>

Freed == held' = None /\ line' = None /\ writeHit' = FALSE /\ cRsp' = None

Sits == cState = "IDLE" /\ cState' = "IDLE" /\ Kept(lines) /\ Rested

Looks ==
  /\ cState = "IDLE" /\ cState' = "LOOKUP" /\ ~AgentPending /\ ~fault
  /\ cpuReq # None /\ held' = cpuReq
  /\ line' = IF Cache!Cacheable(cpuReq) THEN lines[IndexOf[Cache!WordOf(cpuReq)]] ELSE None
  /\ lines' = IF Cache!Bypasses(cpuReq) THEN Cache!NoLines ELSE lines
  /\ writeHit' = FALSE /\ UNCHANGED cRsp

Hits ==
  /\ cState = "LOOKUP" /\ Cache!Cacheable(held) /\ ~held.write
  /\ line # None /\ line.word = Cache!WordOf(held) /\ Kept(lines)
  /\ \/ cState' = "IDLE" /\ Freed
     \/ /\ cState' = "RESPONSE" /\ UNCHANGED <<held, line, writeHit>>
        /\ cRsp' = [data |-> ReadFrom(line.data, held.bytes), err |-> FALSE]

Misses ==
  /\ cState = "LOOKUP" /\ cState' = "SEND" /\ UNCHANGED <<held, line, cRsp>>
  /\ writeHit' \in BOOLEAN
  /\ writeHit' => /\ Cache!Cacheable(held) /\ held.write
                  /\ line # None /\ line.word = Cache!WordOf(held)
  /\ Kept(IF Cache!Cacheable(held) THEN [lines EXCEPT ![IndexOf[Cache!WordOf(held)]] = None]
                                   ELSE lines)

Asks ==
  /\ cState = "SEND" /\ cState' = IF Accepts THEN "WAIT_DATA" ELSE "SEND"
  /\ Kept(lines) /\ Rested

Gets ==
  /\ cState = "WAIT_DATA" /\ bRsp # None /\ cState' = "RESPONSE"
  /\ cRsp' = Cache!ReplyToHeld(bRsp) /\ UNCHANGED <<held, line, writeHit>>
  /\ \/ Kept(lines)
     \/ /\ Cache!Cacheable(held) /\ ~bRsp.err /\ (held.write => writeHit)
        /\ Kept([lines EXCEPT ![IndexOf[Cache!WordOf(held)]] = Cache!Fresh(bRsp)])

Expects ==
  cState = "WAIT_DATA" /\ cState' = "WAIT_DATA" /\ bRsp = None /\ Kept(lines) /\ Rested

Delivers == cState = "RESPONSE" /\ cState' = "IDLE" /\ Kept(lines) /\ Freed

CacheMoves ==
  /\ Sits \/ Looks \/ Hits \/ Misses \/ Asks \/ Gets \/ Expects \/ Delivers
  /\ poisoned' \in BOOLEAN

\* Every edge lets the cache make one of these moves.
LEMMA CacheStep ==
  ASSUME Typed, NEW ready \in BOOLEAN, NEW granted, CpuSide(ready, granted)
  PROVE  CacheMoves
<1> DEFINE inv == Invalidate(ready)
           req == HostRequest
<1>1. Cache!Clock(req, TRUE, Accepts, bRsp, inv)
  BY DEF CpuSide, Accepts
<1>2. AgentPending \/ fault => inv
  BY DEF Invalidate
<1>3. inv \in BOOLEAN /\ poisoned \in BOOLEAN
  BY DEF Invalidate, AgentPending, Typed, CacheTyped, FabricTyped
<1>4. req # None => req = cpuReq
  BY DEF HostRequest
<1> HIDE DEF inv, req
<1>5. ASSUME NEW updated, Cache!Keep(updated, inv)
      PROVE  Kept(updated) /\ poisoned' \in BOOLEAN
  BY <1>2, <1>3, <1>5 DEF Cache!Keep, Kept
<1>6. CASE Cache!Await(req, inv)
  BY <1>5, <1>6 DEF Cache!Await, Cache!Idle, CacheMoves, Sits, Rested
<1>7. CASE Cache!Accept(req, inv)
  <2>1. req # None /\ req = cpuReq /\ cState = "IDLE" /\ ~inv
    BY <1>4, <1>7 DEF Cache!Accept, Cache!Taken, Cache!ReqReady, Cache!Idle
  <2> QED
    BY <1>2, <1>7, <2>1 DEF Cache!Accept, CacheMoves, Looks
<1>8. CASE Cache!AnswerHit(TRUE, inv)
  <2>1. /\ cState = "LOOKUP" /\ Cache!Cacheable(held) /\ ~held.write
        /\ line # None /\ line.word = Cache!WordOf(held)
        /\ Kept(lines) /\ poisoned' \in BOOLEAN
    BY <1>5, <1>8 DEF Cache!AnswerHit, Cache!ReadHit, Cache!Hit
  <2>2. Cache!HitData = [data |-> ReadFrom(line.data, held.bytes), err |-> FALSE]
    BY DEF Cache!HitData, Cache!ReadFrom, ReadFrom
  <2>3. \/ cState' = "IDLE" /\ Freed
        \/ /\ cState' = "RESPONSE" /\ cRsp' = Cache!HitData
           /\ UNCHANGED <<held, line, writeHit>>
    BY <1>8 DEF Cache!AnswerHit, Cache!Release, Freed
  <2> QED
    BY <2>1, <2>2, <2>3 DEF CacheMoves, Hits
<1>9. CASE Cache!Miss(inv)
  <2>1. /\ cState = "LOOKUP" /\ cState' = "SEND" /\ UNCHANGED <<held, line, cRsp>>
        /\ writeHit' = (Cache!Cacheable(held) /\ held.write /\ Cache!Hit(inv))
        /\ Cache!Keep(IF Cache!Cacheable(held)
                        THEN [lines EXCEPT ![IndexOf[Cache!WordOf(held)]] = None] ELSE lines, inv)
    BY <1>9 DEF Cache!Miss
  <2>2. /\ Kept(IF Cache!Cacheable(held)
                  THEN [lines EXCEPT ![IndexOf[Cache!WordOf(held)]] = None] ELSE lines)
        /\ poisoned' \in BOOLEAN
    BY <1>5, <2>1
  <2>3. writeHit' \in BOOLEAN
    BY <2>1
  <2>4. writeHit' => /\ Cache!Cacheable(held) /\ held.write
                     /\ line # None /\ line.word = Cache!WordOf(held)
    BY <2>1 DEF Cache!Hit
  <2> QED
    BY <2>1, <2>2, <2>3, <2>4 DEF CacheMoves, Misses
<1>10. CASE Cache!Send(Accepts, inv)
  BY <1>5, <1>10 DEF Cache!Send, CacheMoves, Asks, Rested
<1>11. CASE Cache!Finish(bRsp, inv)
  <2>1. /\ cState = "WAIT_DATA" /\ bRsp # None /\ cState' = "RESPONSE"
        /\ cRsp' = Cache!ReplyToHeld(bRsp) /\ UNCHANGED <<held, line, writeHit>>
        /\ Cache!Keep(IF Cache!Keeps(bRsp, inv)
                        THEN [lines EXCEPT ![IndexOf[Cache!WordOf(held)]] = Cache!Fresh(bRsp)]
                        ELSE lines, inv)
    BY <1>11 DEF Cache!Finish, Cache!MemRspReady
  <2>2. CASE Cache!Keeps(bRsp, inv)
    <3>1. Cache!Keep([lines EXCEPT ![IndexOf[Cache!WordOf(held)]] = Cache!Fresh(bRsp)], inv)
      BY <2>1, <2>2
    <3>2. /\ Kept([lines EXCEPT ![IndexOf[Cache!WordOf(held)]] = Cache!Fresh(bRsp)])
          /\ poisoned' \in BOOLEAN
      BY <1>5, <3>1
    <3> QED
      BY <2>1, <2>2, <3>2 DEF CacheMoves, Gets, Cache!Keeps
  <2>3. CASE ~Cache!Keeps(bRsp, inv)
    <3>1. Kept(lines) /\ poisoned' \in BOOLEAN
      BY <1>5, <2>1, <2>3
    <3> QED
      BY <2>1, <3>1 DEF CacheMoves, Gets
  <2> QED
    BY <2>2, <2>3
<1>12. CASE Cache!AwaitData(bRsp, inv)
  BY <1>5, <1>12 DEF Cache!AwaitData, Cache!MemRspReady, CacheMoves, Expects, Rested
<1>13. CASE Cache!Respond(TRUE, inv)
  BY <1>5, <1>13 DEF Cache!Respond, Cache!Release, CacheMoves, Delivers, Freed
<1> QED
  BY <1>1, <1>6, <1>7, <1>8, <1>9, <1>10, <1>11, <1>12, <1>13 DEF Cache!Clock

-----------------------------------------------------------------------------
(***************************************************************************)
(* An edge as a whole.                                                     *)
(***************************************************************************)
MastersAsk ==
  /\ cpuReq' \in CpuRequest \cup {None} /\ walkerReq' \in WalkerRequest \cup {None}
  /\ fetchReq' \in FetchRequest \cup {None} /\ dmaReq' \in DmaRequest \cup {None}

Moves(granted) ==
  FabricMoves(granted) /\ BufferMoves(granted) /\ CacheMoves /\ MastersAsk

\* Every edge is such moves of the components together.
LEMMA StepMoves ==
  ASSUME Wired, Next
  PROVE  \E granted \in 0 .. 3 \cup {None} : Moves(granted)
<1> USE DEF Wired, Control
<1>1. PICK ready \in BOOLEAN, granted \in 0 .. 3 \cup {None} :
        FabricMoves(granted) /\ CpuSide(ready, granted)
  BY FabricStep
<1>2. BufferMoves(granted) /\ CacheMoves
  BY <1>1, BufferStep, CacheStep
<1>3. MastersAsk
  BY <1>1 DEF CpuSide, MastersAsk
<1> QED
  BY <1>1, <1>2, <1>3 DEF Moves

\* The buffer accepts only what the cache sends.
LEMMA AcceptsFacts ==
  ASSUME Wired, Accepts
  PROVE  cState = "SEND" /\ bRsp = None /\ bState \notin {"DIRECT_SEND", "DIRECT_WAIT"}
BY BufferFacts
   DEF Wired, Control, Accepts, Buffer!Taken, Buffer!ReqReady, Buffer!DirectActive

\* The ring when k stores leave it and one may enter.
LEMMA RingStep ==
  ASSUME head \in Buffer!Slot, tail \in Buffer!Slot, count \in 0 .. Depth, tail = Nth(count),
         slots \in [Buffer!Slot -> AnyRequest \cup {None}],
         NEW k \in 0 .. 1, NEW pushed \in BOOLEAN, NEW req, k <= count, pushed => count < Depth,
         head' = IF k = 1 THEN Buffer!After(head) ELSE head,
         tail' = IF pushed THEN Buffer!After(tail) ELSE tail,
         slots' = IF pushed THEN [slots EXCEPT ![tail] = req] ELSE slots,
         count' = count - k + IF pushed THEN 1 ELSE 0
  PROVE  /\ head' \in Buffer!Slot /\ tail' \in Buffer!Slot /\ count' \in 0 .. Depth
         /\ tail' = Nth(count)'
         /\ \A i \in 0 .. Depth - 1 : i < count' =>
              slots'[Nth(i)'] = IF i + k = count THEN req ELSE slots[Nth(i + k)]
         /\ \A i \in 1 .. count - k : Ring'[i] = Ring[i + k]
         /\ pushed => Ring'[count'] = req
<1>1. Depth \in Nat \ {0} /\ count' \in 0 .. Depth
  BY ShapeAssumption
<1>2. /\ \A i \in 0 .. Depth : Nth(i) \in Buffer!Slot
      /\ \A i, j \in 0 .. Depth - 1 : Nth(i) = Nth(j) => i = j
      /\ \A i \in 0 .. Depth - 1 : Buffer!After(Nth(i)) = Nth(i + 1)
  BY NthFacts
<1>3. \A i \in 0 .. Depth : i + k <= Depth => Nth(i)' = Nth(i + k)
  <2>1. CASE k = 0
    BY <1>1, <2>1 DEF Nth
  <2>2. CASE k = 1
    BY <1>1, <2>2, NthAfterPop
  <2> QED
    BY <2>1, <2>2
<1>4. Nth(count)' = Nth(count' + k)
  <2>1. count' \in 0 .. Depth /\ count' + k <= Depth
    BY <1>1
  <2>2. \A i \in 0 .. Depth : i = count' => Nth(i)' = Nth(count)'
    BY DEF Nth
  <2> QED
    BY <1>3, <2>1, <2>2
<1>5. /\ head' \in Buffer!Slot /\ tail' \in Buffer!Slot
      /\ tail' = Nth(count)'
  <2>1. \A i \in Buffer!Slot : Buffer!After(i) \in Buffer!Slot
    BY <1>1 DEF Buffer!After, Buffer!Slot
  <2>2. tail' = Nth(count' + k)
    BY <1>1, <1>2
  <2> QED
    BY <1>4, <2>1, <2>2
<1>6. \A i \in 0 .. Depth - 1 : i < count' =>
        slots'[Nth(i)'] = IF i + k = count THEN req ELSE slots[Nth(i + k)]
  <2> SUFFICES ASSUME NEW i \in 0 .. Depth - 1, i < count'
               PROVE  slots'[Nth(i)'] = IF i + k = count THEN req ELSE slots[Nth(i + k)]
    OBVIOUS
  <2>1. Nth(i)' = Nth(i + k) /\ i + k \in 0 .. Depth - 1 /\ Nth(i + k) \in Buffer!Slot
    BY <1>1, <1>2, <1>3
  <2>2. CASE i + k = count
    BY <1>1, <2>1, <2>2
  <2>3. CASE i + k # count
    <3>1. pushed => Nth(i + k) # tail
      BY <1>1, <1>2, <2>1, <2>3
    <3> QED
      BY <2>1, <2>3, <3>1
  <2> QED
    BY <2>2, <2>3
<1>7. \A i \in 1 .. count' : Ring'[i] = slots'[Nth(i - 1)']
  BY <1>1, <1>5 DEF Ring, Nth, Buffer!Slot
<1>8. \A i \in 1 .. count : Ring[i] = slots[Nth(i - 1)]
  BY RingIs
<1>9. ASSUME NEW i \in 1 .. count - k PROVE Ring'[i] = Ring[i + k]
  <2>1. i \in 1 .. count' /\ i - 1 \in 0 .. Depth - 1 /\ i - 1 < count' /\ i - 1 + k # count
    BY <1>1
  <2>2. slots'[Nth(i - 1)'] = slots[Nth(i - 1 + k)]
    BY <1>6, <2>1
  <2>3. i + k \in 1 .. count /\ (i + k) - 1 = i - 1 + k
    BY <2>1
  <2> QED
    BY <1>7, <1>8, <2>1, <2>2, <2>3
<1>10. pushed => Ring'[count'] = req
  <2> SUFFICES ASSUME pushed PROVE Ring'[count'] = req
    OBVIOUS
  <2>1. /\ count' \in 1 .. count' /\ count' - 1 \in 0 .. Depth - 1 /\ count' - 1 < count'
        /\ count' - 1 + k = count
    BY <1>1
  <2> QED
    BY <1>6, <1>7, <2>1
<1> QED
  BY <1>1, <1>5, <1>6, <1>9, <1>10

\* A read that does not fail is answered with the bytes it asked for.
LEMMA LoadTyped ==
  ASSUME NEW m \in [Byte -> Value]
  PROVE  \A req \in AnyRequest : \A outcome \in Outcomes(m, req) :
           ~req.write /\ ~outcome[2].err =>
             /\ outcome[2].data = ReadFrom(m, req.bytes)
             /\ outcome[2].data \in [req.bytes -> Value]
<1> SUFFICES ASSUME NEW req \in AnyRequest, NEW outcome \in Outcomes(m, req),
                    ~req.write, ~outcome[2].err
             PROVE  /\ outcome[2].data = ReadFrom(m, req.bytes)
                    /\ outcome[2].data \in [req.bytes -> Value]
  OBVIOUS
<1>1. \/ outcome = <<m, [data |-> ReadFrom(m, req.bytes), err |-> FALSE]>>
      \/ outcome = <<m, Blank(TRUE)>>
  BY Zenon DEF Outcomes
<1>2. outcome[2] = [data |-> ReadFrom(m, req.bytes), err |-> FALSE]
  <2>1. CASE outcome = <<m, Blank(TRUE)>>
    <3>1. outcome[2].err
      BY <2>1 DEF Blank
    <3> QED
      BY <3>1
  <2>2. CASE outcome = <<m, [data |-> ReadFrom(m, req.bytes), err |-> FALSE]>>
    BY <2>2
  <2> QED
    BY <1>1, <2>1, <2>2
<1>3. ReadFrom(m, req.bytes) \in [req.bytes -> Value]
  <2>1. req.bytes \subseteq Byte
    BY DEF AnyRequest
  <2> QED
    BY <2>1 DEF ReadFrom
<1> QED
  BY <1>2, <1>3

\* The ring after an edge.
LEMMA RingMoves ==
  ASSUME Wired, NEW granted \in 0 .. 3 \cup {None}, Moves(granted)
  PROVE  /\ head' \in Buffer!Slot /\ tail' \in Buffer!Slot /\ count' \in 0 .. Depth
         /\ slots' \in [Buffer!Slot -> AnyRequest \cup {None}]
         /\ RingShape'
         /\ Leaving \in 0 .. 1 /\ Leaving <= count
         /\ Leaving = 1 <=> Pops(granted)
         /\ count' = count - Leaving + IF Posts THEN 1 ELSE 0
         /\ \A i \in 1 .. count - Leaving : Ring'[i] = Ring[i + Leaving]
         /\ Posts => Ring'[count'] = Sent
         /\ head' = IF Leaving = 1 THEN Buffer!After(head) ELSE head
         /\ slots' = IF Posts THEN [slots EXCEPT ![tail] = Sent] ELSE slots
<1> DEFINE pushed == IF Posts THEN TRUE ELSE FALSE
<1>1. /\ head \in Buffer!Slot /\ tail \in Buffer!Slot /\ count \in 0 .. Depth
      /\ tail = Nth(count) /\ slots \in [Buffer!Slot -> AnyRequest \cup {None}]
      /\ \A i \in 0 .. Depth - 1 : i < count => slots[Nth(i)] # None /\ slots[Nth(i)].write
      /\ Depth \in Nat \ {0} /\ fault \in BOOLEAN
  BY ShapeAssumption DEF Wired, Control, RingShape, Typed, BufferTyped
<1>2. granted = Cpu => ~CpuAnswered
  BY NoneFacts DEF Moves, FabricMoves, Grants, CpuAnswered
<1>3. Leaving \in 0 .. 1 /\ Leaving <= count
  BY <1>1, BufferFacts DEF Wired, Control, Leaving
<1>4. /\ head' = IF Leaving = 1 THEN Buffer!After(head) ELSE head
      /\ Leaving = 1 <=> Pops(granted)
      /\ count' = count - Leaving + IF pushed THEN 1 ELSE 0
      /\ tail' = IF pushed THEN Buffer!After(tail) ELSE tail
      /\ slots' = IF pushed THEN [slots EXCEPT ![tail] = Sent] ELSE slots
  <2>1. CASE Opens(granted) \/ Closes(granted)
    <3>1. Leaving = 0 /\ UNCHANGED <<slots, tail, head, count>> /\ ~Pops(granted)
      BY <2>1 DEF Opens, Closes, Leaving, Pops
    <3>2. ~Posts
      <4>1. count \in Nat /\ count' = count /\ Leaving = 0
        BY <1>1, <3>1
      <4>2. Posts => count' = count - Leaving + 1
        BY DEF Posts
      <4> QED
        BY <4>1, <4>2
    <3> QED
      BY <1>1, <3>1, <3>2
  <2>2. CASE /\ Holds \/ Refuses \/ Posts
             /\ Stays(granted) \/ Issues(granted) \/ Sends(granted) \/ Pops(granted)
    <3>1. /\ head' = IF Leaving = 1 THEN Buffer!After(head) ELSE head
          /\ Leaving = 1 <=> Pops(granted)
      BY <1>2, <2>2 DEF Stays, Issues, Sends, Pops, Leaving
    <3>2. CASE Posts
      BY <1>1, <1>3, <3>1, <3>2 DEF Posts
    <3>3. CASE ~Posts
      <4>1. Holds \/ Refuses
        BY <2>2, <3>3
      <4>2. count' = count - Leaving /\ UNCHANGED <<slots, tail>>
        BY <4>1 DEF Holds, Refuses
      <4>3. pushed = FALSE
        BY <3>3
      <4>4. count - Leaving + 0 = count - Leaving
        BY <1>1, <1>3
      <4> HIDE DEF pushed
      <4> QED
        BY <3>1, <4>2, <4>3, <4>4
    <3> QED
      BY <3>2, <3>3
  <2> QED
    BY <2>1, <2>2 DEF Moves, BufferMoves
<1>5. pushed => /\ Sent \in AnyRequest /\ Sent # None /\ Sent.write /\ count < Depth
                /\ cState = "SEND"
  <2>1. cState = "SEND" => Sent \in AnyRequest /\ Sent # None
    BY BufferFacts, SentFacts DEF Wired, Control
  <2> QED
    BY <2>1 DEF Posts
<1>6. pushed \in BOOLEAN /\ (pushed <=> Posts)
  OBVIOUS
<1> HIDE DEF pushed
<1>7. /\ head' \in Buffer!Slot /\ tail' \in Buffer!Slot /\ count' \in 0 .. Depth
      /\ tail' = Nth(count)'
      /\ \A i \in 0 .. Depth - 1 : i < count' =>
           slots'[Nth(i)'] = IF i + Leaving = count THEN Sent ELSE slots[Nth(i + Leaving)]
      /\ \A i \in 1 .. count - Leaving : Ring'[i] = Ring[i + Leaving]
      /\ pushed => Ring'[count'] = Sent
  <2>1. /\ head \in Buffer!Slot /\ tail \in Buffer!Slot /\ count \in 0 .. Depth
        /\ tail = Nth(count) /\ slots \in [Buffer!Slot -> AnyRequest \cup {None}]
    BY <1>1
  <2>2. /\ Leaving \in 0 .. 1 /\ pushed \in BOOLEAN /\ Leaving <= count
        /\ pushed => count < Depth
    BY <1>3, <1>5, <1>6
  <2> HIDE DEF Leaving
  <2> QED
    BY <1>4, <2>1, <2>2, RingStep, Zenon
<1>8. slots' \in [Buffer!Slot -> AnyRequest \cup {None}]
  BY <1>1, <1>4, <1>5
<1>9. RingShape'
  <2> SUFFICES ASSUME NEW i \in 0 .. Depth - 1, i < count'
               PROVE  slots'[Nth(i)'] # None /\ slots'[Nth(i)'].write
    BY <1>7 DEF RingShape
  <2>1. CASE i + Leaving = count
    <3>1. pushed
      BY <1>1, <1>3, <1>4, <2>1
    <3> QED
      BY <1>5, <1>7, <2>1, <3>1
  <2>2. CASE i + Leaving # count
    <3>1. i + Leaving \in 0 .. Depth - 1 /\ i + Leaving < count
      BY <1>1, <1>3, <1>4, <1>7, <2>2
    <3> QED
      BY <1>1, <1>7, <2>2, <3>1
  <2> QED
    BY <2>1, <2>2
<1> QED
  BY <1>3, <1>4, <1>6, <1>7, <1>8, <1>9

\* The access the CPU has outstanding stays the same until it is answered.
LEMMA AccessKept ==
  ASSUME Wired, NEW granted \in 0 .. 3 \cup {None}, Moves(granted), bState # "IDLE",
         bState' # "IDLE"
  PROVE  CpuAccess' = CpuAccess
<1>1. ~Opens(granted) /\ ~Closes(granted) /\ ~Pops(granted) /\ ~Issues(granted)
  BY DEF Opens, Closes, Pops, Issues
<1>2. /\ Holds \/ Refuses \/ Posts
      /\ Stays(granted) \/ Sends(granted)
  BY <1>1 DEF Moves, BufferMoves
<1>3. UNCHANGED direct /\ UNCHANGED head
  BY <1>2 DEF Holds, Refuses, Posts, Stays, Sends
<1>4. /\ bState \in {"STORE_SEND", "STORE_WAIT"} <=> bState' \in {"STORE_SEND", "STORE_WAIT"}
  BY <1>2 DEF Stays, Sends
<1>5. bState \in {"STORE_SEND", "STORE_WAIT"} => slots'[head] = slots[head]
  <2> SUFFICES ASSUME bState \in {"STORE_SEND", "STORE_WAIT"}, Posts
               PROVE  slots'[head] = slots[head]
    BY <1>2 DEF Holds, Refuses
  <2>1. /\ count > 0 /\ count < Depth /\ count \in 0 .. Depth /\ head \in Buffer!Slot
        /\ tail = Nth(count) /\ slots \in [Buffer!Slot -> AnyRequest \cup {None}]
        /\ slots' = [slots EXCEPT ![tail] = Sent]
    BY BufferFacts DEF Wired, Control, RingShape, Typed, BufferTyped, Posts
  <2>2. Nth(0) = head /\ Nth(count) # Nth(0)
    BY <2>1, NthFacts, ShapeAssumption
  <2> QED
    BY <2>1, <2>2
<1> QED
  BY <1>3, <1>4, <1>5 DEF CpuAccess

\* Requests and answers on the bus keep their type, and a read is answered with its bytes.
LEMMA FabricTypedStep ==
  ASSUME Wired, NEW granted \in 0 .. 3 \cup {None}, Moves(granted)
  PROVE  /\ FabricTyped'
         /\ Collects => /\ tReply' \in Reply
                        /\ ~atMemory.write /\ ~tReply'.err =>
                             tReply'.data \in [atMemory.bytes -> Value]
         /\ granted # None => /\ tState' = "TARGET_WAIT" => tReply' \in Reply
                              /\ ~Presented[granted].write /\ tReply' # None /\ ~tReply'.err =>
                                   tReply'.data \in [Presented[granted].bytes -> Value]
<1> USE DEF Wired, Control
<1>1. /\ owner \in {None} \cup 0 .. 3 /\ lastOwner \in 0 .. 3
      /\ tState \in Target!TargetStates /\ tReply \in Reply \cup {None}
      /\ agentActive \in BOOLEAN
      /\ atMemory \in AnyRequest \cup {None} /\ ddr \in [Byte -> Value]
  BY DEF Typed, FabricTyped
<1>2. ASSUME NEW req \in AnyRequest, NEW outcome \in Outcomes(ddr, req),
             ddr' = outcome[1], tReply' = outcome[2]
      PROVE  /\ ddr' \in [Byte -> Value] /\ tReply' \in Reply
             /\ ~req.write /\ ~tReply'.err => tReply'.data \in [req.bytes -> Value]
  <2>1. ddr' \in [Byte -> Value] /\ tReply' \in Reply
    BY <1>1, <1>2, OutcomeFacts
  <2>2. ~req.write /\ ~outcome[2].err => outcome[2].data \in [req.bytes -> Value]
    BY <1>1, LoadTyped
  <2> QED
    BY <1>2, <2>1, <2>2
<1>3. CASE granted = None /\ (Rests \/ Waits \/ Releases)
  <2>1. /\ owner' \in {None} \cup 0 .. 3 /\ lastOwner' \in 0 .. 3
        /\ tState' \in Target!TargetStates /\ tReply' \in Reply \cup {None}
        /\ agentActive' \in BOOLEAN
        /\ atMemory' \in AnyRequest \cup {None} /\ ddr' \in [Byte -> Value]
    BY <1>1, <1>3 DEF Rests, Waits, Releases, Target!TargetStates
  <2>2. ~Collects
    BY <1>3 DEF Collects, Rests, Waits, Releases
  <2> QED
    BY <1>3, <2>1, <2>2 DEF FabricTyped, Moves, MastersAsk
<1>4. CASE granted = None /\ Collects
  <2>1. atMemory \in AnyRequest
    BY <1>1, <1>4 DEF Collects
  <2>2. PICK outcome \in Outcomes(ddr, atMemory) : ddr' = outcome[1] /\ tReply' = outcome[2]
    BY <1>4 DEF Collects
  <2>3. /\ ddr' \in [Byte -> Value] /\ tReply' \in Reply
        /\ ~atMemory.write /\ ~tReply'.err => tReply'.data \in [atMemory.bytes -> Value]
    BY <1>2, <2>1, <2>2
  <2>4. /\ owner' \in {None} \cup 0 .. 3 /\ lastOwner' \in 0 .. 3
        /\ tState' \in Target!TargetStates /\ agentActive' \in BOOLEAN
        /\ atMemory' \in AnyRequest \cup {None}
    BY <1>1, <1>4 DEF Collects, Target!TargetStates
  <2> QED
    BY <1>4, <2>3, <2>4 DEF FabricTyped, Moves, MastersAsk
<1>5. CASE granted # None
  <2>1. Grants(granted)
    BY <1>5 DEF Moves, FabricMoves
  <2>2. granted \in 0 .. 3 /\ Presented[granted] # None
    BY <2>1 DEF Grants
  <2>3. Presented[granted] \in AnyRequest
    BY <2>2, PresentedFacts
  <2>4. /\ owner' \in {None} \cup 0 .. 3 /\ lastOwner' \in 0 .. 3
        /\ tState' \in Target!TargetStates /\ agentActive' \in BOOLEAN
        /\ atMemory' \in AnyRequest \cup {None}
    BY <1>1, <2>1, <2>3 DEF Grants, Target!TargetStates
  <2>5. ~Collects
    BY <2>1 DEF Grants, Collects
  <2>6. CASE tReply' = None /\ UNCHANGED ddr /\ tState' = "TARGET_EXTERNAL"
    BY <1>1, <1>5, <2>4, <2>5, <2>6 DEF FabricTyped, Moves, MastersAsk
  <2>7. CASE \E outcome \in Outcomes(ddr, Presented[granted]) :
               ddr' = outcome[1] /\ tReply' = outcome[2]
    <3>1. PICK outcome \in Outcomes(ddr, Presented[granted]) :
            ddr' = outcome[1] /\ tReply' = outcome[2]
      BY <2>7
    <3>2. /\ ddr' \in [Byte -> Value] /\ tReply' \in Reply
          /\ ~Presented[granted].write /\ ~tReply'.err =>
               tReply'.data \in [Presented[granted].bytes -> Value]
      BY <1>2, <2>3, <3>1
    <3> QED
      BY <1>5, <2>4, <2>5, <3>2 DEF FabricTyped, Moves, MastersAsk
  <2> QED
    BY <2>1, <2>6, <2>7 DEF Grants
<1> QED
  BY <1>3, <1>4, <1>5 DEF Moves, FabricMoves

\* The buffer's registers keep their type.
LEMMA BufferTypedStep ==
  ASSUME Wired, NEW granted \in 0 .. 3 \cup {None}, Moves(granted)
  PROVE  BufferTyped'
<1>1. /\ bState \in Buffer!States /\ direct \in AnyRequest \cup {None}
      /\ tReply \in Reply \cup {None} /\ fault \in BOOLEAN
  BY DEF Wired, Typed, BufferTyped, FabricTyped
<1>2. CpuAnswered => tReply \in Reply
  BY ResponseFacts DEF Wired, Control, CpuAnswered
<1>3. Blank(TRUE) \in Reply /\ Blank(FALSE) \in Reply
  BY BlankIsReply
<1>4. tReply \in Reply => tReply.err \in BOOLEAN
  BY DEF Reply
<1>5. cState = "SEND" => Sent \in AnyRequest
  BY BufferFacts, SentFacts DEF Wired, Control
<1>6. bRsp' \in Reply \cup {None} /\ direct' \in AnyRequest \cup {None}
  BY <1>1, <1>2, <1>3, <1>5 DEF Moves, BufferMoves, Opens, Closes, Holds, Refuses, Posts
<1>7. bState' \in Buffer!States /\ fault' \in BOOLEAN
  BY <1>1, <1>2, <1>4
     DEF Moves, BufferMoves, Opens, Closes, Stays, Issues, Sends, Pops, Buffer!States
<1> QED
  BY <1>6, <1>7, RingMoves DEF BufferTyped

\* What a line is made of.
LEMMA LineFacts ==
  /\ \A l \in Cache!Line : /\ l.word \in Word /\ l.word \subseteq Ddr /\ l.word \subseteq Byte
                           /\ l.data \in [l.word -> Value]
  /\ \A w \in Word : \A d \in [w -> Value] : [word |-> w, data |-> d] \in Cache!Line
<1>1. ASSUME NEW l \in Cache!Line
      PROVE  /\ l.word \in Word /\ l.word \subseteq Ddr /\ l.word \subseteq Byte
             /\ l.data \in [l.word -> Value]
  <2>1. /\ l.word \in Word /\ DOMAIN l.data = l.word
        /\ \E w \in Word : l.data \in [w -> Value]
    BY DEF Cache!Line
  <2>2. l.word \subseteq Ddr /\ l.word \subseteq Byte
    BY <2>1, WordAssumption, RequestAssumption
  <2> QED
    BY <2>1, <2>2
<1>2. ASSUME NEW w \in Word, NEW d \in [w -> Value]
      PROVE  [word |-> w, data |-> d] \in Cache!Line
  <2>1. d \in UNION {[v -> Value] : v \in Word} /\ DOMAIN d = w
    OBVIOUS
  <2> QED
    BY <2>1 DEF Cache!Line
<1> QED
  BY <1>1, <1>2

\* Bytes read from anything that covers them make a response.
LEMMA ReadIsReply ==
  ASSUME NEW domain, NEW m \in [domain -> Value], NEW bytes, bytes \subseteq domain,
         bytes \subseteq Byte
  PROVE  [data |-> ReadFrom(m, bytes), err |-> FALSE] \in Reply
<1>1. ReadFrom(m, bytes) \in [bytes -> Value]
  BY DEF ReadFrom
<1>2. ReadFrom(m, bytes) \in UNION {[B -> Value] : B \in SUBSET Byte}
  BY <1>1
<1> QED
  BY <1>2 DEF Reply

\* What the cache passes on, and what it keeps.
LEMMA GetsFacts ==
  ASSUME Wired, Gets
  PROVE  /\ Cache!ReplyToHeld(bRsp) = IF held.write \/ bRsp.err THEN Blank(bRsp.err)
                                      ELSE [data |-> ReadFrom(bRsp.data, held.bytes), err |-> FALSE]
         /\ Cache!ReplyToHeld(bRsp) \in Reply
         /\ held \in CpuRequest /\ held \in AnyRequest /\ bRsp \in Reply
         /\ Cache!Cacheable(held) /\ ~bRsp.err /\ (held.write => writeHit) =>
              /\ Cache!Fresh(bRsp) \in Cache!Line
              /\ Cache!Fresh(bRsp).word = Cache!WordOf(held)
              /\ Cache!Fresh(bRsp).data = IF held.write THEN Cache!Merged ELSE bRsp.data
<1> USE DEF Wired, Control
<1>1. /\ cState = "WAIT_DATA" /\ bRsp # None /\ bRsp \in Reply
      /\ held \in CpuRequest /\ held \in Request /\ held \in AnyRequest
      /\ Sent \in AnyRequest /\ held.bytes \subseteq Sent.bytes
      /\ Cache!Cacheable(held) /\ ~held.write => Sent.bytes = Cache!WordOf(held)
  BY BufferFacts, SentFacts, RequestAssumption DEF Gets, Typed, BufferTyped
<1>2. bRsp.err \in BOOLEAN
  BY <1>1 DEF Reply
<1>3. ~bRsp.err /\ ~held.write => bRsp.data \in [Sent.bytes -> Value]
  BY <1>1 DEF AnswerShape
<1>4. Cache!ReplyToHeld(bRsp) = IF held.write \/ bRsp.err THEN Blank(bRsp.err)
                                ELSE [data |-> ReadFrom(bRsp.data, held.bytes), err |-> FALSE]
  BY DEF Cache!ReplyToHeld, Cache!Blank, Blank, Cache!ReadFrom, ReadFrom
<1>5. Cache!ReplyToHeld(bRsp) \in Reply
  <2>1. CASE held.write \/ bRsp.err
    BY <1>2, <1>4, <2>1, BlankIsReply
  <2>2. CASE ~(held.write \/ bRsp.err)
    <3>1. held.bytes \subseteq Byte
      BY <1>1 DEF AnyRequest
    <3> QED
      BY <1>1, <1>3, <1>4, <2>2, <3>1, ReadIsReply
  <2> QED
    BY <2>1, <2>2
<1>6. ASSUME Cache!Cacheable(held), ~bRsp.err, held.write => writeHit
      PROVE  /\ Cache!Fresh(bRsp) \in Cache!Line
             /\ Cache!Fresh(bRsp).word = Cache!WordOf(held)
             /\ Cache!Fresh(bRsp).data = IF held.write THEN Cache!Merged ELSE bRsp.data
  <2>1. Cache!WordOf(held) \in Word
    BY <1>1, <1>6, WordFacts
  <2>2. held.write => Cache!Merged \in [Cache!WordOf(held) -> Value]
    <3> SUFFICES ASSUME held.write PROVE Cache!Merged \in [Cache!WordOf(held) -> Value]
      OBVIOUS
    <3>1. line \in Cache!Line /\ line.word = Cache!WordOf(held)
      BY <1>1, <1>6 DEF WriteHit, Typed, CacheTyped
    <3>2. line.data \in [line.word -> Value] /\ held.data \in Value
      BY <1>1, <3>1, LineFacts DEF AnyRequest
    <3> QED
      BY <3>1, <3>2 DEF Cache!Merged
  <2>3. ~held.write => bRsp.data \in [Cache!WordOf(held) -> Value]
    BY <1>1, <1>3, <1>6
  <2>4. Cache!Fresh(bRsp) = [word |-> Cache!WordOf(held),
                             data |-> IF held.write THEN Cache!Merged ELSE bRsp.data]
    BY DEF Cache!Fresh
  <2>5. (IF held.write THEN Cache!Merged ELSE bRsp.data) \in [Cache!WordOf(held) -> Value]
    BY <2>2, <2>3
  <2>6. Cache!Fresh(bRsp) \in Cache!Line
    BY <2>1, <2>4, <2>5, LineFacts
  <2> QED
    BY <2>4, <2>6
<1> QED
  BY <1>1, <1>4, <1>5, <1>6

\* The cache's registers keep their type.
LEMMA CacheTypedStep ==
  ASSUME Wired, NEW granted \in 0 .. 3 \cup {None}, Moves(granted)
  PROVE  CacheTyped'
<1>1. /\ cState \in Cache!CacheStates /\ lines \in [Index -> Cache!Line \cup {None}]
      /\ held \in CpuRequest \cup {None} /\ line \in Cache!Line \cup {None}
      /\ cRsp \in Reply \cup {None} /\ writeHit \in BOOLEAN
      /\ cpuReq \in CpuRequest \cup {None}
  BY DEF Wired, Typed, CacheTyped, FabricTyped
<1>2. Cache!NoLines \in [Index -> Cache!Line \cup {None}]
  BY DEF Cache!NoLines
<1>3. ASSUME NEW updated \in [Index -> Cache!Line \cup {None}], Kept(updated)
      PROVE  lines' \in [Index -> Cache!Line \cup {None}]
  BY <1>2, <1>3 DEF Kept
<1>4. poisoned' \in BOOLEAN
  BY DEF Moves, CacheMoves
<1>5. CASE Sits \/ Asks \/ Expects
  <2>1. lines' \in [Index -> Cache!Line \cup {None}]
    BY <1>1, <1>3, <1>5 DEF Sits, Asks, Expects
  <2> QED
    BY <1>1, <1>4, <1>5, <2>1
       DEF CacheTyped, Sits, Asks, Expects, Rested, Cache!CacheStates
<1>6. CASE Looks
  <2>1. line' \in Cache!Line \cup {None}
    <3>1. cpuReq \in Request
      BY <1>1, <1>6, MasterAssumption DEF Looks
    <3>2. Cache!Cacheable(cpuReq) => IndexOf[Cache!WordOf(cpuReq)] \in Index
      BY <3>1, WordFacts
    <3> QED
      BY <1>1, <1>6, <3>2 DEF Looks
  <2>2. lines' \in [Index -> Cache!Line \cup {None}]
    BY <1>1, <1>2, <1>6 DEF Looks
  <2> QED
    BY <1>1, <1>4, <1>6, <2>1, <2>2 DEF CacheTyped, Looks, Cache!CacheStates
<1>7. CASE Hits
  <2>1. lines' \in [Index -> Cache!Line \cup {None}]
    BY <1>1, <1>3, <1>7 DEF Hits
  <2>2. [data |-> ReadFrom(line.data, held.bytes), err |-> FALSE] \in Reply
    <3>1. held \in Request /\ Cache!Cacheable(held) /\ line \in Cache!Line
          /\ line.word = Cache!WordOf(held)
      BY <1>1, <1>7, BufferFacts, MasterAssumption DEF Hits, Wired, Control
    <3>2. line.data \in [line.word -> Value] /\ line.word \subseteq Byte
          /\ held.bytes \subseteq line.word
      BY <3>1, LineFacts, WordFacts
    <3> QED
      BY <3>2, ReadIsReply
  <2> QED
    BY <1>1, <1>4, <1>7, <2>1, <2>2 DEF CacheTyped, Hits, Freed, Cache!CacheStates
<1>8. CASE Misses
  <2>1. lines' \in [Index -> Cache!Line \cup {None}]
    <3>1. [lines EXCEPT ![IndexOf[Cache!WordOf(held)]] = None]
            \in [Index -> Cache!Line \cup {None}]
      BY <1>1
    <3>2. (IF Cache!Cacheable(held) THEN [lines EXCEPT ![IndexOf[Cache!WordOf(held)]] = None]
                                    ELSE lines) \in [Index -> Cache!Line \cup {None}]
      BY <1>1, <3>1
    <3> QED
      BY <1>3, <1>8, <3>2 DEF Misses
  <2> QED
    BY <1>1, <1>4, <1>8, <2>1 DEF CacheTyped, Misses, Cache!CacheStates
<1>9. CASE Gets
  <2>1. lines' \in [Index -> Cache!Line \cup {None}]
    <3>1. CASE Kept(lines)
      BY <1>1, <1>3, <3>1
    <3>2. CASE ~Kept(lines)
      <4>1. /\ Cache!Fresh(bRsp) \in Cache!Line
            /\ Kept([lines EXCEPT ![IndexOf[Cache!WordOf(held)]] = Cache!Fresh(bRsp)])
        BY <1>9, <3>2, GetsFacts DEF Gets
      <4>2. [lines EXCEPT ![IndexOf[Cache!WordOf(held)]] = Cache!Fresh(bRsp)]
              \in [Index -> Cache!Line \cup {None}]
        BY <1>1, <4>1
      <4> QED
        BY <1>3, <4>1, <4>2
    <3> QED
      BY <3>1, <3>2
  <2>2. cRsp' \in Reply
    BY <1>9, GetsFacts DEF Gets
  <2> QED
    BY <1>1, <1>4, <1>9, <2>1, <2>2 DEF CacheTyped, Gets, Cache!CacheStates
<1>10. CASE Delivers
  <2>1. lines' \in [Index -> Cache!Line \cup {None}]
    BY <1>1, <1>3, <1>10 DEF Delivers
  <2> QED
    BY <1>1, <1>4, <1>10, <2>1 DEF CacheTyped, Delivers, Freed, Cache!CacheStates
<1> QED
  BY <1>5, <1>6, <1>7, <1>8, <1>9, <1>10 DEF Moves, CacheMoves

-----------------------------------------------------------------------------
(***************************************************************************)
(* The components stay in step.                                            *)
(***************************************************************************)

\* The buffer awaits an answer from the grant until the answer.
LEMMA AwaitsFacts ==
  ASSUME Wired, NEW granted \in 0 .. 3 \cup {None}, Moves(granted)
  PROVE  /\ Buffer!MemRspReady' <=> granted = Cpu \/ (Buffer!MemRspReady /\ ~CpuAnswered)
         /\ fault => fault'
         /\ fault' /\ ~fault => Pops(granted)
<1>1. granted = Cpu => ~CpuAnswered
  BY NoneFacts DEF Moves, FabricMoves, Grants, CpuAnswered
<1>2. fault \in BOOLEAN
  BY DEF Wired, Typed, BufferTyped
<1> QED
  BY <1>1, <1>2
     DEF Moves, BufferMoves, Opens, Closes, Stays, Issues, Sends, Pops, Buffer!MemRspReady

\* One access at a time.
LEMMA OneAccessStep ==
  ASSUME Wired, NEW granted \in 0 .. 3 \cup {None}, Moves(granted)
  PROVE  OneAccess'
<1> USE DEF Wired, Control
<1>0. /\ owner = None <=> tState = "TARGET_IDLE"
      /\ atMemory # None <=> tState = "TARGET_EXTERNAL"
      /\ tReply # None <=> tState \in {"TARGET_WAIT", "TARGET_RESPONSE"}
      /\ owner = Cpu <=> Buffer!MemRspReady
      /\ None \notin 0 .. 3 /\ None \notin Reply /\ Cpu # Fetch /\ {Cpu, Fetch} \subseteq 0 .. 3
  BY NoneFacts DEF OneAccess
<1>1. /\ owner' = None <=> tState' = "TARGET_IDLE"
      /\ atMemory' # None <=> tState' = "TARGET_EXTERNAL"
      /\ tReply' # None <=> tState' \in {"TARGET_WAIT", "TARGET_RESPONSE"}
  <2>1. CASE granted = None
    BY <1>0, <2>1, FabricTypedStep DEF Moves, FabricMoves, Rests, Waits, Collects, Releases
  <2>2. CASE granted # None
    BY <1>0, <2>2, FabricTypedStep DEF Moves, FabricMoves, Grants
  <2> QED
    BY <2>1, <2>2
<1>2. owner' = Cpu <=> granted = Cpu \/ (owner = Cpu /\ ~CpuAnswered)
  BY <1>0 DEF Moves, FabricMoves, Rests, Waits, Collects, Releases, Grants, CpuAnswered
<1>3. owner' = Cpu <=> Buffer!MemRspReady'
  BY <1>0, <1>2, AwaitsFacts
<1>4. owner' = Cpu /\ atMemory' # None => atMemory' = CpuAccess'
  <2> SUFFICES ASSUME owner' = Cpu, atMemory' # None PROVE atMemory' = CpuAccess'
    OBVIOUS
  <2>1. bState' # "IDLE"
    BY <1>3 DEF Buffer!MemRspReady
  <2>2. CASE granted = Cpu
    <3>1. Grants(Cpu)
      BY <1>0, <2>2 DEF Moves, FabricMoves
    <3>2. bState # "IDLE" /\ Presented[Cpu] = CpuAccess
      BY <1>0, <3>1, PresentedFacts DEF Grants
    <3>3. atMemory' = Presented[Cpu]
      BY <3>1 DEF Grants
    <3> QED
      BY <2>1, <3>2, <3>3, AccessKept
  <2>3. CASE granted # Cpu
    <3>1. owner = Cpu /\ granted = None
      BY <1>0, <1>2, <2>3 DEF Moves, FabricMoves, Grants
    <3>2. atMemory' = atMemory
      BY <1>0, <3>1 DEF Moves, FabricMoves, Rests, Waits, Collects, Releases
    <3>3. bState # "IDLE" /\ atMemory = CpuAccess
      BY <1>0, <3>1, <3>2 DEF OneAccess, Buffer!MemRspReady
    <3> QED
      BY <2>1, <3>2, <3>3, AccessKept
  <2> QED
    BY <2>2, <2>3
<1>5. owner' = Fetch /\ atMemory' # None => ~atMemory'.write
  <2>1. CASE granted = None
    BY <1>0, <2>1 DEF Moves, FabricMoves, Rests, Waits, Collects, Releases, OneAccess
  <2>2. CASE granted # None
    <3>1. Grants(granted)
      BY <2>2 DEF Moves, FabricMoves
    <3>2. granted = Fetch => ~Presented[granted].write
      BY <3>1, PresentedFacts DEF Grants
    <3> QED
      BY <3>1, <3>2 DEF Grants
  <2> QED
    BY <2>1, <2>2
<1>6. fault' => owner' = None
  <2>1. CASE fault
    <3>1. owner = None /\ granted = None
      BY <1>0, <2>1, PresentedFacts DEF OneAccess, Moves, FabricMoves, Grants
    <3> QED
      BY <3>1 DEF Moves, FabricMoves, Rests, Waits, Collects, Releases
  <2>2. CASE fault' /\ ~fault
    <3>1. Pops(granted)
      BY <2>2, AwaitsFacts
    <3>2. owner = Cpu /\ tState = "TARGET_RESPONSE"
      BY <3>1 DEF Pops, CpuAnswered
    <3> QED
      BY <1>0, <3>2 DEF Moves, FabricMoves, Rests, Waits, Collects, Releases, Grants
  <2> QED
    BY <2>1, <2>2
<1> QED
  BY <1>1, <1>3, <1>4, <1>5, <1>6 DEF OneAccess

\* The answer to a hit is an answer.
LEMMA HitsFacts ==
  ASSUME Wired, Hits
  PROVE  /\ held \in CpuRequest /\ line \in Cache!Line /\ held.bytes \subseteq line.word
         /\ [data |-> ReadFrom(line.data, held.bytes), err |-> FALSE] \in Reply
<1>1. /\ held \in CpuRequest /\ held \in Request /\ Cache!Cacheable(held)
      /\ line \in Cache!Line /\ line.word = Cache!WordOf(held)
  BY BufferFacts, MasterAssumption DEF Hits, Wired, Control, Typed, CacheTyped
<1>2. /\ line.data \in [line.word -> Value] /\ line.word \subseteq Byte
      /\ held.bytes \subseteq line.word
  BY <1>1, LineFacts, WordFacts
<1> QED
  BY <1>1, <1>2, ReadIsReply

\* While the cache waits it holds on to what it waits for.
LEMMA CacheHolds ==
  ASSUME Wired, NEW granted \in 0 .. 3 \cup {None}, Moves(granted), cState' = "WAIT_DATA"
  PROVE  /\ UNCHANGED <<held, line, writeHit, cRsp>> /\ Sent' = Sent
         /\ (cState = "SEND" /\ Accepts) \/ (cState = "WAIT_DATA" /\ bRsp = None /\ ~Accepts)
<1>1. /\ UNCHANGED <<held, line, writeHit, cRsp>>
      /\ (cState = "SEND" /\ Accepts) \/ (cState = "WAIT_DATA" /\ bRsp = None)
  BY DEF Moves, CacheMoves, Sits, Looks, Hits, Misses, Asks, Gets, Expects, Delivers, Rested
<1>2. Sent' = Sent
  BY <1>1 DEF Sent, Cache!Cacheable, Cache!WordOf
<1> QED
  BY <1>1, <1>2, AcceptsFacts

\* The buffer works for the cache only while the cache waits.
LEMMA InStepStep ==
  ASSUME Wired, NEW granted \in 0 .. 3 \cup {None}, Moves(granted)
  PROVE  InStep'
<1> USE DEF Wired, Control
<1>0. /\ Buffer!DirectActive <=> bState \in {"DIRECT_SEND", "DIRECT_WAIT"}
      /\ Buffer!DirectActive' <=> bState' \in {"DIRECT_SEND", "DIRECT_WAIT"}
      /\ count \in Nat /\ Leaving \in 0 .. 1
      /\ bState \in {"IDLE", "STORE_SEND", "STORE_WAIT", "DIRECT_SEND", "DIRECT_WAIT"}
  BY ShapeAssumption DEF Buffer!DirectActive, Typed, BufferTyped, Leaving, Buffer!States
<1>1. Cache!Idle' <=> held' = None
  <2>1. cpuReq # None => cpuReq \in Request
    BY MasterAssumption DEF Typed, FabricTyped
  <2> QED
    BY <2>1 DEF Moves, CacheMoves, Sits, Looks, Hits, Misses, Asks, Gets, Expects, Delivers,
                Rested, Freed, Cache!Idle, InStep
<1>2. cState' = "RESPONSE" <=> cRsp' # None
  <2>1. CASE Hits
    BY <2>1, HitsFacts, NoneFacts DEF Hits, Freed
  <2>2. CASE Gets
    BY <2>2, GetsFacts, NoneFacts DEF Gets
  <2>3. CASE ~Hits /\ ~Gets
    BY <2>3 DEF Moves, CacheMoves, Sits, Looks, Misses, Asks, Expects, Delivers, Rested, Freed,
                InStep
  <2> QED
    BY <2>1, <2>2, <2>3
<1>3. cState = "SEND" /\ Accepts => cState' = "WAIT_DATA"
  BY DEF Moves, CacheMoves, Sits, Looks, Hits, Misses, Asks, Gets, Expects, Delivers
<1>4. cState = "WAIT_DATA" /\ bRsp = None => cState' = "WAIT_DATA"
  BY DEF Moves, CacheMoves, Sits, Looks, Hits, Misses, Asks, Gets, Expects, Delivers
<1>5. bRsp' # None => Accepts \/ Closes(granted)
  BY DEF Moves, BufferMoves, Opens, Holds, Refuses, Posts
<1>6. Buffer!DirectActive' => Opens(granted) \/ Buffer!DirectActive
  BY <1>0 DEF Moves, BufferMoves, Opens, Closes, Stays, Issues, Sends, Pops
<1>7. cState' # "WAIT_DATA" => bRsp' = None /\ ~Buffer!DirectActive'
  <2> SUFFICES ASSUME bRsp' # None \/ Buffer!DirectActive' PROVE cState' = "WAIT_DATA"
    OBVIOUS
  <2>1. Accepts => cState' = "WAIT_DATA"
    BY <1>3, AcceptsFacts
  <2>2. Buffer!DirectActive => cState' = "WAIT_DATA"
    BY <1>4, BufferFacts
  <2> QED
    BY <1>0, <1>5, <1>6, <2>1, <2>2 DEF Opens, Closes
<1>8. ASSUME cState' = "WAIT_DATA"
      PROVE  IF bRsp' # None THEN ~Buffer!DirectActive' ELSE Buffer!DirectActive' /\ direct' = Sent'
  <2>1. Sent' = Sent
    BY <1>8, CacheHolds
  <2>2. CASE cState = "SEND" /\ Accepts
    <3>1. Blank(TRUE) # None /\ Blank(FALSE) # None
      BY BlankIsReply, NoneFacts
    <3>2. bState \notin {"DIRECT_SEND", "DIRECT_WAIT"}
      BY <2>2, AcceptsFacts
    <3>3. CASE Opens(granted)
      BY <1>0, <2>1, <3>3 DEF Opens
    <3>4. CASE ~Opens(granted)
      <4>1. /\ Refuses \/ Posts
            /\ Stays(granted) \/ Issues(granted) \/ Sends(granted) \/ Pops(granted)
        BY <2>2, <3>4 DEF Moves, BufferMoves, Closes, Holds
      <4> QED
        BY <1>0, <3>1, <3>2, <4>1 DEF Refuses, Posts, Stays, Issues, Sends, Pops
    <3> QED
      BY <3>3, <3>4
  <2>3. CASE cState = "WAIT_DATA" /\ bRsp = None /\ ~Accepts
    <3>1. Buffer!DirectActive /\ direct = Sent
      BY <2>3 DEF InStep
    <3>2. CASE Closes(granted)
      <4>1. tReply # None
        BY <3>2, ResponseFacts DEF Closes, CpuAnswered
      <4> QED
        BY <1>0, <3>2, <4>1 DEF Closes
    <3>3. CASE ~Closes(granted)
      <4>1. Holds /\ (Stays(granted) \/ Sends(granted))
        BY <1>0, <2>3, <3>1, <3>3
           DEF Moves, BufferMoves, Opens, Refuses, Posts, Issues, Pops
      <4> QED
        BY <1>0, <2>1, <3>1, <4>1 DEF Holds, Stays, Sends
    <3> QED
      BY <3>2, <3>3
  <2> QED
    BY <1>8, <2>2, <2>3, CacheHolds
<1>9. Buffer!DirectActive' => count' = 0 /\ ~fault'
  <2>1. CASE Opens(granted)
    BY <2>1 DEF Opens
  <2>2. CASE Buffer!DirectActive /\ ~Opens(granted) /\ Buffer!DirectActive'
    <3>1. count = 0 /\ ~fault /\ ~Accepts
      BY <1>0, <2>2, AcceptsFacts DEF InStep
    <3>2. Holds /\ (Stays(granted) \/ Sends(granted))
      BY <1>0, <2>2, <3>1
         DEF Moves, BufferMoves, Closes, Refuses, Posts, Issues, Pops
    <3>3. Leaving = 0
      BY <1>0, <2>2 DEF Leaving
    <3> QED
      BY <3>1, <3>2, <3>3 DEF Holds, Stays, Sends
  <2> QED
    BY <1>6, <2>1, <2>2
<1>10. bState' \in {"STORE_SEND", "STORE_WAIT"} => count' > 0 /\ ~fault'
  <2> SUFFICES ASSUME bState' \in {"STORE_SEND", "STORE_WAIT"} PROVE count' > 0 /\ ~fault'
    OBVIOUS
  <2>1. Stays(granted) \/ Issues(granted) \/ Sends(granted)
    BY DEF Moves, BufferMoves, Opens, Closes, Pops
  <2>2. count > 0 /\ ~fault /\ fault' = fault
    BY <1>0, <2>1 DEF Stays, Issues, Sends, InStep
  <2>3. ~Pops(granted)
    BY <2>1 DEF Stays, Issues, Sends, Pops
  <2>4. Leaving = 0 /\ count' = count - Leaving + IF Posts THEN 1 ELSE 0
    BY <1>0, <2>3, RingMoves
  <2> QED
    BY <1>0, <2>2, <2>4
<1> QED
  BY <1>1, <1>2, <1>7, <1>8, <1>9, <1>10 DEF InStep

\* The access that the answer to the cache is for.
LEMMA ClosesFacts ==
  ASSUME Wired, NEW granted, Closes(granted)
  PROVE  /\ owner = Cpu /\ tReply # None /\ bRsp' = tReply /\ cState = "WAIT_DATA"
         /\ CpuAccess = Sent /\ count = 0 /\ bRsp = None /\ ~fault
<1> USE DEF Wired, Control
<1>1. Buffer!DirectActive /\ CpuAnswered
  BY DEF Closes, Buffer!DirectActive
<1> QED
  BY <1>1, BufferFacts, ResponseFacts DEF Closes, CpuAnswered

\* Data that will be looked at is there.
LEMMA AnswerShapeStep ==
  ASSUME Wired, NEW granted \in 0 .. 3 \cup {None}, Moves(granted)
  PROVE  AnswerShape'
<1> USE DEF Wired, Control
<1>1. ASSUME owner' = Cpu, tReply' # None, ~tReply'.err, ~CpuAccess'.write
      PROVE  tReply'.data \in [CpuAccess'.bytes -> Value]
  <2>1. bState' # "IDLE"
    BY <1>1, OneAccessStep DEF OneAccess, Buffer!MemRspReady
  <2>2. CASE granted # None
    <3>1. Grants(granted) /\ granted = Cpu
      BY <1>1, <2>2 DEF Moves, FabricMoves, Grants
    <3>2. bState # "IDLE" /\ Presented[granted] = CpuAccess
      BY <3>1, PresentedFacts DEF Grants
    <3>3. CpuAccess' = CpuAccess
      BY <2>1, <3>2, AccessKept
    <3> QED
      BY <1>1, <2>2, <3>2, <3>3, FabricTypedStep
  <2>3. CASE granted = None
    <3>1. (Waits \/ Collects) /\ owner = Cpu
      BY <1>1, <2>3, NoneFacts DEF Moves, FabricMoves, Rests, Waits, Collects, Releases
    <3>2. bState # "IDLE"
      BY <3>1 DEF OneAccess, Buffer!MemRspReady
    <3>3. CpuAccess' = CpuAccess
      BY <2>1, <3>2, AccessKept
    <3>4. CASE Waits
      BY <1>1, <3>1, <3>3, <3>4 DEF Waits, AnswerShape
    <3>5. CASE Collects
      <4>1. atMemory = CpuAccess
        BY <3>1, <3>5 DEF Collects, OneAccess
      <4> QED
        BY <1>1, <3>3, <3>5, <4>1, FabricTypedStep
    <3> QED
      BY <3>1, <3>4, <3>5
  <2> QED
    BY <2>2, <2>3
<1>2. ASSUME bRsp' # None, ~bRsp'.err, ~held'.write
      PROVE  bRsp'.data \in [Sent'.bytes -> Value]
  <2>1. cState' = "WAIT_DATA"
    BY <1>2, InStepStep DEF InStep
  <2>2. held' = held /\ Sent' = Sent
    BY <2>1, CacheHolds
  <2>3. Closes(granted)
    <3>1. Refuses \/ Posts \/ Closes(granted)
      BY <1>2 DEF Moves, BufferMoves, Opens, Holds
    <3>2. ~Refuses
      BY <1>2 DEF Refuses, Blank
    <3>3. ~Posts
      <4>1. cState = "SEND" => Sent.write = held.write
        BY BufferFacts, SentFacts
      <4> QED
        BY <1>2, <2>2, <4>1 DEF Posts
    <3> QED
      BY <3>1, <3>2, <3>3
  <2>4. Sent.write = held.write
    BY <2>3, ClosesFacts, BufferFacts, SentFacts
  <2> QED
    BY <1>2, <2>2, <2>3, <2>4, ClosesFacts DEF AnswerShape
<1> QED
  BY <1>1, <1>2 DEF AnswerShape

\* A store is merged only into the line it hits.
LEMMA WriteHitStep ==
  ASSUME Wired, NEW granted \in 0 .. 3 \cup {None}, Moves(granted)
  PROVE  WriteHit'
<1> SUFFICES ASSUME writeHit', cState' \in {"SEND", "WAIT_DATA"}
             PROVE  line' # None /\ line'.word = Cache!WordOf(held)' /\ held'.write
  BY DEF WriteHit
<1>1. Misses \/ Asks \/ Expects
  BY DEF Moves, CacheMoves, Sits, Looks, Hits, Gets, Delivers
<1>2. UNCHANGED <<held, line>> /\ Cache!WordOf(held)' = Cache!WordOf(held)
  BY <1>1 DEF Misses, Asks, Expects, Rested, Cache!WordOf
<1>3. line # None /\ line.word = Cache!WordOf(held) /\ held.write
  BY <1>1 DEF Misses, Asks, Expects, Rested, Wired, Control, WriteHit
<1> QED
  BY <1>2, <1>3

\* When nothing of the CPU's is under way and agents ask, nothing of it starts.
LEMMA QuietFacts ==
  ASSUME Wired, NEW granted \in 0 .. 3 \cup {None}, Moves(granted),
         Buffer!Idle, Cache!Idle, ~fault, AgentPending
  PROVE  /\ Buffer!Idle' /\ Cache!Idle' /\ ~fault' /\ lines' = Cache!NoLines
         /\ count = 0 /\ held = None /\ held' = None
<1> USE DEF Wired, Control
<1>1. /\ count = 0 /\ bState = "IDLE" /\ bRsp = None /\ cState = "IDLE" /\ held = None
      /\ count \in Nat
  BY DEF Buffer!Idle, Cache!Idle, InStep
<1>2. ~Accepts /\ Leaving = 0
  BY <1>1, AcceptsFacts DEF Leaving
<1>3. Holds /\ Stays(granted)
  BY <1>1, <1>2
     DEF Moves, BufferMoves, Opens, Closes, Refuses, Posts, Issues, Sends, Pops
<1>4. Buffer!Idle' /\ ~fault'
  BY <1>1, <1>2, <1>3 DEF Holds, Stays, Buffer!Idle
<1>5. Sits
  BY <1>1 DEF Moves, CacheMoves, Looks, Hits, Misses, Asks, Gets, Expects, Delivers
<1>6. Cache!Idle' /\ lines' = Cache!NoLines /\ held' = None
  BY <1>1, <1>5 DEF Sits, Kept, Rested, Cache!Idle
<1> QED
  BY <1>1, <1>4, <1>6

\* The memory is given to an agent only when the CPU has nothing to do with it.
LEMMA OwnershipStep ==
  ASSUME Wired, NEW granted \in 0 .. 3 \cup {None}, Moves(granted)
  PROVE  AgentsOwnMemory'
<1> USE DEF Wired, Control
<1>0. /\ agentActive <=> owner \in {Walker, Dma}
      /\ agentActive => Buffer!Idle /\ Cache!Idle /\ ~fault
      /\ agentActive \in BOOLEAN
  BY DEF AgentsOwnMemory, Typed, FabricTyped
<1>1. agentActive' <=> owner' \in {Walker, Dma}
  BY <1>0, NoneFacts
     DEF Moves, FabricMoves, Rests, Waits, Collects, Releases, Grants
<1>2. ASSUME agentActive'
      PROVE  Buffer!Idle' /\ Cache!Idle' /\ ~fault' /\ lines' = Cache!NoLines
  <2>1. Buffer!Idle /\ Cache!Idle /\ ~fault /\ AgentPending
    <3>1. CASE agentActive
      BY <1>0, <3>1 DEF AgentPending
    <3>2. CASE ~agentActive
      <4>1. Grants(granted) /\ granted \in {Walker, Dma}
        BY <1>2, <3>2 DEF Moves, FabricMoves, Rests, Waits, Collects, Releases, Grants
      <4>2. AgentGrant /\ AgentPending
        BY <4>1, PresentedFacts DEF Grants
      <4> QED
        BY <4>2 DEF AgentGrant
    <3> QED
      BY <3>1, <3>2
  <2> QED
    BY <2>1, QuietFacts
<1>3. Cache!NoLines' = Cache!NoLines
  BY DEF Cache!NoLines
<1> QED
  BY <1>1, <1>2, <1>3 DEF AgentsOwnMemory

\* Every edge keeps the components in step.
LEMMA WiredStep ==
  ASSUME Wired, NEW granted \in 0 .. 3 \cup {None}, Moves(granted)
  PROVE  Wired'
<1>1. Typed'
  BY BufferTypedStep, CacheTypedStep, FabricTypedStep DEF Typed
<1>2. RingShape'
  BY RingMoves
<1>3. OneAccess' /\ InStep' /\ WriteHit' /\ AnswerShape' /\ AgentsOwnMemory'
  BY OneAccessStep, InStepStep, WriteHitStep, AnswerShapeStep, OwnershipStep
<1> QED
  BY <1>1, <1>2, <1>3 DEF Wired, Control

-----------------------------------------------------------------------------
(***************************************************************************)
(* What the CPU reads stays current.                                       *)
(***************************************************************************)

\* With no store in the ring the CPU reads the memory.
LEMMA ViewIsMemory ==
  /\ count = 0 => \A b \in Byte : View[b] = ddr[b]
  /\ count' = 0 => \A b \in Byte : View'[b] = ddr'[b]
BY DEF View, Newest

\* An access changes only the bytes it writes.
LEMMA OutcomeKeeps ==
  ASSUME NEW m \in [Byte -> Value], NEW req \in AnyRequest, NEW outcome \in Outcomes(m, req)
  PROVE  \A b \in Byte : outcome[1][b] = m[b] \/ (req.write /\ b \in req.bytes)
<1>1. CASE req.write
  BY <1>1, StoreOutcome
<1>2. CASE ~req.write
  BY <1>2, OutcomeFacts
<1> QED
  BY <1>1, <1>2

\* No agent has the memory or gets it on this edge.
CpuEdge(granted) == owner \notin {Walker, Dma} /\ granted \notin {Walker, Dma}

\* Unless an agent has it, memory changes only where the CPU's own access writes.
LEMMA DdrMoves ==
  ASSUME Wired, NEW granted \in 0 .. 3 \cup {None}, Moves(granted), CpuEdge(granted)
  PROVE  /\ \A b \in Byte :
              ddr'[b] = ddr[b] \/ (bState # "IDLE" /\ CpuAccess.write /\ b \in CpuAccess.bytes)
         /\ CpuAnswered => ddr' = ddr
<1> USE DEF Wired, Control
<1>0. /\ owner \in {None} \cup 0 .. 3 /\ ddr \in [Byte -> Value]
      /\ atMemory \in AnyRequest \cup {None}
  BY DEF Typed, FabricTyped
<1>1. CASE granted = None /\ Collects
  <2>1. owner \in {Cpu, Fetch} /\ atMemory # None /\ atMemory \in AnyRequest /\ ~CpuAnswered
    BY <1>0, <1>1, NoneFacts DEF Collects, CpuEdge, CpuAnswered
  <2>2. PICK outcome \in Outcomes(ddr, atMemory) : ddr' = outcome[1]
    BY <1>1 DEF Collects
  <2>3. \A b \in Byte : ddr'[b] = ddr[b] \/ (atMemory.write /\ b \in atMemory.bytes)
    BY <1>0, <2>1, <2>2, OutcomeKeeps
  <2>4. CASE owner = Cpu
    BY <2>1, <2>3, <2>4 DEF OneAccess, Buffer!MemRspReady
  <2>5. CASE owner = Fetch
    BY <2>1, <2>3, <2>5 DEF OneAccess
  <2> QED
    BY <2>1, <2>4, <2>5
<1>2. CASE granted # None
  <2>1. Grants(granted) /\ ~CpuAnswered /\ granted \in {Cpu, Fetch}
    BY <1>2, NoneFacts DEF Moves, FabricMoves, Grants, CpuAnswered, CpuEdge
  <2>2. /\ Presented[granted] \in AnyRequest
        /\ granted = Cpu => bState # "IDLE" /\ Presented[granted] = CpuAccess
        /\ granted = Fetch => ~Presented[granted].write
    BY <2>1, PresentedFacts DEF Grants
  <2>3. CASE UNCHANGED ddr
    BY <2>1, <2>3
  <2>4. CASE \E outcome \in Outcomes(ddr, Presented[granted]) : ddr' = outcome[1]
    <3>1. PICK outcome \in Outcomes(ddr, Presented[granted]) : ddr' = outcome[1]
      BY <2>4
    <3>2. \A b \in Byte : ddr'[b] = ddr[b]
                           \/ (Presented[granted].write /\ b \in Presented[granted].bytes)
      BY <1>0, <2>2, <3>1, OutcomeKeeps
    <3> QED
      BY <2>1, <2>2, <3>2
  <2> QED
    BY <2>1, <2>3, <2>4 DEF Grants
<1>3. CASE granted = None /\ ~Collects
  BY <1>3 DEF Moves, FabricMoves, Rests, Waits, Releases
<1> QED
  BY <1>1, <1>2, <1>3

\* What the CPU reads changes only by the store in hand, and when it does is known.
LEMMA ViewMoves ==
  ASSUME IInv, NEW granted \in 0 .. 3 \cup {None}, Moves(granted), CpuEdge(granted),
         ~fault, ~fault'
  PROVE  /\ \A b \in Byte :
              ~(held # None /\ held.write /\ cState \in {"SEND", "WAIT_DATA"} /\ b \in held.bytes)
                => View'[b] = View[b]
         /\ cState = "WAIT_DATA" /\ bRsp # None => \A b \in Byte : View'[b] = View[b]
         /\ Posts => held.write /\ \A b \in held.bytes : View'[b] = held.data
<1> USE DEF IInv, Wired, Control
<1>0. /\ count \in Nat /\ count' \in Nat /\ Leaving \in 0 .. 1
      /\ bState \in {"IDLE", "STORE_SEND", "STORE_WAIT", "DIRECT_SEND", "DIRECT_WAIT"}
  BY RingMoves, ShapeAssumption DEF Typed, BufferTyped, Buffer!States
<1>1. CASE Buffer!DirectActive
  <2>1. /\ cState = "WAIT_DATA" /\ bRsp = None /\ count = 0 /\ CpuAccess = Sent
        /\ held \in CpuRequest /\ held # None /\ Sent.write = held.write
        /\ held.write => Sent = held
    BY <1>1, BufferFacts, SentFacts
  <2>2. ~Posts /\ Leaving = 0
    BY <1>1, AcceptsFacts DEF Posts, Leaving, Buffer!DirectActive
  <2>3. count' = 0
    BY <2>1, <2>2, RingMoves
  <2>4. \A b \in Byte : View[b] = ddr[b] /\ View'[b] = ddr'[b]
    BY <2>1, <2>3, ViewIsMemory
  <2> QED
    BY <2>1, <2>2, <2>4, DdrMoves
<1>2. CASE ~Buffer!DirectActive
  <2> DEFINE pushed == IF Posts THEN TRUE ELSE FALSE
             popped == IF Leaving = 1 THEN TRUE ELSE FALSE
  <2>1. bState # "IDLE" => count > 0 /\ CpuAccess = Ring[1]
    BY <1>0, <1>2, BufferFacts DEF Buffer!DirectActive
  <2>2. \A b \in Byte : ddr'[b] = ddr[b] \/ (count > 0 /\ b \in Ring[1].bytes)
    BY <2>1, DdrMoves
  <2>3. Leaving = 1 => \A b \in Ring[1].bytes : ddr'[b] = Ring[1].data
    <3> SUFFICES ASSUME Leaving = 1 PROVE \A b \in Ring[1].bytes : ddr'[b] = Ring[1].data
      OBVIOUS
    <3>1. Pops(granted)
      BY RingMoves
    <3>2. CpuAnswered /\ bState = "STORE_WAIT" /\ ~tReply.err
      BY <3>1 DEF Pops
    <3>3. owner = Cpu /\ tReply # None
      BY <3>2, ResponseFacts DEF CpuAnswered
    <3>4. CpuAccess = Ring[1] /\ CpuAccess.write
      BY <3>2, BufferFacts
    <3>5. \A b \in CpuAccess.bytes : ddr[b] = CpuAccess.data
      BY <3>2, <3>3, <3>4 DEF Current, Performed
    <3>6. ddr' = ddr
      BY <3>2, DdrMoves
    <3> QED
      BY <3>4, <3>5, <3>6
  <2>4. /\ Leaving <= count
        /\ count' = count - Leaving + IF pushed THEN 1 ELSE 0
        /\ \A i \in 1 .. count - Leaving : Ring'[i] = Ring[i + Leaving]
        /\ pushed => Ring'[count'] = Sent
    BY RingMoves
  <2>5. pushed \in BOOLEAN /\ popped \in BOOLEAN /\ (pushed <=> Posts) /\ (popped <=> Leaving = 1)
        /\ Leaving = IF popped THEN 1 ELSE 0
    BY <1>0
  <2> HIDE DEF pushed, popped
  <2>6. \A b \in Byte : View'[b] = IF pushed /\ b \in Sent.bytes THEN Sent.data ELSE View[b]
    <3>1. popped => \A b \in Ring[1].bytes : ddr'[b] = Ring[1].data
      BY <2>3, <2>5
    <3> QED
      BY <1>0, <2>2, <2>4, <2>5, <3>1, ViewStep
  <2>7. Posts => /\ cState = "SEND" /\ held.write /\ Sent = held /\ held \in CpuRequest
                 /\ held # None /\ held \in Request
    BY BufferFacts, SentFacts DEF Posts
  <2>8. Posts => held.bytes \subseteq Byte
    BY <2>7, RequestAssumption DEF AnyRequest
  <2> QED
    BY <2>5, <2>6, <2>7, <2>8
<1> QED
  BY <1>1, <1>2

\* What is about to be answered to the CPU has been performed.
LEMMA PerformedStep ==
  ASSUME IInv, NEW granted \in 0 .. 3 \cup {None}, Moves(granted), ~fault
  PROVE  Performed'
<1> USE DEF IInv, Wired, Control
<1>0. ddr \in [Byte -> Value] /\ atMemory \in AnyRequest \cup {None}
  BY DEF Typed, FabricTyped
<1>1. ASSUME NEW req \in AnyRequest, NEW outcome \in Outcomes(ddr, req), ~outcome[2].err
      PROVE  IF req.write THEN \A b \in req.bytes : outcome[1][b] = req.data
             ELSE outcome[2].data = ReadFrom(outcome[1], req.bytes)
  <2>1. CASE req.write
    <3>1. outcome[1] = Stored(ddr, req, req.bytes)
      BY <1>0, <1>1, <2>1, OutcomeFacts
    <3>2. req.bytes \subseteq Byte
      BY DEF AnyRequest
    <3> QED
      BY <2>1, <3>1, <3>2 DEF Stored
  <2>2. CASE ~req.write
    <3>1. outcome[1] = ddr
      BY <1>0, <2>2, OutcomeFacts
    <3>2. outcome[2].data = ReadFrom(ddr, req.bytes)
      BY <1>0, <1>1, <2>2, LoadTyped
    <3> QED
      BY <2>2, <3>1, <3>2
  <2> QED
    BY <2>1, <2>2
<1> SUFFICES ASSUME owner' = Cpu, tReply' # None, ~tReply'.err
             PROVE  IF CpuAccess'.write THEN \A b \in CpuAccess'.bytes : ddr'[b] = CpuAccess'.data
                    ELSE tReply'.data = ReadFrom(ddr', CpuAccess'.bytes)
  BY DEF Performed, ReadFrom
<1>2. bState' # "IDLE"
  BY OneAccessStep DEF OneAccess, Buffer!MemRspReady
<1>3. CASE granted # None
  <2>1. Grants(granted) /\ granted = Cpu
    BY <1>3 DEF Moves, FabricMoves, Grants
  <2>2. bState # "IDLE" /\ Presented[granted] = CpuAccess /\ CpuAccess \in AnyRequest
    BY <2>1, PresentedFacts DEF Grants
  <2>3. CpuAccess' = CpuAccess
    BY <1>2, <2>2, AccessKept
  <2>4. PICK outcome \in Outcomes(ddr, CpuAccess) : ddr' = outcome[1] /\ tReply' = outcome[2]
    BY <2>1, <2>2 DEF Grants
  <2> QED
    BY <1>1, <2>2, <2>3, <2>4
<1>4. CASE granted = None
  <2>1. (Waits \/ Collects) /\ owner = Cpu
    BY <1>4, NoneFacts DEF Moves, FabricMoves, Rests, Waits, Collects, Releases
  <2>2. bState # "IDLE"
    BY <2>1 DEF OneAccess, Buffer!MemRspReady
  <2>3. CpuAccess' = CpuAccess
    BY <1>2, <2>2, AccessKept
  <2>4. CASE Waits
    <3>1. ddr' = ddr /\ tReply' = tReply
      BY <2>4 DEF Waits
    <3> QED
      BY <2>1, <2>3, <3>1 DEF Current, Performed
  <2>5. CASE Collects
    <3>1. atMemory = CpuAccess /\ CpuAccess \in AnyRequest
      BY <1>0, <2>1, <2>5 DEF Collects, OneAccess
    <3>2. PICK outcome \in Outcomes(ddr, CpuAccess) : ddr' = outcome[1] /\ tReply' = outcome[2]
      BY <2>5, <3>1 DEF Collects
    <3> QED
      BY <1>1, <2>3, <3>1, <3>2
  <2> QED
    BY <2>1, <2>4, <2>5
<1> QED
  BY <1>3, <1>4

\* What the buffer has just answered is current.
LEMMA AnswerStep ==
  ASSUME IInv, NEW granted \in 0 .. 3 \cup {None}, Moves(granted), CpuEdge(granted),
         ~fault, ~fault'
  PROVE  AnswerCurrent'
<1> USE DEF IInv, Wired, Control
<1> SUFFICES ASSUME cState' = "WAIT_DATA", bRsp' # None, ~bRsp'.err
             PROVE  IF held'.write THEN \A b \in held'.bytes : View'[b] = held'.data
                    ELSE bRsp'.data = ReadFrom(View', Sent'.bytes)
  BY DEF AnswerCurrent, ReadFrom
<1>1. held' = held /\ Sent' = Sent
  BY CacheHolds
<1>2. Posts \/ Closes(granted)
  BY DEF Moves, BufferMoves, Opens, Holds, Refuses
<1>3. CASE Posts
  BY <1>1, <1>3, ViewMoves
<1>4. CASE Closes(granted)
  <2>1. /\ owner = Cpu /\ tReply # None /\ bRsp' = tReply /\ cState = "WAIT_DATA"
        /\ CpuAccess = Sent /\ count = 0
    BY <1>4, ClosesFacts
  <2>2. ddr' = ddr /\ count' = 0
    BY <1>4, <2>1, DdrMoves DEF Closes
  <2>3. \A b \in Byte : View'[b] = ddr[b]
    BY <2>2, ViewIsMemory
  <2>4. /\ Sent.write = held.write /\ (held.write => Sent = held)
        /\ Sent.bytes \subseteq Byte /\ held.bytes \subseteq Byte
    <3>1. held \in CpuRequest
      BY <2>1, BufferFacts
    <3>2. held \in AnyRequest /\ Sent \in AnyRequest
      BY <3>1, SentFacts, RequestAssumption
    <3> QED
      BY <3>1, <3>2, SentFacts DEF AnyRequest
  <2>5. IF Sent.write THEN \A b \in Sent.bytes : ddr[b] = Sent.data
        ELSE tReply.data = ReadFrom(ddr, Sent.bytes)
    BY <2>1 DEF Current, Performed
  <2>6. ReadFrom(ddr, Sent.bytes) = ReadFrom(View', Sent.bytes)
    BY <2>3, <2>4 DEF ReadFrom
  <2>7. CASE held.write
    <3>1. \A b \in held.bytes : ddr[b] = held.data
      BY <2>4, <2>5, <2>7
    <3>2. \A b \in held.bytes : View'[b] = held.data
      BY <2>3, <2>4, <3>1
    <3> QED
      BY <1>1, <2>7, <3>2
  <2>8. CASE ~held.write
    <3>1. bRsp'.data = ReadFrom(View', Sent.bytes)
      BY <2>1, <2>4, <2>5, <2>6, <2>8
    <3> QED
      BY <1>1, <2>8, <3>1
  <2> QED
    BY <2>7, <2>8
<1> QED
  BY <1>2, <1>3, <1>4

\* What is in a line is not in the store in hand, so that it stays current.
LEMMA LineKept ==
  ASSUME IInv, NEW granted \in 0 .. 3 \cup {None}, Moves(granted), CpuEdge(granted),
         ~fault, ~fault', NEW i \in Index, lines[i] # None
  PROVE  /\ lines[i] \in Cache!Line /\ IndexOf[lines[i].word] = i
         /\ \A b \in lines[i].word : lines[i].data[b] = View'[b]
<1> USE DEF IInv, Wired, Control
<1>1. lines[i] \in Cache!Line
  BY DEF Typed, CacheTyped
<1>2. lines[i].word \subseteq Byte
  BY <1>1, LineFacts
<1>3. /\ IndexOf[lines[i].word] = i
      /\ \A b \in lines[i].word : lines[i].data[b] = View[b]
  BY DEF Current, LinesCurrent
<1>4. \A b \in lines[i].word :
        ~(held # None /\ held.write /\ cState \in {"SEND", "WAIT_DATA"} /\ b \in held.bytes)
  BY DEF Current, StoreUncached
<1> QED
  BY <1>1, <1>2, <1>3, <1>4, ViewMoves

\* What is kept of an access is current.
LEMMA FreshCurrent ==
  ASSUME IInv, NEW granted \in 0 .. 3 \cup {None}, Moves(granted), CpuEdge(granted),
         ~fault, ~fault', Gets, Cache!Cacheable(held), ~bRsp.err, held.write => writeHit
  PROVE  /\ Cache!Fresh(bRsp).word = Cache!WordOf(held)
         /\ \A b \in Cache!Fresh(bRsp).word : Cache!Fresh(bRsp).data[b] = View'[b]
<1> USE DEF IInv, Wired, Control
<1>1. /\ cState = "WAIT_DATA" /\ bRsp # None /\ held \in CpuRequest /\ held \in Request
      /\ Cache!Fresh(bRsp).word = Cache!WordOf(held)
      /\ Cache!Fresh(bRsp).data = IF held.write THEN Cache!Merged ELSE bRsp.data
  BY GetsFacts, MasterAssumption DEF Gets
<1>2. Cache!WordOf(held) \subseteq Byte
  BY <1>1, WordFacts
<1>3. \A b \in Byte : View'[b] = View[b]
  BY <1>1, ViewMoves
<1>4. CASE held.write
  <2>1. \A b \in held.bytes : View[b] = held.data
    BY <1>1, <1>4 DEF Current, AnswerCurrent
  <2>2. line # None /\ line.word = Cache!WordOf(held)
    BY <1>1, <1>4 DEF WriteHit
  <2>3. \A b \in line.word : b \notin held.bytes => line.data[b] = View[b]
    BY <1>1, <2>2 DEF Current, CapturedCurrent
  <2>4. \A b \in line.word : Cache!Merged[b] = View[b]
    BY <2>1, <2>3 DEF Cache!Merged
  <2> QED
    BY <1>1, <1>2, <1>3, <1>4, <2>2, <2>4
<1>5. CASE ~held.write
  <2>1. bRsp.data = ReadFrom(View, Sent.bytes)
    BY <1>1, <1>5 DEF Current, AnswerCurrent
  <2>2. Sent.bytes = Cache!WordOf(held)
    BY <1>1, <1>5, SentFacts
  <2> QED
    BY <1>1, <1>2, <1>3, <1>5, <2>1, <2>2 DEF ReadFrom
<1> QED
  BY <1>4, <1>5

\* Lines stay current.
LEMMA LinesStep ==
  ASSUME IInv, NEW granted \in 0 .. 3 \cup {None}, Moves(granted), CpuEdge(granted),
         ~fault, ~fault'
  PROVE  LinesCurrent'
<1> USE DEF IInv, Wired, Control
<1> SUFFICES ASSUME NEW i \in Index, lines'[i] # None
             PROVE  /\ IndexOf[lines'[i].word] = i
                    /\ \A b \in lines'[i].word : lines'[i].data[b] = View'[b]
  BY DEF LinesCurrent
<1>0. lines \in [Index -> Cache!Line \cup {None}] /\ lines' # Cache!NoLines
  BY DEF Typed, CacheTyped, Cache!NoLines
<1>1. CASE lines'[i] = lines[i]
  BY <1>1, LineKept
<1>2. CASE lines'[i] # lines[i]
  <2>1. Gets
    <3>1. \/ lines' = lines
          \/ Misses /\ lines' = [lines EXCEPT ![IndexOf[Cache!WordOf(held)]] = None]
          \/ Gets
      BY <1>0 DEF Moves, CacheMoves, Sits, Looks, Hits, Misses, Asks, Expects, Delivers, Kept
    <3>2. ~(lines' = [lines EXCEPT ![IndexOf[Cache!WordOf(held)]] = None])
      BY <1>0, <1>2
    <3> QED
      BY <1>2, <3>1, <3>2
  <2>2. /\ Cache!Cacheable(held) /\ ~bRsp.err /\ (held.write => writeHit)
        /\ lines' = [lines EXCEPT ![IndexOf[Cache!WordOf(held)]] = Cache!Fresh(bRsp)]
    BY <1>0, <1>2, <2>1 DEF Gets, Kept
  <2>3. i = IndexOf[Cache!WordOf(held)] /\ lines'[i] = Cache!Fresh(bRsp)
    BY <1>0, <1>2, <2>2
  <2> QED
    BY <2>1, <2>2, <2>3, FreshCurrent
<1> QED
  BY <1>1, <1>2

\* So does the line captured for the access in hand.
LEMMA CapturedStep ==
  ASSUME IInv, NEW granted \in 0 .. 3 \cup {None}, Moves(granted), CpuEdge(granted),
         ~fault, ~fault'
  PROVE  CapturedCurrent'
<1> USE DEF IInv, Wired, Control
<1> SUFFICES ASSUME line' # None
             PROVE  /\ cState' # "IDLE" /\ Cache!Cacheable(held)'
                    /\ cState' # "RESPONSE" =>
                         \A b \in line'.word : b \notin held'.bytes \/ ~held'.write =>
                           line'.data[b] = View'[b]
  BY DEF CapturedCurrent
<1>1. CASE Looks
  <2>1. /\ cpuReq # None /\ cpuReq \in Request /\ held' = cpuReq /\ cState' = "LOOKUP"
    BY <1>1, MasterAssumption DEF Looks, Typed, FabricTyped
  <2>2. Cache!Cacheable(cpuReq) /\ line' = lines[IndexOf[Cache!WordOf(cpuReq)]]
    BY <1>1 DEF Looks
  <2>3. Cache!Cacheable(held)'
    BY <2>1, <2>2 DEF Cache!Cacheable
  <2>4. IndexOf[Cache!WordOf(cpuReq)] \in Index
    BY <2>1, <2>2, WordFacts
  <2>5. \A b \in line'.word : line'.data[b] = View'[b]
    BY <2>2, <2>4, LineKept
  <2> QED
    BY <2>1, <2>3, <2>5
<1>2. CASE Hits \/ Misses \/ Asks \/ Gets \/ Expects
  <2>1. line' = line /\ held' = held /\ cState # "RESPONSE" /\ cState' # "IDLE"
    BY <1>2 DEF Hits, Misses, Asks, Gets, Expects, Rested, Freed
  <2>2. /\ Cache!Cacheable(held) /\ line \in Cache!Line
        /\ \A b \in line.word : b \notin held.bytes \/ ~held.write => line.data[b] = View[b]
    BY <2>1 DEF Current, CapturedCurrent, Typed, CacheTyped
  <2>3. line.word \subseteq Byte
    BY <2>2, LineFacts
  <2>4. Cache!Cacheable(held)'
    BY <2>1, <2>2 DEF Cache!Cacheable
  <2>5. \A b \in line.word : b \notin held.bytes \/ ~held.write => line.data[b] = View'[b]
    BY <2>2, <2>3, ViewMoves
  <2> QED
    BY <2>1, <2>4, <2>5
<1>3. CASE Sits \/ Delivers
  BY <1>3 DEF Sits, Delivers, Rested, Freed, Current, CapturedCurrent
<1> QED
  BY <1>1, <1>2, <1>3 DEF Moves, CacheMoves

\* A store on its way is in no line.
LEMMA StoreStep ==
  ASSUME IInv, NEW granted \in 0 .. 3 \cup {None}, Moves(granted), ~fault
  PROVE  StoreUncached'
<1> USE DEF IInv, Wired, Control
<1> SUFFICES ASSUME held' # None, held'.write,
                    cState' \in {"SEND", "WAIT_DATA"} \/ ~Cache!Cacheable(held)',
                    NEW i \in Index, lines'[i] # None
             PROVE  lines'[i].word \cap held'.bytes = {}
  BY DEF StoreUncached
<1>0. lines \in [Index -> Cache!Line \cup {None}] /\ lines' # Cache!NoLines
  BY DEF Typed, CacheTyped, Cache!NoLines
<1>1. CASE Looks
  <2>1. held' = cpuReq /\ cState' = "LOOKUP"
    BY <1>1 DEF Looks
  <2>2. ~Cache!Cacheable(cpuReq)
    BY <2>1 DEF Cache!Cacheable
  <2>3. lines' = lines /\ ~Cache!Bypasses(cpuReq)
    BY <1>0, <1>1 DEF Looks
  <2>4. cpuReq.bytes \cap Ddr = {}
    BY <2>1, <2>2, <2>3 DEF Cache!Bypasses
  <2>5. lines[i] \in Cache!Line /\ lines[i].word \subseteq Ddr
    BY <1>0, <2>3, LineFacts
  <2> QED
    BY <2>1, <2>3, <2>4, <2>5
<1>2. CASE Misses
  <2>1. held' = held /\ held \in CpuRequest /\ held \in Request /\ held.bytes # {}
    BY <1>2, BufferFacts, SentFacts DEF Misses
  <2>2. CASE Cache!Cacheable(held)
    <3>1. /\ lines' = [lines EXCEPT ![IndexOf[Cache!WordOf(held)]] = None]
          /\ IndexOf[Cache!WordOf(held)] \in Index
      BY <1>0, <1>2, <2>1, <2>2, WordFacts DEF Misses, Kept
    <3>2. i # IndexOf[Cache!WordOf(held)] /\ lines'[i] = lines[i] /\ lines[i] \in Cache!Line
      BY <1>0, <3>1
    <3>3. IndexOf[lines[i].word] = i /\ lines[i].word \in Word
      BY <3>2, LineFacts DEF Current, LinesCurrent
    <3>4. lines[i].word \cap held.bytes # {} => lines[i].word = Cache!WordOf(held)
      BY <2>1, <2>2, <3>3, WordFacts
    <3> QED
      BY <2>1, <3>2, <3>3, <3>4
  <2>3. CASE ~Cache!Cacheable(held)
    <3>1. lines' = lines
      BY <1>0, <1>2, <2>3 DEF Misses, Kept
    <3> QED
      BY <2>1, <2>3, <3>1 DEF Current, StoreUncached
  <2> QED
    BY <2>2, <2>3
<1>3. CASE Asks \/ Expects
  <2>1. held' = held /\ lines' = lines /\ cState \in {"SEND", "WAIT_DATA"}
    BY <1>0, <1>3 DEF Asks, Expects, Rested, Kept
  <2> QED
    BY <2>1 DEF Current, StoreUncached
<1>4. CASE Gets
  <2>1. held' = held /\ cState' = "RESPONSE"
    BY <1>4 DEF Gets
  <2>2. ~Cache!Cacheable(held)
    BY <2>1 DEF Cache!Cacheable
  <2>3. lines' = lines
    BY <1>0, <1>4, <2>2 DEF Gets, Kept
  <2> QED
    BY <2>1, <2>2, <2>3 DEF Current, StoreUncached
<1>5. CASE Sits \/ Hits \/ Delivers
  BY <1>5 DEF Sits, Hits, Delivers, Rested, Freed, InStep, Cache!Idle
<1> QED
  BY <1>1, <1>2, <1>3, <1>4, <1>5 DEF Moves, CacheMoves

\* What the cache is about to answer is current.
LEMMA DeliveryStep ==
  ASSUME IInv, NEW granted \in 0 .. 3 \cup {None}, Moves(granted), CpuEdge(granted),
         ~fault, ~fault'
  PROVE  DeliveryCurrent'
<1> USE DEF IInv, Wired, Control
<1> SUFFICES ASSUME cState' = "RESPONSE", ~held'.write, ~cRsp'.err
             PROVE  cRsp'.data = ReadFrom(View', held'.bytes)
  BY DEF DeliveryCurrent, ReadFrom
<1>1. CASE Hits
  <2>1. /\ cRsp'.data = ReadFrom(line.data, held.bytes) /\ held' = held /\ cState = "LOOKUP"
        /\ ~held.write /\ line # None
    BY <1>1 DEF Hits
  <2>2. line \in Cache!Line /\ held.bytes \subseteq line.word
    BY <1>1, HitsFacts
  <2>3. line.word \subseteq Byte
    BY <2>2, LineFacts
  <2>4. \A b \in line.word : line.data[b] = View[b]
    BY <2>1 DEF Current, CapturedCurrent
  <2>5. \A b \in line.word : View'[b] = View[b]
    BY <2>1, <2>3, ViewMoves
  <2>6. \A b \in held.bytes : line.data[b] = View'[b]
    BY <2>2, <2>4, <2>5
  <2>7. ReadFrom(line.data, held.bytes) = ReadFrom(View', held.bytes)
    BY <2>6 DEF ReadFrom
  <2> QED
    BY <2>1, <2>7
<1>2. CASE Gets
  <2>1. /\ cRsp' = Cache!ReplyToHeld(bRsp) /\ held' = held /\ cState = "WAIT_DATA" /\ bRsp # None
    BY <1>2 DEF Gets
  <2>2. ~bRsp.err
    <3>1. bRsp.err => cRsp'.err
      BY <1>2, <2>1, GetsFacts DEF Blank
    <3> QED
      BY <3>1
  <2>3. cRsp'.data = ReadFrom(bRsp.data, held.bytes)
    BY <1>2, <2>1, <2>2, GetsFacts
  <2>4. bRsp.data = ReadFrom(View, Sent.bytes)
    BY <2>1, <2>2 DEF Current, AnswerCurrent
  <2>5. held \in AnyRequest /\ held.bytes \subseteq Sent.bytes /\ held.bytes \subseteq Byte
    BY <1>2, GetsFacts, SentFacts DEF AnyRequest
  <2>6. \A b \in Byte : View'[b] = View[b]
    BY <2>1, ViewMoves
  <2>7. ReadFrom(bRsp.data, held.bytes) = ReadFrom(View', held.bytes)
    BY <2>4, <2>5, <2>6 DEF ReadFrom
  <2> QED
    BY <2>1, <2>3, <2>7
<1> QED
  BY <1>1, <1>2 DEF Moves, CacheMoves, Sits, Looks, Misses, Asks, Expects, Delivers

\* While an agent has the memory nothing of the CPU's is there to go stale.
LEMMA AgentEdge ==
  ASSUME IInv, NEW granted \in 0 .. 3 \cup {None}, Moves(granted), ~CpuEdge(granted)
  PROVE  /\ owner' # Cpu /\ cState' = "IDLE" /\ held' = None /\ line' = None
         /\ lines' = Cache!NoLines
<1> USE DEF IInv, Wired, Control
<1>1. Buffer!Idle /\ Cache!Idle /\ ~fault /\ AgentPending /\ owner' # Cpu
  <2>1. CASE owner \in {Walker, Dma}
    <3>1. agentActive
      BY <2>1 DEF AgentsOwnMemory
    <3>2. owner' # Cpu
      BY <2>1, NoneFacts
         DEF Moves, FabricMoves, Rests, Waits, Collects, Releases, Grants
    <3> QED
      BY <3>1, <3>2 DEF AgentsOwnMemory, AgentPending
  <2>2. CASE granted \in {Walker, Dma}
    <3>1. Grants(granted) /\ owner' # Cpu
      BY <2>2, NoneFacts DEF Moves, FabricMoves, Grants
    <3>2. AgentGrant /\ AgentPending
      BY <2>2, <3>1, PresentedFacts DEF Grants
    <3> QED
      BY <3>1, <3>2 DEF AgentGrant
  <2> QED
    BY <2>1, <2>2 DEF CpuEdge
<1>2. Cache!Idle' /\ lines' = Cache!NoLines /\ held' = None
  BY <1>1, QuietFacts
<1>3. line = None /\ cState = "IDLE"
  BY <1>1 DEF Current, CapturedCurrent, Cache!Idle
<1>4. line' = None
  <2>1. Sits
    BY <1>1, <1>3 DEF Moves, CacheMoves, Looks, Hits, Misses, Asks, Gets, Expects, Delivers
  <2> QED
    BY <1>3, <2>1 DEF Sits, Rested
<1> QED
  BY <1>1, <1>2, <1>4 DEF Cache!Idle

\* Every edge leaves what the CPU is about to read current.
LEMMA CurrentStep ==
  ASSUME IInv, NEW granted \in 0 .. 3 \cup {None}, Moves(granted)
  PROVE  Current'
<1> SUFFICES ASSUME ~fault'
             PROVE  /\ LinesCurrent' /\ CapturedCurrent' /\ StoreUncached'
                    /\ Performed' /\ AnswerCurrent' /\ DeliveryCurrent'
  BY DEF Current
<1>1. ~fault
  BY AwaitsFacts DEF IInv
<1>2. CASE CpuEdge(granted)
  BY <1>1, <1>2, LinesStep, CapturedStep, StoreStep, PerformedStep, AnswerStep, DeliveryStep
<1>3. CASE ~CpuEdge(granted)
  <2>1. /\ owner' # Cpu /\ cState' = "IDLE" /\ held' = None /\ line' = None
        /\ \A i \in Index : lines'[i] = None
    BY <1>3, AgentEdge DEF Cache!NoLines
  <2> QED
    BY <2>1 DEF LinesCurrent, CapturedCurrent, StoreUncached, Performed, AnswerCurrent,
                DeliveryCurrent
<1> QED
  BY <1>2, <1>3

-----------------------------------------------------------------------------
(***************************************************************************)
(* The invariant, and what it says of the properties.                      *)
(***************************************************************************)

\* At power-up nothing is under way.
LEMMA InitFacts == Init => IInv
<1> SUFFICES ASSUME Init PROVE IInv
  OBVIOUS
<1>0. /\ cState = "IDLE" /\ lines = Cache!NoLines /\ held = None /\ line = None /\ cRsp = None
      /\ writeHit = FALSE /\ poisoned = FALSE
      /\ slots = [i \in Buffer!Slot |-> Buffer!Unwritten] /\ head = 0 /\ tail = 0 /\ count = 0
      /\ bState = "IDLE" /\ direct = None /\ bRsp = None /\ fault = FALSE
      /\ owner = None /\ lastOwner = 3 /\ tState = "TARGET_IDLE" /\ tReply = None
      /\ agentActive = FALSE /\ cpuReq = None /\ walkerReq = None /\ fetchReq = None
      /\ dmaReq = None /\ atMemory = None /\ ddr \in PowerUp
  BY DEF Init, Cache!Init, Buffer!Init, Buffer!ResetRegisters, Arbiter!Init, Target!Init
<1>1. CacheTyped
  BY <1>0 DEF CacheTyped, Cache!CacheStates, Cache!NoLines
<1>2. BufferTyped
  <2>1. slots \in [Buffer!Slot -> AnyRequest \cup {None}]
    BY <1>0 DEF Buffer!Unwritten
  <2>2. 0 \in Buffer!Slot /\ 0 \in 0 .. Depth
    BY ShapeAssumption DEF Buffer!Slot
  <2> QED
    BY <1>0, <2>1, <2>2 DEF BufferTyped, Buffer!States
<1>3. FabricTyped
  <2>1. ddr \in [Byte -> Value] /\ lastOwner \in 0 .. 3
    BY <1>0, ShapeAssumption
  <2> QED
    BY <1>0, <2>1 DEF FabricTyped, Target!TargetStates
<1>4. RingShape
  <2>1. Nth(0) = 0
    BY <1>0, ShapeAssumption DEF Nth
  <2> QED
    BY <1>0, <2>1 DEF RingShape
<1>5. OneAccess
  BY <1>0, NoneFacts DEF OneAccess, Buffer!MemRspReady, Cpu, Fetch
<1>6. InStep /\ WriteHit
  BY <1>0 DEF InStep, WriteHit, Cache!Idle, Buffer!DirectActive
<1>7. AnswerShape /\ AgentsOwnMemory
  BY <1>0, NoneFacts DEF AnswerShape, AgentsOwnMemory, Cpu, Walker, Dma
<1>8. Current
  <2>1. \A i \in Index : lines[i] = None
    BY <1>0 DEF Cache!NoLines
  <2> QED
    BY <1>0, <2>1, NoneFacts DEF Current, LinesCurrent, CapturedCurrent, StoreUncached,
                Performed, AnswerCurrent, DeliveryCurrent
<1> QED
  BY <1>1, <1>2, <1>3, <1>4, <1>5, <1>6, <1>7, <1>8 DEF IInv, Wired, Control, Typed

\* A step in which nothing happens keeps it.
LEMMA StutterFacts == IInv /\ UNCHANGED vars => IInv'
<1> SUFFICES ASSUME IInv, UNCHANGED vars PROVE IInv'
  OBVIOUS
<1> USE DEF vars, cacheRegs, bufferRegs
<1>1. Typed'
  BY DEF IInv, Wired, Typed, CacheTyped, BufferTyped, FabricTyped
<1>2. CpuAccess' = CpuAccess /\ Sent' = Sent /\ View' = View
  BY DEF CpuAccess, Sent, Cache!Cacheable, Cache!WordOf, View, Newest, Ring
<1>3. RingShape' /\ OneAccess'
  BY <1>2 DEF IInv, Wired, Control, RingShape, Nth, OneAccess, Buffer!MemRspReady
<1>4. InStep' /\ WriteHit'
  BY <1>2 DEF IInv, Wired, Control, InStep, WriteHit, Cache!Idle, Buffer!DirectActive,
              Cache!WordOf
<1>5. AnswerShape' /\ AgentsOwnMemory'
  BY <1>2 DEF IInv, Wired, Control, AnswerShape, AgentsOwnMemory, Buffer!Idle, Cache!Idle,
              Cache!NoLines
<1>6. Current'
  BY <1>2 DEF IInv, Current, LinesCurrent, CapturedCurrent, StoreUncached, Performed,
              AnswerCurrent, DeliveryCurrent, Cache!Cacheable, ReadFrom
<1> QED
  BY <1>1, <1>3, <1>4, <1>5, <1>6 DEF IInv, Wired, Control

(***************************************************************************)
(* On every edge the cache, the buffer, the arbiter, the target and the    *)
(* memory agree on what is outstanding, and until a late store error what  *)
(* is cached, captured or about to be answered is what the CPU would read. *)
(***************************************************************************)
THEOREM SocInvariance == Spec => []IInv
<1>1. IInv /\ [Next]_vars => IInv'
  <2> SUFFICES ASSUME IInv, [Next]_vars PROVE IInv'
    OBVIOUS
  <2>1. CASE Next
    <3>1. PICK granted \in 0 .. 3 \cup {None} : Moves(granted)
      BY <2>1, StepMoves DEF IInv
    <3> QED
      BY <3>1, WiredStep, CurrentStep DEF IInv
  <2>2. CASE UNCHANGED vars
    BY <2>2, StutterFacts
  <2> QED
    BY <2>1, <2>2
<1> QED
  BY <1>1, InitFacts, PTL DEF Spec

(***************************************************************************)
(* While an agent's access is outstanding nothing of the CPU's is: no      *)
(* posted store, no cached line, no request under way (soc_core_txn.sv:225 *)
(* and the three grants below it).                                         *)
(***************************************************************************)
THEOREM AgentsStayOwners == Spec => []AgentsOwnMemory
<1>1. IInv => AgentsOwnMemory
  BY DEF IInv, Wired, Control
<1> QED
  BY <1>1, SocInvariance, PTL

(***************************************************************************)
(* The data a load delivers to the CPU is current when it is delivered,    *)
(* from the cache or from memory, behind any posted stores and whatever    *)
(* the agents have written in the meantime.                                *)
(***************************************************************************)
THEOREM LoadsStayCurrent == Spec => []LoadsAreCurrent
<1>1. IInv => LoadsAreCurrent
  <2> USE DEF IInv, Wired, Control
  <2> SUFFICES ASSUME IInv, Cache!Response(Invalidate(TRUE)) # None, ~held.write,
                      ~Cache!Response(Invalidate(TRUE)).err, ~fault, NEW b \in held.bytes
               PROVE  Cache!Response(Invalidate(TRUE)).data[b] = View[b]
    BY DEF LoadsAreCurrent
  <2>1. CASE cState = "RESPONSE"
    <3>1. Cache!Response(Invalidate(TRUE)) = cRsp
      BY <2>1 DEF Cache!Response
    <3>2. cRsp.data = ReadFrom(View, held.bytes)
      BY <2>1, <3>1 DEF Current, DeliveryCurrent
    <3> QED
      BY <3>1, <3>2 DEF ReadFrom
  <2>2. CASE cState # "RESPONSE"
    <3>1. /\ cState = "LOOKUP" /\ Cache!Cacheable(held) /\ line # None
          /\ line.word = Cache!WordOf(held)
          /\ Cache!Response(Invalidate(TRUE)) = Cache!HitData
      BY <2>2 DEF Cache!Response, Cache!ReadHit, Cache!Hit
    <3>2. held.bytes \subseteq line.word
      <4>1. held \in CpuRequest /\ held \in Request
        BY <3>1, BufferFacts, MasterAssumption
      <4> QED
        BY <3>1, <4>1, WordFacts
    <3>3. line.data[b] = View[b]
      BY <3>1, <3>2 DEF Current, CapturedCurrent
    <3>4. Cache!HitData.data[b] = line.data[b]
      BY DEF Cache!HitData, Cache!ReadFrom
    <3> QED
      BY <3>1, <3>3, <3>4
  <2> QED
    BY <2>1, <2>2
<1> QED
  BY <1>1, SocInvariance, PTL

(***************************************************************************)
(* A late store error is final: no master is granted the bus again, the    *)
(* memory does not change and no line is kept (soc_core_txn.sv:253).       *)
(***************************************************************************)
THEOREM FaultStaysFatal == Spec => FaultStopsTheBus
<1>1. IInv /\ [Next]_vars =>
        [fault => fault' /\ owner' = None /\ ddr' = ddr /\ lines' = Cache!NoLines]_vars
  <2> SUFFICES ASSUME IInv, Next, fault
               PROVE  fault' /\ owner' = None /\ ddr' = ddr /\ lines' = Cache!NoLines
    OBVIOUS
  <2> USE DEF IInv, Wired, Control
  <2>1. PICK granted \in 0 .. 3 \cup {None} : Moves(granted)
    BY StepMoves
  <2>2. fault'
    BY <2>1, AwaitsFacts
  <2>3. owner' = None /\ ddr' = ddr
    <3>1. owner = None
      BY DEF OneAccess
    <3>2. ~Grants(granted)
      <4>1. \A m \in 0 .. 3 : Presented[m] = None
        BY PresentedFacts
      <4> QED
        BY <4>1 DEF Grants
    <3>3. granted = None /\ Rests
      BY <2>1, <3>1, <3>2, NoneFacts DEF Moves, FabricMoves, Waits, Collects, Releases
    <3> QED
      BY <3>1, <3>3 DEF Rests
  <2>4. lines' = Cache!NoLines
    BY <2>1 DEF Moves, CacheMoves, Sits, Looks, Hits, Misses, Asks, Gets, Expects, Delivers, Kept
  <2> QED
    BY <2>2, <2>3, <2>4
<1> QED
  BY <1>1, SocInvariance, PTL DEF Spec, FaultStopsTheBus
=============================================================================
