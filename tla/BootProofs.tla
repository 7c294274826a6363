----------------------------- MODULE BootProofs -----------------------------
(***************************************************************************)
(* Proofs about BootSystem: the boot ROM, for images and queues of any     *)
(* size, any flash contents and whatever arrives over the serial line; the *)
(* game it starts from flash, for a field of any size and a snake of any   *)
(* greatest length; and the whole system with its uploader, for any jobs,  *)
(* blocks and number of faults.                                            *)
(***************************************************************************)
EXTENDS BootSystem, FiniteSetTheorems, SequenceTheorems, TLAPS

-----------------------------------------------------------------------------
(***************************************************************************)
(* The boot ROM.                                                           *)
(***************************************************************************)

Crcs == Token \cup {f.crc : f \in FlashContents}

\* While an image is copied or received, the CRC is that of what has come so
\* far, and what it will be compared with belongs to somebody's image.
InTransfer == pc \in {"copy", "data"}

TransferIsSound ==
  InTransfer =>
    /\ expectedSize \in 1..MaxSize /\ offset \in 0..expectedSize
    /\ pc = "data" => offset < expectedSize
    /\ expectedCrc \in Crcs
    /\ actualCrc = Crc(Content(mem, offset))

UploadedIsSound ==
  /\ pc = "copy" => uploaded = 0
  /\ pc = "app" => uploaded # 0
  /\ uploaded # 0 /\ ~InTransfer => Content(mem, uploaded) \in Image

RomInv == TypeOK /\ TransferIsSound /\ UploadedIsSound

-----------------------------------------------------------------------------
\* Content of the memory is a sequence of tokens, and never None unless empty.
LEMMA ContentFacts ==
  ASSUME NEW m \in [1..MaxSize -> Token], NEW n \in 0..MaxSize
  PROVE  /\ Content(m, n) \in [1..n -> Token]
         /\ n # 0 => Content(m, n) # None
<1>1. Content(m, n) \in [1..n -> Token]
  BY TokenAssumption DEF Content
<1>2. ASSUME n # 0 PROVE Content(m, n) # None
  <2>1. DOMAIN Content(m, n) = 1..n
    BY DEF Content
  <2>2. 1 \in 1..n /\ 1 \notin DOMAIN None
    BY <1>2, TokenAssumption DEF None
  <2> QED
    BY <2>1, <2>2
<1> QED
  BY <1>1, <1>2

\* One more token behind n tokens.
Written(m, n, t) == [m EXCEPT ![n + 1] = t]

\* It extends their CRC by that token.
LEMMA CrcStep ==
  ASSUME NEW m \in [1..MaxSize -> Token], NEW n \in 0..MaxSize - 1, NEW t \in Token
  PROVE  /\ Written(m, n, t) \in [1..MaxSize -> Token]
         /\ Crc(Content(Written(m, n, t), n + 1)) = CrcByte(Crc(Content(m, n)), t)
<1> DEFINE m2 == Written(m, n, t)
<1>0. PICK k : k = n + 1
  OBVIOUS
<1>1. k = n + 1 /\ k \in 1..MaxSize /\ k \in 0..MaxSize /\ k - 1 = n
  BY <1>0, TokenAssumption
<1>2. PICK s : s = Content(m2, k)
  OBVIOUS
<1>3. m2 \in [1..MaxSize -> Token] /\ m2[k] = t
  BY <1>1 DEF Written
<1>4. s \in [1..k -> Token]
  BY <1>1, <1>2, <1>3, ContentFacts
<1>5. s[k] = t
  BY <1>1, <1>2, <1>3, TokenAssumption DEF Content
<1>6. Content(s, n) = Content(m, n)
  BY <1>1, <1>2 DEF Content, Written
<1>7. Crc(s) = CrcByte(Crc(Content(s, k - 1)), s[k])
  BY <1>1, <1>4, CrcAssumption
<1> QED
  BY <1>1, <1>2, <1>3, <1>5, <1>6, <1>7

\* Nothing received yet: the CRC is the one crc32_byte starts from.
LEMMA CrcOfNothing ==
  ASSUME NEW m
  PROVE  Crc(Content(m, 0)) = CrcStart
<1>1. Content(m, 0) \in [1..0 -> Token]
  BY DEF Content
<1> QED
  BY <1>1, CrcAssumption

\* A transfer that ends with the CRC it was announced with has brought an image
\* somebody meant to load.
LEMMA MatchIsImage ==
  ASSUME NEW m \in [1..MaxSize -> Token], NEW n \in 1..MaxSize,
         Crc(Content(m, n)) \in Crcs
  PROVE  Content(m, n) \in Image
<1>1. Content(m, n) \in [1..n -> Token]
  BY ContentFacts, TokenAssumption
<1> QED
  BY <1>1, CrcDetects DEF Crcs

-----------------------------------------------------------------------------
\* At power-up the invariant holds.
LEMMA InitRomInv == Init => RomInv
<1> SUFFICES ASSUME Init PROVE RomInv
  OBVIOUS
<1>1. MaxSize \in Nat /\ 0 \in Token
  BY TokenAssumption
<1>2. mem \in [1..MaxSize -> Token]
  BY <1>1 DEF Init
<1>3. rx \in Seq(Token)
  BY DEF Init, LineInit
<1>4. andRun \in BOOLEAN
  BY Zenon DEF Init
<1>5. TypeOK
  BY <1>1, <1>2, <1>3, <1>4 DEF Init, TypeOK
<1> QED
  BY <1>5 DEF Init, RomInv, TransferIsSound, UploadedIsSound, InTransfer

\* What the program takes from the queue is a token.
LEMMA ReceivedFacts ==
  ASSUME TypeOK, Receive
  PROVE  Received \in Token /\ Received \in Nat /\ rx' \in Seq(Token)
<1>1. rx \in Seq(Token) /\ rx # <<>> /\ rx' = Tail(rx)
  BY DEF TypeOK, Receive
<1>2. Head(rx) \in Token /\ Tail(rx) \in Seq(Token)
  BY <1>1
<1>3. Token \subseteq Nat
  BY TokenAssumption
<1> QED
  BY <1>1, <1>2, <1>3 DEF Received

\* andRun stays a Boolean.
LEMMA AndRunStep ==
  ASSUME RomInv, [Next]_vars
  PROVE  andRun' \in BOOLEAN
<1>1. andRun \in BOOLEAN
  BY DEF RomInv, TypeOK
<1>2. andRun' = andRun \/ andRun' = FALSE \/ andRun' = (Received = UploadRun)
  BY Zenon DEF Next, RomStep, CheckFlash, CopyFlash, FinishFlash, BeginUpload, GoCommand,
     FlashCommand, OtherCommand, ReadMagic, ReadSize, ReadCrc, ReadData, Good, Bad, Fail,
     Run, BackToIdle, Reset, PowerUp, Environment, vars, romVars
<1> QED
  BY <1>1, <1>2, Zenon

\* Steps that leave memory, flash and uploaded_size alone and stay outside a
\* transfer.
LEMMA QuietStep ==
  ASSUME RomInv, ~InTransfer, UNCHANGED <<mem, flash, uploaded>>,
         pc' \in {"flash", "idle", "magic", "size", "crc"} \/ (pc' = "app" /\ uploaded # 0),
         andRun' \in BOOLEAN, offset' \in Nat, expectedSize' \in Nat, rx' \in Seq(Token)
  PROVE  RomInv'
<1>1. TypeOK'
  BY DEF RomInv, TypeOK
<1>2. TransferIsSound'
  BY DEF TransferIsSound, InTransfer
<1>3. UploadedIsSound'
  BY DEF RomInv, UploadedIsSound, InTransfer
<1> QED
  BY <1>1, <1>2, <1>3 DEF RomInv

\* Every step of the ROM, and what may happen around it, preserves RomInv.
LEMMA NextRomInv == RomInv /\ [Next]_vars => RomInv'
<1> SUFFICES ASSUME RomInv, [Next]_vars PROVE RomInv'
  OBVIOUS
<1>0. TypeOK /\ TransferIsSound /\ UploadedIsSound /\ andRun' \in BOOLEAN
  BY AndRunStep DEF RomInv
<1>1. CASE CheckFlash
  <2>1. CASE flash.magic /\ flash.size \in 1..MaxSize /\ flash.entry
    <3>1. /\ pc' = "copy" /\ uploaded' = 0 /\ offset' = 0 /\ expectedSize' = flash.size
          /\ expectedCrc' = flash.crc /\ actualCrc' = CrcStart
          /\ UNCHANGED <<andRun, mem, flash, rx>>
      BY <1>1, <2>1 DEF CheckFlash, lineVars
    <3>2. flash.crc \in Crcs
      BY <1>0 DEF TypeOK, Crcs
    <3> QED
      BY <1>0, <2>1, <3>1, <3>2, CrcOfNothing, TokenAssumption
         DEF RomInv, TypeOK, TransferIsSound, UploadedIsSound, InTransfer
  <2>2. CASE ~(flash.magic /\ flash.size \in 1..MaxSize /\ flash.entry)
    BY <1>0, <1>1, <2>2, TokenAssumption
       DEF CheckFlash, BackToIdle, NoTransfer, lineVars,
           RomInv, TypeOK, TransferIsSound, UploadedIsSound, InTransfer
  <2> QED
    BY <2>1, <2>2
<1>2. CASE CopyFlash
  <2>1. /\ pc = "copy" /\ offset \in 0..MaxSize - 1 /\ offset < expectedSize
        /\ expectedSize \in 1..MaxSize /\ offset + 1 \in 1..MaxSize
    BY <1>0, <1>2, TokenAssumption DEF CopyFlash, TransferIsSound, InTransfer
  <2>2. FlashByte(offset + 1) \in Token
    BY <1>0, <2>1, FlashAssumption DEF FlashByte, TypeOK
  <2>3. /\ mem' \in [1..MaxSize -> Token]
        /\ Crc(Content(mem', offset + 1))
             = CrcByte(Crc(Content(mem, offset)), FlashByte(offset + 1))
    <3>1. mem \in [1..MaxSize -> Token]
      BY <1>0 DEF TypeOK
    <3>2. mem' = Written(mem, offset, FlashByte(offset + 1))
      BY <1>2 DEF CopyFlash, Written
    <3> QED
      BY <2>1, <2>2, <3>1, <3>2, CrcStep
  <2>4. actualCrc' = Crc(Content(mem', offset')) /\ offset' \in 0..expectedSize
    BY <1>0, <1>2, <2>1, <2>3, TokenAssumption DEF CopyFlash, TransferIsSound, InTransfer
  <2> QED
    BY <1>0, <1>2, <2>1, <2>3, <2>4
       DEF CopyFlash, lineVars, RomInv, TypeOK, TransferIsSound, UploadedIsSound, InTransfer
<1>3. CASE FinishFlash
  <2>1. /\ pc = "copy" /\ uploaded = 0 /\ offset = expectedSize /\ expectedSize \in 1..MaxSize
        /\ expectedCrc \in Crcs /\ actualCrc = Crc(Content(mem, expectedSize))
        /\ UNCHANGED <<mem, flash, rx>>
    BY <1>0, <1>3 DEF FinishFlash, TransferIsSound, UploadedIsSound, InTransfer, lineVars
  <2>2. CASE actualCrc = expectedCrc
    <3>1. Content(mem, expectedSize) \in Image
      BY <1>0, <2>1, <2>2, MatchIsImage DEF TypeOK
    <3> QED
      BY <1>0, <1>3, <2>1, <2>2, <3>1, TokenAssumption
         DEF FinishFlash, Run, NoTransfer,
             RomInv, TypeOK, TransferIsSound, UploadedIsSound, InTransfer
  <2>3. CASE actualCrc # expectedCrc
    BY <1>0, <1>3, <2>1, <2>3
       DEF FinishFlash, BackToIdle, NoTransfer,
           RomInv, TypeOK, TransferIsSound, UploadedIsSound, InTransfer
  <2> QED
    BY <2>2, <2>3
<1>4. CASE BeginUpload \/ GoCommand \/ FlashCommand \/ OtherCommand \/ ReadMagic \/ ReadSize
  <2>1. ~InTransfer /\ UNCHANGED <<mem, flash, uploaded>> /\ Receive
    BY <1>4 DEF BeginUpload, GoCommand, FlashCommand, OtherCommand, ReadMagic, ReadSize,
       InTransfer, romVars
  <2>2. /\ pc' \in {"flash", "idle", "magic", "size", "crc"} \/ (pc' = "app" /\ uploaded # 0)
        /\ andRun' \in BOOLEAN /\ offset' \in Nat /\ expectedSize' \in Nat
    BY <1>0, <1>4, <2>1, ReceivedFacts
       DEF BeginUpload, GoCommand, FlashCommand, OtherCommand, ReadMagic, ReadSize,
           Run, Fail, BackToIdle, NoTransfer, TypeOK, romVars
  <2> QED
    BY <2>1, <2>2, <1>0, ReceivedFacts, QuietStep
<1>5. CASE ReadCrc
  <2>1. /\ pc = "crc" /\ UNCHANGED <<mem, flash, uploaded>>
        /\ Received \in Token /\ rx' \in Seq(Token)
    BY <1>0, <1>5, ReceivedFacts DEF ReadCrc
  <2>2. CASE expectedSize \in 1..MaxSize
    <3>1. /\ pc' = "data" /\ expectedCrc' = Received /\ offset' = 0 /\ actualCrc' = CrcStart
          /\ UNCHANGED <<andRun, expectedSize>>
      BY <1>5, <2>2 DEF ReadCrc
    <3> QED
      BY <1>0, <2>1, <2>2, <3>1, CrcOfNothing, TokenAssumption
         DEF RomInv, TypeOK, TransferIsSound, UploadedIsSound, InTransfer, Crcs
  <2>3. CASE expectedSize \notin 1..MaxSize
    BY <1>0, <1>5, <2>1, <2>3, QuietStep
       DEF ReadCrc, Fail, BackToIdle, NoTransfer, InTransfer
  <2> QED
    BY <2>2, <2>3
<1>6. CASE ReadData
  <2>1. /\ pc = "data" /\ offset \in 0..MaxSize - 1 /\ offset < expectedSize
        /\ expectedSize \in 1..MaxSize /\ expectedCrc \in Crcs
        /\ Received \in Token /\ rx' \in Seq(Token)
        /\ mem' = [mem EXCEPT ![offset + 1] = Received] /\ UNCHANGED flash
    BY <1>0, <1>6, ReceivedFacts, TokenAssumption DEF ReadData, TransferIsSound, InTransfer
  <2>2. /\ mem' \in [1..MaxSize -> Token]
        /\ Crc(Content(mem', offset + 1)) = CrcByte(actualCrc, Received)
    <3>1. mem \in [1..MaxSize -> Token]
      BY <1>0 DEF TypeOK
    <3>2. actualCrc = Crc(Content(mem, offset))
      BY <1>0, <2>1 DEF TransferIsSound, InTransfer
    <3>3. mem' = Written(mem, offset, Received)
      BY <2>1 DEF Written
    <3>4. /\ Written(mem, offset, Received) \in [1..MaxSize -> Token]
          /\ Crc(Content(Written(mem, offset, Received), offset + 1))
               = CrcByte(Crc(Content(mem, offset)), Received)
      BY <2>1, <3>1, CrcStep
    <3> QED
      BY <3>2, <3>3, <3>4
  <2>3. CASE offset + 1 < expectedSize
    BY <1>0, <1>6, <2>1, <2>2, <2>3
       DEF ReadData, RomInv, TypeOK, TransferIsSound, UploadedIsSound, InTransfer
  <2>4. CASE ~(offset + 1 < expectedSize)
    <3>1. offset + 1 = expectedSize
      BY <2>1, <2>4, TokenAssumption
    <3>2. CASE CrcByte(actualCrc, Received) = expectedCrc
      <4>1. Content(mem', expectedSize) \in Image
        BY <2>1, <2>2, <3>1, <3>2, MatchIsImage
      <4>2. Good(Acknowledge(offset + 1))
        BY <1>6, <2>4, <3>2 DEF ReadData
      <4> QED
        BY <1>0, <2>1, <2>2, <4>1, <4>2, TokenAssumption
           DEF Good, Run, BackToIdle, NoTransfer,
               RomInv, TypeOK, TransferIsSound, UploadedIsSound, InTransfer
    <3>3. CASE CrcByte(actualCrc, Received) # expectedCrc
      <4>1. Bad(Acknowledge(offset + 1))
        BY <1>6, <2>4, <3>3 DEF ReadData
      <4> QED
        BY <1>0, <2>1, <2>2, <4>1, TokenAssumption
           DEF Bad, BackToIdle, NoTransfer,
               RomInv, TypeOK, TransferIsSound, UploadedIsSound, InTransfer
    <3> QED
      BY <3>2, <3>3
  <2> QED
    BY <2>3, <2>4
<1>7. CASE Reset
  BY <1>0, <1>7, TokenAssumption
     DEF Reset, PowerUp, NoTransfer, RomInv, TypeOK, TransferIsSound, UploadedIsSound, InTransfer
<1>8. CASE Environment \/ UNCHANGED vars
  BY <1>0, <1>8
     DEF Environment, vars, romVars, lineVars,
         RomInv, TypeOK, TransferIsSound, UploadedIsSound, InTransfer
<1> QED
  BY <1>1, <1>2, <1>3, <1>4, <1>5, <1>6, <1>7, <1>8 DEF Next, RomStep

\* The inductive invariant of the boot ROM, whatever arrives over the line.
THEOREM RomInvariance == Spec => []RomInv
BY InitRomInv, NextRomInv, PTL DEF Spec

\* Type correctness: in particular, uploaded_size never exceeds the memory.
THEOREM RomTypeCorrect == Spec => []TypeOK
<1>1. RomInv => TypeOK
  BY DEF RomInv
<1> QED
  BY <1>1, RomInvariance, PTL

\* What it says of the image at hand.
LEMMA RomInvRunnable == RomInv => RunnableIsVerified
<1> SUFFICES ASSUME RomInv PROVE RunnableIsVerified
  OBVIOUS
<1>1. uploaded # 0 => Content(mem, uploaded) # None
  BY ContentFacts DEF RomInv, TypeOK
<1> QED
  BY <1>1 DEF RomInv, UploadedIsSound, InTransfer, RunnableIsVerified, Runnable

\* Whatever the line brings and whenever the board is reset: an image that 'G'
\* would start, or that runs, is one somebody meant to load.
THEOREM OnlyVerifiedRuns == Spec => []RunnableIsVerified
BY RomInvariance, RomInvRunnable, PTL

-----------------------------------------------------------------------------
\* Every step of the ROM is a step of VerifiedImage, or none.
LEMMA StepKeepsPromise ==
  RomInv /\ RunnableIsVerified /\ RunnableIsVerified' /\ [Next]_vars
    => [Promise!Next]_(Promise!vars)
<1> SUFFICES ASSUME RomInv, RunnableIsVerified, RunnableIsVerified', [Next]_vars
             PROVE  [Promise!Next]_(Promise!vars)
  OBVIOUS
<1> USE DEF Promise!vars
<1>0. UploadedIsSound /\ RunnableIsVerified /\ RunnableIsVerified'
  BY DEF RomInv
<1>1. CASE CheckFlash
  <2>1. pc = "flash" /\ uploaded' = 0 /\ pc' \in {"copy", "idle"}
    BY <1>1 DEF CheckFlash, BackToIdle
  <2> QED
    BY <2>1 DEF Promise!Next, Promise!Drop, Runnable
<1>2. CASE CopyFlash
  BY <1>2 DEF CopyFlash, Runnable
<1>3. CASE FinishFlash
  <2>1. pc = "copy" /\ uploaded = 0 /\ pc' \in {"app", "idle"}
        /\ (pc' = "idle" => UNCHANGED uploaded)
    BY <1>0, <1>3 DEF FinishFlash, Run, BackToIdle, UploadedIsSound
  <2>2. CASE pc' = "app"
    BY <1>0, <2>1, <2>2 DEF Promise!Next, Promise!Load, RunnableIsVerified
  <2>3. CASE pc' = "idle"
    BY <2>1, <2>3 DEF Runnable
  <2> QED
    BY <2>1, <2>2, <2>3
<1>4. CASE BeginUpload \/ FlashCommand \/ OtherCommand \/ ReadMagic \/ ReadSize
  <2>1. /\ pc \notin {"copy", "data", "app"} /\ pc' \notin {"copy", "data", "app"}
        /\ UNCHANGED <<mem, uploaded>>
    BY <1>4 DEF BeginUpload, FlashCommand, OtherCommand, ReadMagic, ReadSize,
       Fail, BackToIdle, romVars
  <2> QED
    BY <2>1 DEF Runnable
<1>5. CASE GoCommand
  <2>1. /\ pc = "idle" /\ pc' \in {"idle", "app"} /\ UNCHANGED <<mem, uploaded>>
        /\ pc' = "app" => uploaded # 0
    BY <1>5 DEF GoCommand, Run, Fail, BackToIdle
  <2>2. Runnable' = Runnable
    BY <2>1 DEF Runnable
  <2>3. CASE pc' = "app"
    BY <1>0, <2>1, <2>2, <2>3 DEF Promise!Next, Promise!Start, RunnableIsVerified
  <2>4. CASE pc' = "idle"
    BY <2>1, <2>2, <2>4
  <2> QED
    BY <2>1, <2>3, <2>4
<1>6. CASE ReadCrc
  <2>1. pc = "crc" /\ pc' \in {"data", "idle"} /\ UNCHANGED <<mem, uploaded>>
    BY <1>6 DEF ReadCrc, Fail, BackToIdle
  <2>2. CASE pc' = "data"
    BY <2>1, <2>2 DEF Promise!Next, Promise!Drop, Runnable
  <2>3. CASE pc' = "idle"
    BY <2>1, <2>3 DEF Runnable
  <2> QED
    BY <2>1, <2>2, <2>3
<1>7. CASE ReadData
  <2>1. pc = "data" /\ Runnable = None
    BY <1>7 DEF ReadData, Runnable
  <2>2. CASE pc' = "data"
    BY <2>1, <2>2 DEF Runnable
  <2>3. CASE pc' # "data"
    <3>1. pc' \in {"app", "idle"}
      BY <1>7, <2>1, <2>3 DEF ReadData, Good, Bad, Run, BackToIdle
    <3>2. CASE Runnable' = None
      BY <1>0, <2>1, <3>1, <3>2 DEF RunnableIsVerified
    <3>3. CASE Runnable' # None
      BY <1>0, <2>1, <3>1, <3>3 DEF RunnableIsVerified, Promise!Next, Promise!Load
    <3> QED
      BY <3>2, <3>3
  <2> QED
    BY <2>2, <2>3
<1>8. CASE Reset
  BY <1>8 DEF Reset, PowerUp, Runnable, Promise!Next, Promise!Reset
<1>9. CASE Environment \/ UNCHANGED vars
  BY <1>9 DEF Environment, vars, romVars, Runnable
<1> QED
  BY <1>1, <1>2, <1>3, <1>4, <1>5, <1>6, <1>7, <1>8, <1>9 DEF Next, RomStep

\* The boot ROM implements the abstract loader: images become runnable whole,
\* do not change while they are, and what runs goes on until a reset.
THEOREM RomKeepsPromise == Spec => ImplementsVerifiedImage
<1>1. Init => Promise!Init
  BY DEF Init, Promise!Init, Runnable
<1> QED
  BY <1>1, RomInvariance, OnlyVerifiedRuns, StepKeepsPromise, PTL
     DEF Spec, ImplementsVerifiedImage, Promise!Spec

-----------------------------------------------------------------------------
(***************************************************************************)
(* The game.                                                               *)
(***************************************************************************)

\* The snake looks the way it moved last.
LooksAhead == game = "play" => body[1] = Toward(body[2], dir)

\* The registers have their types whatever the game does.
GameTyped ==
  /\ game \in {"off", "welcome", "play", "over", "halted"}
  /\ dir \in Direction
  /\ body \in Seq(Cell)

SnakeInv == GameTyped /\ BodyIsWhole /\ LooksAhead

-----------------------------------------------------------------------------
(***************************************************************************)
(* The field.                                                              *)
(***************************************************************************)

\* Two steps from a cell lead to different cells, and the opposite step leads
\* back.
LEMMA TowardFacts ==
  ASSUME NEW c \in Int \X Int, NEW d \in Direction
  PROVE  /\ Toward(c, d) \in Int \X Int /\ Toward(c, d) # c
         /\ Opposite[d] \in Direction /\ Toward(Toward(c, d), Opposite[d]) = c
         /\ \A e \in Direction : Toward(c, d) = Toward(c, e) => d = e
BY DEF Toward, Step, Opposite, Direction

\* Cells are pairs of integers.
LEMMA CellFacts == Cell \subseteq Int \X Int
BY GameAssumption DEF Cell

\* game_init() puts a whole snake into the middle of the field.
LEMMA FirstBodyFacts ==
  /\ FirstBody \in Seq(Cell) /\ Len(FirstBody) = InitLen
  /\ \A i, j \in 1..InitLen : FirstBody[i] = FirstBody[j] => i = j
  /\ \A i \in 1..InitLen - 1 : FirstBody[i] = Toward(FirstBody[i + 1], "D")
  /\ \A i \in 1..InitLen - 1 : FirstBody[i + 1] = Toward(FirstBody[i], "A")
<1>1. /\ InitLen \in Nat /\ Width \in Nat /\ Height \in Nat /\ InitLen > 1
      /\ Width > 0 /\ Height > 0 /\ InitLen <= Width \div 2 + 1
  BY GameAssumption
<1>2. \A i \in 1..InitLen : <<Width \div 2 - (i - 1), Height \div 2>> \in Cell
  BY <1>1 DEF Cell
<1>3. FirstBody \in [1..InitLen -> Cell]
  BY <1>2 DEF FirstBody
<1>4. FirstBody \in Seq(Cell) /\ Len(FirstBody) = InitLen
  BY <1>1, <1>3
<1>5. \A i \in 1..InitLen : FirstBody[i] = <<Width \div 2 - (i - 1), Height \div 2>>
  BY DEF FirstBody
<1>6. \A i, j \in 1..InitLen : FirstBody[i] = FirstBody[j] => i = j
  BY <1>1, <1>5
<1>7. ASSUME NEW i \in 1..InitLen - 1
      PROVE  /\ FirstBody[i] = Toward(FirstBody[i + 1], "D")
             /\ FirstBody[i + 1] = Toward(FirstBody[i], "A")
  <2>1. i \in 1..InitLen /\ i + 1 \in 1..InitLen
    BY <1>1
  <2> QED
    BY <1>1, <1>5, <2>1 DEF Toward, Step
<1> QED
  BY <1>4, <1>6, <1>7

-----------------------------------------------------------------------------
(***************************************************************************)
(* One move.                                                               *)
(***************************************************************************)

\* A sequence with one more element in front.
LEMMA FrontFacts ==
  ASSUME NEW c \in Cell, NEW s \in Seq(Cell)
  PROVE  /\ <<c>> \o s \in Seq(Cell) /\ Len(<<c>> \o s) = Len(s) + 1
         /\ (<<c>> \o s)[1] = c
         /\ \A i \in 2..Len(s) + 1 : (<<c>> \o s)[i] = s[i - 1]
<1>1. <<c>> \in Seq(Cell) /\ Len(<<c>>) = 1 /\ <<c>>[1] = c /\ Len(s) \in Nat
  OBVIOUS
<1> QED
  BY <1>1, ConcatProperties

\* The body after a move is the new head and the old body, without its last
\* cell unless it grows.
IsMoved(cell, next, n) ==
  /\ next \in Seq(Cell) /\ Len(next) = n
  /\ next[1] = cell
  /\ \A i \in 2..n : next[i] = body[i - 1]

\* A body that has grown, cell by cell.
LEMMA GrownFacts ==
  ASSUME body \in Seq(Cell), NEW cell \in Cell
  PROVE  IsMoved(cell, Moved(cell, TRUE), Len(body) + 1)
<1>1. PICK next : next = Moved(cell, TRUE)
  OBVIOUS
<1>2. next = <<cell>> \o body
  BY <1>1 DEF Moved
<1>3. /\ next \in Seq(Cell) /\ Len(next) = Len(body) + 1 /\ next[1] = cell
      /\ \A i \in 2..Len(body) + 1 : next[i] = body[i - 1]
  BY <1>2, FrontFacts
<1> QED
  BY <1>1, <1>3 DEF IsMoved

\* A body that has moved on, cell by cell.
LEMMA KeptFacts ==
  ASSUME body \in Seq(Cell), body # <<>>, NEW cell \in Cell
  PROVE  IsMoved(cell, Moved(cell, FALSE), Len(body))
<1>0. Len(body) \in Nat /\ Len(body) > 0
  BY EmptySeq
<1>1. PICK k : k = Len(body) - 1
  OBVIOUS
<1>2. k \in Nat /\ k + 1 = Len(body) /\ \A i \in 1..k : body[i] \in Cell
  BY <1>0, <1>1
<1>3. PICK front : front = SubSeq(body, 1, k)
  OBVIOUS
<1>4. front \in Seq(Cell) /\ Len(front) = k /\ \A i \in 1..k : front[i] = body[i]
  <2>1. 1 \in Int /\ k \in Int
    BY <1>2
  <2>2. /\ front \in Seq(Cell) /\ Len(front) = IF 1 <= k THEN k - 1 + 1 ELSE 0
        /\ \A i \in 1..k - 1 + 1 : front[i] = body[1 + i - 1]
    BY <1>2, <1>3, <2>1, SubSeqProperties
  <2>3. k - 1 + 1 = k /\ \A i \in 1..k : 1 + i - 1 = i
    BY <1>2
  <2>4. \A i \in 1..k : front[i] = body[i]
    BY <2>2, <2>3
  <2> QED
    BY <1>2, <2>2, <2>4
<1>5. Moved(cell, FALSE) = <<cell>> \o front
  BY <1>1, <1>3 DEF Moved
<1>6. /\ <<cell>> \o front \in Seq(Cell) /\ Len(<<cell>> \o front) = k + 1
      /\ (<<cell>> \o front)[1] = cell
      /\ \A i \in 2..k + 1 : (<<cell>> \o front)[i] = front[i - 1]
  BY <1>4, FrontFacts
<1>7. PICK next : next = Moved(cell, FALSE)
  OBVIOUS
<1>8. /\ next \in Seq(Cell) /\ Len(next) = Len(body) /\ next[1] = cell
      /\ \A i \in 2..Len(body) : next[i] = front[i - 1]
  BY <1>2, <1>5, <1>6, <1>7
<1>9. \A i \in 2..Len(body) : front[i - 1] = body[i - 1]
  BY <1>2, <1>4
<1> QED
  BY <1>7, <1>8, <1>9 DEF IsMoved

-----------------------------------------------------------------------------
\* No game, nothing to keep.
LEMMA SnakeInit == SnakeOff => SnakeInv
<1> SUFFICES ASSUME SnakeOff PROVE SnakeInv
  OBVIOUS
<1>1. game = "off" /\ dir = "D" /\ body = <<>>
  BY DEF SnakeOff
<1> QED
  BY <1>1 DEF SnakeInv, GameTyped, BodyIsWhole, Alive, LooksAhead, Direction

\* A new game begins with a whole snake and food beside it.
LEMMA GameInitFacts ==
  ASSUME GameInit PROVE SnakeInv'
<1>1. /\ game' = "play" /\ body' = FirstBody /\ dir' = "D"
      /\ food' \in Cell \ Covered(FirstBody)
  BY DEF GameInit, PlaceFood
<1>2. InitLen \in Nat /\ 1 < InitLen /\ InitLen <= MaxSnake /\ MaxSnake \in Nat
  BY GameAssumption
<1>3. GameTyped'
  BY <1>1, FirstBodyFacts DEF GameTyped, Direction
<1>4. LooksAhead'
  <2>1. 1 \in 1..InitLen - 1 /\ 1 + 1 = 2
    BY <1>2
  <2>2. FirstBody[1] = Toward(FirstBody[2], "D")
    BY <2>1, FirstBodyFacts
  <2> QED
    BY <1>1, <2>2 DEF LooksAhead, Toward
<1>5. BodyIsWhole'
  <2>1. Len(body') \in InitLen..MaxSnake
    BY <1>1, <1>2, FirstBodyFacts
  <2>2. Covered(body') \subseteq Cell
    BY <1>1, FirstBodyFacts DEF Covered
  <2>3. \A i, j \in 1..Len(body') : body'[i] = body'[j] => i = j
    BY <1>1, FirstBodyFacts
  <2>4. \A i \in 1..Len(body') - 1 : Adjacent(body'[i], body'[i + 1])
    BY <1>1, FirstBodyFacts DEF Adjacent, Direction
  <2>5. food' \in Cell \ Covered(body')
    BY <1>1
  <2> QED
    BY <2>1, <2>2, <2>3, <2>4, <2>5 DEF BodyIsWhole
<1> QED
  BY <1>3, <1>4, <1>5 DEF SnakeInv

\* A move onto a free cell keeps the body whole: the tail, which the collision
\* check passes over, has moved on, or the snake has eaten, and the food is
\* never on the body.
LEMMA MoveFacts ==
  ASSUME GameTyped, BodyIsWhole, game = "play",
         NEW d \in Direction, NEW cell, cell = Toward(Head(body), d), ~Hits(cell),
         NEW next,
         NEW n, IsMoved(cell, next, n),
         n = Len(body) \/ (n = Len(body) + 1 /\ cell = food /\ Len(body) < MaxSnake)
  PROVE  /\ Len(next) \in InitLen..MaxSnake
         /\ Covered(next) \subseteq Cell
         /\ \A i, j \in 1..Len(next) : next[i] = next[j] => i = j
         /\ \A i \in 1..Len(next) - 1 : Adjacent(next[i], next[i + 1])
         /\ Covered(next) \subseteq Covered(body) \cup {cell}
         /\ next[1] = cell /\ next[2] = body[1]
<1>1. /\ InitLen \in Nat /\ MaxSnake \in Nat /\ 1 < InitLen
      /\ body \in Seq(Cell) /\ Len(body) \in InitLen..MaxSnake
      /\ \A i, j \in 1..Len(body) : body[i] = body[j] => i = j
      /\ \A i \in 1..Len(body) - 1 : Adjacent(body[i], body[i + 1])
      /\ food \notin Covered(body)
  BY GameAssumption DEF GameTyped, BodyIsWhole, Alive
<1>2. /\ cell \in Cell /\ \A i \in 1..Len(body) - 1 : body[i] # cell
  BY DEF Hits
<1>3. /\ next \in Seq(Cell) /\ Len(next) = n /\ next[1] = cell
      /\ \A i \in 2..n : next[i] = body[i - 1]
  BY DEF IsMoved
<1>4. n \in Nat /\ n \in InitLen..MaxSnake /\ n <= Len(body) + 1
  BY <1>1
<1>5. \A i \in 2..n : i - 1 \in 1..Len(body) /\ next[i] # cell
  <2>1. ASSUME NEW i \in 2..n PROVE i - 1 \in 1..Len(body) /\ next[i] # cell
    <3>1. i - 1 \in 1..Len(body)
      BY <1>1, <1>4
    <3>2. CASE i - 1 \in 1..Len(body) - 1
      BY <1>2, <1>3, <3>1, <3>2
    <3>3. CASE i - 1 \notin 1..Len(body) - 1
      <4>1. cell = food
        BY <1>1, <1>4, <3>1, <3>3
      <4>2. body[i - 1] \in Covered(body)
        BY <3>1 DEF Covered
      <4> QED
        BY <1>1, <1>3, <3>1, <4>1, <4>2
    <3> QED
      BY <3>1, <3>2, <3>3
  <2> QED
    BY <2>1
<1>6. \A i, j \in 1..Len(next) : next[i] = next[j] => i = j
  <2>1. ASSUME NEW i \in 1..n, NEW j \in 1..n, next[i] = next[j] PROVE i = j
    <3>1. CASE i = 1 \/ j = 1
      BY <1>3, <1>4, <1>5, <2>1, <3>1
    <3>2. CASE i # 1 /\ j # 1
      <4>1. /\ i \in 2..n /\ j \in 2..n
            /\ i - 1 \in 1..Len(body) /\ j - 1 \in 1..Len(body)
        BY <1>4, <1>5, <3>2
      <4>2. body[i - 1] = body[j - 1]
        BY <1>3, <2>1, <4>1
      <4>3. i - 1 = j - 1
        BY <1>1, <4>1, <4>2
      <4> QED
        BY <4>1, <4>3
    <3> QED
      BY <3>1, <3>2
  <2> QED
    BY <1>3, <2>1
<1>7. \A i \in 1..Len(next) - 1 : Adjacent(next[i], next[i + 1])
  <2>1. ASSUME NEW i \in 1..n - 1 PROVE Adjacent(next[i], next[i + 1])
    <3>1. i + 1 \in 2..n /\ (i + 1) - 1 = i /\ next[i + 1] = body[i]
      BY <1>3, <1>4
    <3>2. CASE i = 1
      <4>1. body[1] \in Int \X Int /\ Head(body) = body[1]
        BY <1>1, CellFacts
      <4>2. Opposite[d] \in Direction /\ body[1] = Toward(cell, Opposite[d])
        BY <4>1, TowardFacts
      <4> QED
        BY <1>3, <3>1, <3>2, <4>2 DEF Adjacent
    <3>3. CASE i # 1
      <4>1. i \in 2..n /\ i - 1 \in 1..Len(body) - 1 /\ (i - 1) + 1 = i
        BY <1>1, <1>4, <3>3
      <4>2. next[i] = body[i - 1] /\ Adjacent(body[i - 1], body[(i - 1) + 1])
        BY <1>1, <1>3, <4>1
      <4> QED
        BY <3>1, <4>1, <4>2
    <3> QED
      BY <3>2, <3>3
  <2> QED
    BY <1>3, <2>1
<1>8. Covered(next) \subseteq Covered(body) \cup {cell} /\ Covered(next) \subseteq Cell
  <2>1. ASSUME NEW i \in 1..n
        PROVE  next[i] \in Covered(body) \cup {cell} /\ next[i] \in Cell
    <3>1. CASE i = 1
      BY <1>2, <1>3, <3>1
    <3>2. CASE i # 1
      <4>1. i \in 2..n
        BY <1>4, <3>2
      <4>2. next[i] = body[i - 1] /\ i - 1 \in 1..Len(body)
        BY <1>3, <1>5, <4>1
      <4>3. body[i - 1] \in Cell /\ body[i - 1] \in Covered(body)
        BY <1>1, <4>2 DEF Covered
      <4> QED
        BY <4>2, <4>3
    <3> QED
      BY <3>1, <3>2
  <2> QED
    BY <1>3, <2>1 DEF Covered
<1>9. next[2] = body[1]
  BY <1>1, <1>3, <1>4
<1> QED
  BY <1>3, <1>4, <1>6, <1>7, <1>8, <1>9

-----------------------------------------------------------------------------
\* A tick keeps the invariant, whatever key has come.
LEMMA TickStep ==
  ASSUME SnakeInv, NEW key \in Key \cup {"none"}, Tick(key)
  PROVE  SnakeInv'
<1>1. game = "play" /\ dir' = Steered(key) /\ GameTyped /\ BodyIsWhole
  BY DEF SnakeInv, Tick
<1>2. dir' \in Direction
  BY <1>1 DEF Steered, GameTyped
<1>3. PICK cell : cell = Toward(Head(body), dir')
  OBVIOUS
<1>4. CASE Hits(cell)
  <2>1. game' = "over" /\ UNCHANGED <<body, food>>
    BY <1>3, <1>4 DEF Tick
  <2> QED
    BY <1>1, <1>2, <2>1 DEF SnakeInv, GameTyped, BodyIsWhole, Alive, LooksAhead, Covered
<1>5. CASE ~Hits(cell)
  <2>1. PICK next : next = body'
    OBVIOUS
  <2>2. /\ game' \in {"play", "over"}
        /\ next = Moved(cell, cell = food /\ Len(body) < MaxSnake)
        /\ cell = food => food' \in Cell \ Covered(next)
        /\ cell # food => food' = food
    BY <1>3, <1>5, <2>1 DEF Tick, PlaceFood
  <2>3. body \in Seq(Cell) /\ body # <<>> /\ cell \in Cell /\ Len(body) \in Nat
        /\ Len(body) \in InitLen..MaxSnake /\ food \in Cell \ Covered(body)
    BY <1>1, <1>5, GameAssumption DEF Hits, GameTyped, BodyIsWhole, Alive
  <2>4. PICK n : /\ IsMoved(cell, next, n)
                 /\ \/ n = Len(body)
                    \/ n = Len(body) + 1 /\ cell = food /\ Len(body) < MaxSnake
    <3>1. CASE cell = food /\ Len(body) < MaxSnake
      <4>1. (cell = food /\ Len(body) < MaxSnake) = TRUE
        BY <3>1
      <4>2. next = Moved(cell, TRUE)
        BY <2>2, <4>1, Zenon
      <4> QED
        BY <2>3, <3>1, <4>2, GrownFacts
    <3>2. CASE ~(cell = food /\ Len(body) < MaxSnake)
      <4>1. (cell = food /\ Len(body) < MaxSnake) = FALSE
        BY <3>2
      <4>2. next = Moved(cell, FALSE)
        BY <2>2, <4>1, Zenon
      <4> QED
        BY <2>3, <4>2, KeptFacts
    <3> QED
      BY <3>1, <3>2
  <2>5. /\ Len(next) \in InitLen..MaxSnake /\ Covered(next) \subseteq Cell
        /\ \A i, j \in 1..Len(next) : next[i] = next[j] => i = j
        /\ \A i \in 1..Len(next) - 1 : Adjacent(next[i], next[i + 1])
        /\ Covered(next) \subseteq Covered(body) \cup {cell}
        /\ next[1] = cell /\ next[2] = body[1]
    BY <1>1, <1>2, <1>3, <1>5, <2>4, MoveFacts
  <2>6. food' \in Cell \ Covered(next)
    BY <2>2, <2>3, <2>5
  <2>7. next \in Seq(Cell)
    BY <2>4 DEF IsMoved
  <2>8. Head(body) = body[1]
    BY <2>3
  <2>9. next[1] = Toward(next[2], dir')
    BY <1>3, <2>5, <2>8
  <2>10. GameTyped'
    BY <1>2, <2>1, <2>2, <2>7 DEF GameTyped
  <2>11. BodyIsWhole'
    BY <2>1, <2>5, <2>6 DEF BodyIsWhole
  <2>12. LooksAhead'
    BY <2>1, <2>9 DEF LooksAhead, Toward
  <2> QED
    BY <2>10, <2>11, <2>12 DEF SnakeInv
<1> QED
  BY <1>4, <1>5

\* Every step of the game keeps the body whole.
LEMMA SnakeStep == SnakeInv /\ [Welcome \/ GameStep \/ Off]_snakeVars => SnakeInv'
<1> SUFFICES ASSUME SnakeInv, [Welcome \/ GameStep \/ Off]_snakeVars PROVE SnakeInv'
  OBVIOUS
<1>1. CASE Welcome
  BY <1>1 DEF Welcome, SnakeInv, GameTyped, BodyIsWhole, Alive, LooksAhead
<1>2. CASE StartGame
  BY <1>2, GameInitFacts DEF StartGame
<1>3. ASSUME NEW key \in Key, AnswerOver(key) PROVE SnakeInv'
  <2>1. GameInit \/ (game' = "halted" /\ game = "over" /\ UNCHANGED <<body, dir, food, screen, fedAtMax>>)
        \/ UNCHANGED snakeVars
    BY <1>3 DEF AnswerOver
  <2>2. CASE GameInit
    BY <2>2, GameInitFacts
  <2>3. CASE game' = "halted" /\ game = "over" /\ UNCHANGED <<body, dir, food, screen, fedAtMax>>
    BY <2>3 DEF SnakeInv, GameTyped, BodyIsWhole, Alive, LooksAhead, Covered
  <2>4. CASE UNCHANGED snakeVars
    BY <2>4 DEF snakeVars, SnakeInv, GameTyped, BodyIsWhole, Alive, LooksAhead, Covered
  <2> QED
    BY <2>1, <2>2, <2>3, <2>4
<1>4. ASSUME NEW key \in Key \cup {"none"}, Tick(key) PROVE SnakeInv'
  BY <1>4, TickStep
<1>5. CASE Off
  BY <1>5 DEF Off, SnakeInv, GameTyped, BodyIsWhole, Alive, LooksAhead, Direction
<1>6. CASE UNCHANGED snakeVars
  BY <1>6 DEF snakeVars, SnakeInv, GameTyped, BodyIsWhole, Alive, LooksAhead, Covered
<1> QED
  BY <1>1, <1>2, <1>3, <1>4, <1>5, <1>6 DEF GameStep

\* The inductive invariant of the game, for any field, any greatest length
\* and any sequence of keys.
THEOREM SnakeInvariance == SnakeSpec => []SnakeInv
BY SnakeInit, SnakeStep, PTL DEF SnakeSpec

\* The body stays whole, in the field and off the food, for every field and
\* every sequence of keys.
THEOREM BodyStaysWhole == SnakeSpec => []BodyIsWhole
<1>1. SnakeInv => BodyIsWhole
  BY DEF SnakeInv
<1> QED
  BY <1>1, SnakeInvariance, PTL

\* A step that ends the game in a collision does not end it in the neck: the
\* snake looks away from it, and the opposite key is ignored.
LEMMA NeckStep ==
  SnakeInv /\ [Welcome \/ GameStep \/ Off]_snakeVars =>
    [game = "play" /\ game' = "over" /\ UNCHANGED body
       => Toward(Head(body), dir') # body[2]]_snakeVars
<1> SUFFICES ASSUME SnakeInv, [Welcome \/ GameStep \/ Off]_snakeVars,
                    game = "play", game' = "over"
             PROVE  Toward(Head(body), dir') # body[2]
  OBVIOUS
<1>1. PICK key \in Key \cup {"none"} : Tick(key)
  BY DEF Welcome, GameStep, StartGame, GameInit, AnswerOver, Off, snakeVars
<1>2. /\ dir \in Direction /\ dir' = Steered(key) /\ body[1] = Toward(body[2], dir)
      /\ body \in Seq(Cell) /\ Len(body) \in InitLen..MaxSnake
  BY <1>1 DEF SnakeInv, GameTyped, BodyIsWhole, Alive, LooksAhead, Tick
<1>3. /\ Head(body) = body[1] /\ body[1] \in Cell /\ body[2] \in Cell
      /\ body[1] \in Int \X Int /\ body[2] \in Int \X Int
  <2>1. Len(body) \in Nat /\ Len(body) >= 2
    BY <1>2, GameAssumption
  <2>2. body[1] \in Cell /\ body[2] \in Cell
    BY <1>2, <2>1
  <2>3. Head(body) = body[1]
    BY <1>2, <2>1
  <2> QED
    BY <2>2, <2>3, CellFacts
<1>4. dir' \in Direction /\ dir' # Opposite[dir]
  BY <1>2 DEF Steered, Direction, Opposite
<1>5. Opposite[dir] \in Direction /\ Toward(body[1], Opposite[dir]) = body[2]
  BY <1>2, <1>3, TowardFacts
<1>6. Toward(body[1], dir') # Toward(body[1], Opposite[dir])
  BY <1>3, <1>4, <1>5, TowardFacts
<1> QED
  BY <1>3, <1>5, <1>6

\* Turning around is never fatal.
THEOREM NeckStaysSafe == SnakeSpec => NeckIsSafe
BY SnakeInvariance, NeckStep, PTL DEF SnakeSpec, NeckIsSafe

-----------------------------------------------------------------------------
(***************************************************************************)
(* The picture.                                                            *)
(***************************************************************************)
Char == {" ", "@", "o", "*"}

\* What a cell of the picture shows.
Shown(b, f, c) ==
  /\ c = b[1] => Picture(b, f)[c] = "@"
  /\ c # b[1] /\ (\E i \in 2..Len(b) : b[i] = c) => Picture(b, f)[c] = "o"
  /\ c # b[1] /\ ~(\E i \in 2..Len(b) : b[i] = c) =>
       Picture(b, f)[c] = IF c = f THEN "*" ELSE " "

\* What is drawn where.
LEMMA PictureFacts ==
  ASSUME NEW b \in Seq(Cell), b # <<>>, NEW f
  PROVE  /\ Picture(b, f) \in [Cell -> Char]
         /\ \A c \in Cell : Shown(b, f, c)
<1>1. Picture(b, f) \in [Cell -> Char]
  BY DEF Picture, Char
<1>2. ASSUME NEW c \in Cell PROVE Shown(b, f, c)
  <2>1. Head(b) = b[1] /\ Len(b) \in Nat /\ Len(b) > 0
    BY EmptySeq
  <2>2. Len(Tail(b)) = Len(b) - 1 /\ \A i \in 1..Len(b) - 1 : Tail(b)[i] = b[i + 1]
    BY <2>1
  <2>3. c \in Covered(Tail(b)) <=> \E i \in 2..Len(b) : b[i] = c
    <3>1. ASSUME NEW i \in 1..Len(b) - 1, Tail(b)[i] = c
          PROVE  \E j \in 2..Len(b) : b[j] = c
      <4>1. i + 1 \in 2..Len(b) /\ b[i + 1] = c
        BY <2>1, <2>2, <3>1
      <4> QED
        BY <4>1
    <3>2. ASSUME NEW i \in 2..Len(b), b[i] = c
          PROVE  \E j \in 1..Len(b) - 1 : Tail(b)[j] = c
      <4>1. i - 1 \in 1..Len(b) - 1 /\ (i - 1) + 1 = i
        BY <2>1
      <4> QED
        BY <2>2, <3>2, <4>1
    <3> QED
      BY <2>2, <3>1, <3>2 DEF Covered
  <2>4. /\ c = b[1] => Picture(b, f)[c] = "@"
        /\ c # b[1] /\ c \in Covered(Tail(b)) => Picture(b, f)[c] = "o"
        /\ c # b[1] /\ c \notin Covered(Tail(b)) =>
             Picture(b, f)[c] = IF c = f THEN "*" ELSE " "
    BY <2>1 DEF Picture
  <2> QED
    BY <2>3, <2>4, Zenon DEF Shown
<1> QED
  BY <1>1, <1>2

ScreenIsTrue ==
  /\ screen \in [Cell -> Char]
  /\ ScreenShowsGame

\* A move from the body to the body next with the food at f, and what the
\* screen shows after it.
IsRepair(cell, next, f, after) ==
  /\ cell \in Cell /\ ~Hits(cell) /\ f \in Cell
  /\ \/ /\ cell = food /\ f \notin Covered(next)
        /\ IsMoved(cell, next, Len(body) + 1)
     \/ cell # food /\ f = food /\ IsMoved(cell, next, Len(body))
  /\ after \in [Cell -> Char]
  /\ cell = food => after = [Redrawn(cell, TRUE) EXCEPT ![f] = "*"]
  /\ cell # food => after = Redrawn(cell, FALSE)

\* The picture is repaired: cell by cell it shows the body that has moved.
LEMMA RepairFacts ==
  ASSUME SnakeInv, game = "play", screen \in [Cell -> Char], screen = Picture(body, food),
         NEW cell, NEW next, NEW f, NEW after, IsRepair(cell, next, f, after)
  PROVE  after = Picture(next, f)
<1>1. /\ body \in Seq(Cell) /\ Len(body) \in Nat /\ Len(body) > 1 /\ body # <<>>
      /\ Head(body) = body[1] /\ cell \in Cell
      /\ \A i \in 1..Len(body) : body[i] \in Cell
      /\ \A i, j \in 1..Len(body) : body[i] = body[j] => i = j
      /\ food \in Cell /\ food \notin Covered(body)
      /\ \A i \in 1..Len(body) - 1 : body[i] # cell
  BY GameAssumption DEF SnakeInv, GameTyped, BodyIsWhole, Alive, Hits, IsRepair
<1>2. /\ next \in Seq(Cell) /\ next[1] = cell /\ Len(next) \in Nat /\ Len(next) > 1
      /\ \A i \in 2..Len(next) : next[i] = body[i - 1]
      /\ Len(next) = IF cell = food THEN Len(body) + 1 ELSE Len(body)
  BY <1>1 DEF IsMoved, IsRepair
<1>3. \A i \in 1..Len(body) : body[i] # food
  BY <1>1 DEF Covered
<1>0. next # <<>>
  BY <1>2
<1>4. ASSUME NEW c \in Cell PROVE after[c] = Picture(next, f)[c]
  <2>1. Shown(body, food, c) /\ Shown(next, f, c)
    <3>1. Shown(body, food, c)
      BY <1>1, PictureFacts
    <3>2. Shown(next, f, c)
      BY <1>0, <1>2, PictureFacts
    <3> QED
      BY <3>1, <3>2
  <2>2. ASSUME NEW i \in 2..Len(next)
        PROVE  i - 1 \in 1..Len(body) /\ next[i] = body[i - 1]
               /\ (cell # food => i - 1 < Len(body))
    BY <1>1, <1>2
  <2>3. ASSUME NEW i \in 1..Len(body), i < Len(body) \/ cell = food
        PROVE  i + 1 \in 2..Len(next) /\ next[i + 1] = body[i]
    <3>1. i + 1 \in 2..Len(next) /\ (i + 1) - 1 = i
      BY <1>1, <1>2, <2>3
    <3> QED
      BY <1>2, <3>1
  <2>4. CASE cell = food
    <3>1. after[c] = IF c = f THEN "*" ELSE IF c = body[1] THEN "o"
                     ELSE IF c = cell THEN "@" ELSE screen[c]
      BY <1>1, <2>4 DEF Redrawn, IsRepair
    <3>2. f # cell /\ \A i \in 2..Len(next) : next[i] # f
      BY <1>2, <2>4 DEF Covered, IsRepair
    <3>3. CASE c = f
      BY <1>2, <2>1, <3>1, <3>2, <3>3 DEF Shown
    <3>4. CASE c # f /\ c = body[1]
      <4>1. 1 \in 1..Len(body) /\ body[1] # cell
        BY <1>1
      <4>2. 1 + 1 \in 2..Len(next) /\ next[1 + 1] = c
        BY <2>3, <2>4, <3>4, <4>1
      <4> QED
        BY <1>2, <2>1, <3>1, <3>4, <4>1, <4>2 DEF Shown
    <3>5. CASE c # f /\ c # body[1] /\ c = cell
      BY <1>2, <2>1, <3>1, <3>5 DEF Shown
    <3>6. CASE c # f /\ c # body[1] /\ c # cell
      <4>1. (\E i \in 2..Len(body) : body[i] = c) <=> (\E i \in 2..Len(next) : next[i] = c)
        <5>1. ASSUME NEW i \in 2..Len(body), body[i] = c
              PROVE  \E j \in 2..Len(next) : next[j] = c
          <6>1. i \in 1..Len(body)
            BY <1>1
          <6> QED
            BY <2>3, <2>4, <5>1, <6>1
        <5>2. ASSUME NEW i \in 2..Len(next), next[i] = c
              PROVE  \E j \in 2..Len(body) : body[j] = c
          <6>1. i - 1 \in 1..Len(body) /\ body[i - 1] = c
            BY <2>2, <5>2
          <6>2. i - 1 \in 2..Len(body)
            BY <1>1, <3>6, <6>1
          <6> QED
            BY <6>1, <6>2
        <5> QED
          BY <5>1, <5>2
      <4> QED
        BY <1>1, <1>2, <2>1, <2>4, <3>1, <3>6, <4>1 DEF Shown
    <3> QED
      BY <3>3, <3>4, <3>5, <3>6
  <2>5. CASE cell # food
    <3>1. after[c] = IF c = body[1] THEN "o" ELSE IF c = cell THEN "@"
                     ELSE IF c = body[Len(body)] THEN " " ELSE screen[c]
      BY <1>1, <2>5 DEF Redrawn, IsRepair
    <3>2. f = food
      BY <2>5 DEF IsRepair
    <3>3. CASE c = body[1]
      <4>1. 1 \in 1..Len(body) /\ 1 < Len(body) /\ body[1] # cell
        BY <1>1
      <4>2. 1 + 1 \in 2..Len(next) /\ next[1 + 1] = c
        BY <2>3, <3>3, <4>1
      <4> QED
        BY <1>2, <2>1, <3>1, <3>3, <4>1, <4>2 DEF Shown
    <3>4. CASE c # body[1] /\ c = cell
      BY <1>2, <2>1, <3>1, <3>4 DEF Shown
    <3>5. CASE c # body[1] /\ c # cell /\ c = body[Len(body)]
      <4>1. ASSUME NEW i \in 2..Len(next) PROVE next[i] # c
        <5>1. i - 1 \in 1..Len(body) /\ i - 1 < Len(body) /\ next[i] = body[i - 1]
          BY <2>2, <2>5
        <5>2. Len(body) \in 1..Len(body)
          BY <1>1
        <5> QED
          BY <1>1, <3>5, <5>1, <5>2
      <4>2. Len(body) \in 1..Len(body) /\ c # f
        BY <1>1, <1>3, <3>2, <3>5
      <4> QED
        BY <1>2, <2>1, <3>1, <3>5, <4>1, <4>2 DEF Shown
    <3>6. CASE c # body[1] /\ c # cell /\ c # body[Len(body)]
      <4>1. (\E i \in 2..Len(body) : body[i] = c) <=> (\E i \in 2..Len(next) : next[i] = c)
        <5>1. ASSUME NEW i \in 2..Len(body), body[i] = c
              PROVE  \E j \in 2..Len(next) : next[j] = c
          <6>1. i \in 1..Len(body) /\ i < Len(body)
            BY <1>1, <3>6, <5>1
          <6> QED
            BY <2>3, <5>1, <6>1
        <5>2. ASSUME NEW i \in 2..Len(next), next[i] = c
              PROVE  \E j \in 2..Len(body) : body[j] = c
          <6>1. i - 1 \in 1..Len(body) /\ body[i - 1] = c
            BY <2>2, <5>2
          <6>2. i - 1 \in 2..Len(body)
            BY <1>1, <3>6, <6>1
          <6> QED
            BY <6>1, <6>2
        <5> QED
          BY <5>1, <5>2
      <4> QED
        BY <1>1, <1>2, <2>1, <3>1, <3>2, <3>6, <4>1 DEF Shown
    <3> QED
      BY <3>3, <3>4, <3>5, <3>6
  <2> QED
    BY <2>4, <2>5
<1>5. Picture(next, f) \in [Cell -> Char]
  BY <1>0, <1>2, PictureFacts
<1>6. after = [c \in Cell |-> after[c]]
  BY DEF IsRepair
<1>7. Picture(next, f) = [c \in Cell |-> Picture(next, f)[c]]
  BY <1>5
<1> QED
  BY <1>4, <1>6, <1>7, Zenon

\* No game, no picture.
LEMMA PictureInit == SnakeOff => ScreenIsTrue
BY DEF SnakeOff, ScreenIsTrue, ScreenShowsGame, Blank, Char

\* The first picture shows the whole of the first body.
LEMMA GameInitPicture ==
  ASSUME GameInit PROVE ScreenIsTrue'
<1>1. /\ body' = FirstBody /\ screen' = Picture(FirstBody, food')
  BY DEF GameInit
<1>2. FirstBody \in Seq(Cell) /\ FirstBody # <<>>
  BY FirstBodyFacts, GameAssumption
<1>3. screen' \in [Cell -> Char]
  BY <1>1, <1>2, PictureFacts
<1> QED
  BY <1>1, <1>3 DEF ScreenIsTrue, ScreenShowsGame, Picture

\* The cells redrawn in a tick are all that have changed.
LEMMA TickPicture ==
  ASSUME SnakeInv, SnakeInv', ScreenIsTrue, NEW key \in Key \cup {"none"}, Tick(key)
  PROVE  ScreenIsTrue'
<1>1. PICK cell : cell = Toward(Head(body), dir')
  OBVIOUS
<1>2. game = "play" /\ dir' \in Direction
  BY DEF Tick, SnakeInv, GameTyped
<1>3. CASE Hits(cell)
  <2>1. game' = "over" /\ UNCHANGED screen
    BY <1>1, <1>3 DEF Tick
  <2> QED
    BY <2>1 DEF ScreenIsTrue, ScreenShowsGame
<1>4. CASE ~Hits(cell)
  <2>1. PICK next, f, after : next = body' /\ f = food' /\ after = screen'
    OBVIOUS
  <2>2. /\ next = Moved(cell, cell = food /\ Len(body) < MaxSnake)
        /\ cell = food => f \in Cell \ Covered(next)
        /\ cell # food => f = food
        /\ cell = food /\ Len(body) = MaxSnake => fedAtMax'
        /\ fedAtMax => fedAtMax'
    BY <1>1, <1>4, <2>1 DEF Tick, PlaceFood
  <2>3. /\ cell = food => after = [Redrawn(cell, TRUE) EXCEPT ![f] = "*"]
        /\ cell # food => after = Redrawn(cell, FALSE)
    BY <1>1, <1>4, <2>1 DEF Tick, Redrawn
  <2>4. /\ body \in Seq(Cell) /\ body # <<>> /\ cell \in Cell /\ Len(body) \in Nat
        /\ MaxSnake \in Nat /\ Len(body) <= MaxSnake /\ food \in Cell
    BY <1>2, <1>4, GameAssumption DEF Hits, SnakeInv, GameTyped, BodyIsWhole, Alive
  <2>5. after \in [Cell -> Char]
    BY <2>2, <2>3, <2>4 DEF ScreenIsTrue, Redrawn, Char
  <2>6. ASSUME ~fedAtMax' PROVE after = Picture(next, f)
    <3>1. screen \in [Cell -> Char] /\ screen = Picture(body, food)
      BY <1>2, <2>2, <2>6 DEF ScreenIsTrue, ScreenShowsGame
    <3>2. CASE cell = food
      <4>1. Len(body) < MaxSnake
        BY <2>2, <2>4, <2>6, <3>2
      <4>2. (cell = food /\ Len(body) < MaxSnake) = TRUE
        BY <3>2, <4>1
      <4>3. next = Moved(cell, TRUE)
        BY <2>2, <4>2, Zenon
      <4>4. IsMoved(cell, next, Len(body) + 1)
        BY <2>4, <4>3, GrownFacts
      <4>5. IsRepair(cell, next, f, after)
        BY <1>4, <2>2, <2>3, <2>4, <2>5, <3>2, <4>4 DEF IsRepair
      <4> QED
        BY <1>2, <3>1, <4>5, RepairFacts
    <3>3. CASE cell # food
      <4>1. (cell = food /\ Len(body) < MaxSnake) = FALSE
        BY <3>3
      <4>2. next = Moved(cell, FALSE)
        BY <2>2, <4>1, Zenon
      <4>3. IsMoved(cell, next, Len(body))
        BY <2>4, <4>2, KeptFacts
      <4>4. IsRepair(cell, next, f, after)
        BY <1>4, <2>2, <2>3, <2>4, <2>5, <3>3, <4>3 DEF IsRepair
      <4> QED
        BY <1>2, <3>1, <4>4, RepairFacts
    <3> QED
      BY <3>2, <3>3
  <2> QED
    BY <2>1, <2>5, <2>6 DEF ScreenIsTrue, ScreenShowsGame, Picture
<1> QED
  BY <1>3, <1>4

\* Every step of the game keeps the picture true.
LEMMA PictureStep ==
  SnakeInv /\ SnakeInv' /\ ScreenIsTrue /\ [Welcome \/ GameStep \/ Off]_snakeVars => ScreenIsTrue'
<1> SUFFICES ASSUME SnakeInv, SnakeInv', ScreenIsTrue, [Welcome \/ GameStep \/ Off]_snakeVars
             PROVE  ScreenIsTrue'
  OBVIOUS
<1>1. CASE Welcome
  BY <1>1 DEF Welcome, ScreenIsTrue, ScreenShowsGame
<1>2. CASE StartGame
  BY <1>2, GameInitPicture DEF StartGame
<1>3. ASSUME NEW key \in Key, AnswerOver(key) PROVE ScreenIsTrue'
  <2>1. GameInit \/ (game' \in {"over", "halted"} /\ UNCHANGED screen)
    BY <1>3 DEF AnswerOver, snakeVars
  <2>2. CASE GameInit
    BY <2>2, GameInitPicture
  <2>3. CASE game' \in {"over", "halted"} /\ UNCHANGED screen
    BY <2>3 DEF ScreenIsTrue, ScreenShowsGame
  <2> QED
    BY <2>1, <2>2, <2>3
<1>4. ASSUME NEW key \in Key \cup {"none"}, Tick(key) PROVE ScreenIsTrue'
  BY <1>4, TickPicture
<1>5. CASE Off
  BY <1>5 DEF Off, ScreenIsTrue, ScreenShowsGame, Blank, Char
<1>6. CASE UNCHANGED snakeVars
  BY <1>6 DEF snakeVars, ScreenIsTrue, ScreenShowsGame, Picture
<1> QED
  BY <1>1, <1>2, <1>3, <1>4, <1>5, <1>6 DEF GameStep

\* The cells that are repaired one by one show the game, as long as no food was
\* eaten at the greatest length.
THEOREM ScreenStaysTrue == SnakeSpec => []ScreenShowsGame
<1>1. ScreenIsTrue => ScreenShowsGame
  BY DEF ScreenIsTrue
<1> QED
  BY <1>1, SnakeInvariance, PictureInit, PictureStep, PTL DEF SnakeSpec

-----------------------------------------------------------------------------
(***************************************************************************)
(* The uploader's script.                                                  *)
(***************************************************************************)
Total(j) == Len(j.image)

\* The steps of the payload, and how many of its tokens are sent before step i.
PayloadSteps(j) == Total(j) + (Total(j) + Block - 1) \div Block
SentBefore(i) == i - 1 - (i - 1) \div (Block + 1)
Last(j) == 7 + PayloadSteps(j)

\* The tokens of the header and of the payload have places: -2, -1 and 0, and
\* the payload from 1.  What is sent for each, and how far the script has come
\* before its step `at`.
Stream(j, i) ==
  CASE i = -2 -> Magic [] i = -1 -> Total(j) [] i = 0 -> Crc(j.image) [] OTHER -> j.image[i]
SentAt(j, at) ==
  IF at <= 6 THEN at - 6
  ELSE IF at <= 6 + PayloadSteps(j) THEN SentBefore(at - 6) ELSE Total(j)

Word == {"READY", "HEADER_OK", "NEXT", "OK", "ERR"}
HostLine == [of : Word, n : Nat]
ScriptStep ==
  [do : {"send"}, token : Token] \cup [do : {"wait"}, line : HostLine, prefix : {FALSE}]

\* Quotient and remainder.
LEMMA Division ==
  ASSUME NEW d \in Nat \ {0}, NEW n \in Nat
  PROVE  n \div d \in Nat /\ n % d \in 0..d - 1 /\ n = d * (n \div d) + (n % d)
<1>1. n = d * (n \div d) + (n % d)
  OBVIOUS
<1>2. n % d \in 0..d - 1
  OBVIOUS
<1>3. n \div d \in Nat
  OBVIOUS
<1> QED
  BY <1>1, <1>2, <1>3

\* They are unique.
LEMMA DivisionIsUnique ==
  ASSUME NEW d \in Nat \ {0}, NEW q \in Nat, NEW r \in 0..d - 1, NEW n \in Nat,
         n = d * q + r
  PROVE  n \div d = q /\ n % d = r
<1> DEFINE p == n \div d
           s == n % d
<1>1. p \in Nat /\ s \in 0..d - 1 /\ n = d * p + s
  OBVIOUS
<1> HIDE DEF p, s
<1>2. ~(p < q)
  <2> SUFFICES ASSUME p < q PROVE FALSE
    OBVIOUS
  <2>1. PICK k \in Nat : q = p + 1 + k
    BY <1>1
  <2>2. d * q = d * p + d + d * k /\ d * k \in Nat
    BY <1>1, <2>1
  <2> QED
    BY <1>1, <2>2
<1>3. ~(q < p)
  <2> SUFFICES ASSUME q < p PROVE FALSE
    OBVIOUS
  <2>1. PICK k \in Nat : p = q + 1 + k
    BY <1>1
  <2>2. d * p = d * q + d + d * k /\ d * k \in Nat /\ d * q \in Nat
    BY <1>1, <2>1
  <2> QED
    BY <1>1, <2>2
<1>4. p = q
  BY <1>1, <1>2, <1>3
<1>5. d * p = d * q /\ d * q \in Nat
  BY <1>4
<1>6. s = r
  BY <1>1, <1>5
<1> QED
  BY <1>4, <1>6 DEF p, s

\* How the count goes on from one step of a payload to the next.
LEMMA SentStep ==
  ASSUME NEW i \in Nat \ {0}
  PROVE  /\ SentBefore(1) = 0 /\ SentBefore(i) \in Nat
         /\ SentBefore(i + 1) = IF i % (Block + 1) = 0 THEN SentBefore(i) ELSE SentBefore(i) + 1
<1> DEFINE d == Block + 1
           q == (i - 1) \div d
           r == (i - 1) % d
<1>1. d \in Nat \ {0} /\ Block \in Nat \ {0}
  BY TokenAssumption
<1>2. q \in Nat /\ r \in 0..d - 1 /\ i - 1 = d * q + r
  <2>1. i - 1 \in Nat
    OBVIOUS
  <2> QED
    BY <1>1, <2>1, Division
<1>0. 0 \div d = 0
  BY <1>1, DivisionIsUnique
<1> HIDE DEF d, q, r
<1>3. d * q \in Nat /\ d * q >= q
  <2>1. d * q = Block * q + q /\ Block * q \in Nat
    BY <1>1, <1>2 DEF d
  <2> QED
    BY <1>1, <1>2, <2>1
<1>4. SentBefore(1) = 0
  BY <1>0 DEF SentBefore, d
<1>5. SentBefore(i) = i - 1 - q /\ SentBefore(i) \in Nat
  BY <1>2, <1>3 DEF SentBefore, d, q
<1>6. CASE r + 1 = d
  <2>1. d * (q + 1) = d * q + d
    BY <1>1, <1>2
  <2>2. i \div d = q + 1 /\ i % d = 0
    BY <1>1, <1>2, <1>3, <1>6, <2>1, DivisionIsUnique
  <2> QED
    BY <1>2, <1>4, <1>5, <2>2 DEF SentBefore, d
<1>7. CASE r + 1 # d
  <2>1. i \div d = q /\ i % d = r + 1
    BY <1>1, <1>2, <1>3, <1>7, DivisionIsUnique
  <2> QED
    BY <1>2, <1>4, <1>5, <2>1 DEF SentBefore, d
<1> QED
  BY <1>6, <1>7

\* The last step of a payload waits for the line that acknowledges all of it,
\* and no step before sends more than there is.
LEMMA PayloadEnds ==
  ASSUME NEW n \in Nat \ {0}, NEW steps, steps = n + (n + Block - 1) \div Block
  PROVE  /\ steps \in Nat \ {0} /\ SentBefore(steps) = n
         /\ \A i \in 1..steps - 1 : i % (Block + 1) # 0 => SentBefore(i) < n
         /\ \A i \in 1..steps : SentBefore(i) <= n
<1> DEFINE d == Block + 1
           c == (n + Block - 1) \div Block
           s == (n + Block - 1) % Block
<1>1. Block \in Nat \ {0} /\ d \in Nat \ {0}
  BY TokenAssumption
<1>2. c \in Nat /\ s \in 0..Block - 1 /\ n + Block - 1 = Block * c + s
  BY <1>1
<1>2a. steps = n + c
  OBVIOUS
<1> HIDE DEF d, c, s
<1>3. c # 0
  <2> SUFFICES ASSUME c = 0 PROVE FALSE
    OBVIOUS
  <2>1. Block * c = 0
    BY <1>1
  <2> QED
    BY <1>1, <1>2, <2>1
<1>4. PICK e \in Nat : c = e + 1
  BY <1>2, <1>3
<1>5. Block * c = Block * e + Block /\ Block * e \in Nat
  BY <1>1, <1>4
<1>6. n = Block * e + 1 + s
  BY <1>1, <1>2, <1>5
<1>7. steps - 1 = d * e + (1 + s) /\ 1 + s \in 0..d - 1
  <2>1. d * e = Block * e + e
    BY <1>1, <1>4 DEF d
  <2> QED
    BY <1>1, <1>2, <1>2a, <1>4, <1>5, <1>6, <2>1 DEF d
<1>8. steps \in Nat \ {0} /\ steps - 1 \in Nat
  BY <1>2, <1>2a
<1>9. (steps - 1) \div d = e
  BY <1>1, <1>4, <1>7, <1>8, DivisionIsUnique
<1>10. SentBefore(steps) = n
  BY <1>2a, <1>4, <1>9 DEF SentBefore, d
<1>11. ASSUME NEW i \in 1..steps - 1, i % d # 0
       PROVE  SentBefore(i) < n
  <2> DEFINE q == (i - 1) \div d
             r == (i - 1) % d
  <2>1. q \in Nat /\ r \in 0..d - 1 /\ i - 1 = d * q + r /\ SentBefore(i) = i - 1 - q
    <3>1. i - 1 \in Nat
      BY <1>8
    <3>2. q \in Nat /\ r \in 0..d - 1 /\ i - 1 = d * q + r
      BY <1>1, <3>1, Division
    <3>3. SentBefore(i) = i - 1 - q
      BY DEF SentBefore, d
    <3> QED
      BY <3>2, <3>3
  <2> HIDE DEF q, r
  <2>2. d * q = Block * q + q /\ Block * q \in Nat
    BY <1>1, <2>1 DEF d
  <2>3. r + 1 # d
    <3> SUFFICES ASSUME r + 1 = d PROVE FALSE
      OBVIOUS
    <3>1. d * (q + 1) = d * q + d
      BY <1>1, <2>1
    <3>2. i = d * (q + 1) + 0 /\ i \in Nat /\ q + 1 \in Nat /\ 0 \in 0..d - 1
      BY <1>1, <1>8, <2>1, <2>2, <3>1
    <3>3. i % d = 0
      BY <1>1, <3>2, DivisionIsUnique
    <3> QED
      BY <1>11, <3>3
  <2> SUFFICES ASSUME ~(SentBefore(i) < n) PROVE FALSE
    OBVIOUS
  <2>4. Block * q + r >= n
    BY <2>1, <2>2, <1>2, <1>6
  <2>5. ~(q < e)
    <3> SUFFICES ASSUME q < e PROVE FALSE
      OBVIOUS
    <3>1. PICK k \in Nat : e = q + 1 + k
      BY <1>4, <2>1
    <3>2. Block * e = Block * q + Block + Block * k /\ Block * k \in Nat
      BY <1>1, <2>1, <3>1
    <3> QED
      BY <1>1, <1>2, <1>6, <2>1, <2>2, <2>3, <2>4, <3>2 DEF d
  <2> QED
    BY <1>2, <1>2a, <1>4, <1>8, <2>1, <2>2, <2>4, <2>5
<1>12. ASSUME NEW i \in 1..steps
       PROVE  SentBefore(i) <= n
  <2>1. CASE i = steps
    BY <1>10, <2>1
  <2>2. CASE i # steps /\ i % d # 0
    <3>1. i \in 1..steps - 1 /\ SentBefore(i) \in Nat
      BY <1>8, <2>2, SentStep
    <3> QED
      BY <1>11, <2>2, <3>1
  <2>3. CASE i # steps /\ i % d = 0
    <3> DEFINE k == i \div d
    <3>1. k \in Nat /\ i = d * k /\ i \in Nat
      <4>1. i \in Nat
        BY <1>8
      <4>2. k \in Nat /\ i = d * k + (i % d)
        BY <1>1, <4>1, Division
      <4>3. d * k \in Nat
        BY <1>1, <4>2
      <4> QED
        BY <2>3, <4>1, <4>2, <4>3
    <3> HIDE DEF k
    <3>2. k # 0
      <4> SUFFICES ASSUME k = 0 PROVE FALSE
        OBVIOUS
      <4>1. d * k = 0
        BY <1>1
      <4> QED
        BY <3>1, <4>1
    <3>3. PICK l \in Nat : k = l + 1
      BY <3>1, <3>2
    <3>4. i - 1 = d * l + Block /\ d * l \in Nat /\ i - 1 \in Nat \ {0} /\ Block \in 0..d - 1
      <4>1. d * k = d * l + d /\ d * l \in Nat
        BY <1>1, <3>3
      <4> QED
        BY <1>1, <3>1, <4>1 DEF d
    <3>5. (i - 1) % d = Block
      BY <1>1, <3>3, <3>4, DivisionIsUnique
    <3>6. PICK h \in Nat \ {0} : h = i - 1
      BY <3>4
    <3>7. SentBefore(h + 1) = SentBefore(h) + 1 /\ SentBefore(h) \in Nat
      BY <1>1, <3>5, <3>6, SentStep DEF d
    <3>8. h + 1 = i /\ h \in 1..steps - 1
      BY <1>8, <2>3, <3>1, <3>6
    <3>9. SentBefore(h) < n
      BY <1>1, <1>11, <3>5, <3>6, <3>8
    <3> QED
      BY <3>7, <3>8, <3>9
  <2> QED
    BY <2>1, <2>2, <2>3
<1> QED
  BY <1>8, <1>10, <1>11, <1>12 DEF d

\* A job's image.
LEMMA JobFacts ==
  ASSUME NEW j \in Job
  PROVE  /\ Total(j) \in 1..MaxSize /\ Total(j) \in Nat \ {0} /\ j.run \in BOOLEAN
         /\ j.image \in Image /\ j.image \in [1..Total(j) -> Token] /\ j.image \in Seq(Token)
<1>1. PICK n \in 1..MaxSize : j.image \in [1..n -> Token]
  BY JobAssumption, ImageAssumption
<1>2. n \in Nat \ {0} /\ n \in 1..MaxSize
  BY TokenAssumption
<1>3. j.image \in Seq(Token) /\ Len(j.image) = n
  BY <1>1, <1>2
<1> QED
  BY <1>1, <1>2, <1>3, JobAssumption DEF Total

LEMMA LineFacts ==
  /\ \A of \in Word : Line(of) \in HostLine
  /\ \A n \in Nat : NextLine(n) \in HostLine /\ NextLine(n) # Line("OK")
  /\ \A n, m \in Nat : NextLine(n) = NextLine(m) => n = m
<1>1. \A of \in Word : Line(of) \in HostLine
  BY DEF Line, HostLine, Word
<1>2. ASSUME NEW n \in Nat
      PROVE  NextLine(n) \in HostLine /\ NextLine(n) # Line("OK")
  <2>1. NextLine(n) \in HostLine
    BY DEF NextLine, HostLine, Word
  <2>2. NextLine(n).of = "NEXT" /\ Line("OK").of = "OK"
    BY DEF NextLine, Line
  <2> QED
    BY <2>1, <2>2
<1>3. ASSUME NEW n \in Nat, NEW m \in Nat, NextLine(n) = NextLine(m)
      PROVE  n = m
  <2>1. NextLine(n).n = n /\ NextLine(m).n = m
    BY DEF NextLine
  <2> QED
    BY <1>3, <2>1
<1> QED
  BY <1>1, <1>2, <1>3

\* The step of a payload: one that sends, or one that waits.
Pay(j) == Payload("NEXT", j.image, Block)

LEMMA PayloadFacts ==
  ASSUME NEW j \in Job
  PROVE  /\ Pay(j) \in Seq(ScriptStep) /\ Len(Pay(j)) = PayloadSteps(j)
         /\ PayloadSteps(j) \in Nat \ {0} /\ SentBefore(PayloadSteps(j)) = Total(j)
         /\ \A i \in 1..PayloadSteps(j) :
              /\ SentBefore(i) \in 0..Total(j)
              /\ Pay(j)[i].do = "send" =>
                   /\ i < PayloadSteps(j) /\ SentBefore(i) < Total(j)
                   /\ SentBefore(i + 1) = SentBefore(i) + 1
                   /\ Pay(j)[i].token = j.image[SentBefore(i) + 1]
              /\ Pay(j)[i].do = "wait" /\ i < PayloadSteps(j) =>
                   SentBefore(i + 1) = SentBefore(i)
              /\ i = PayloadSteps(j) =>
                   Pay(j)[i].do = "wait" /\ Pay(j)[i].line = NextLine(Total(j))
<1> DEFINE steps == PayloadSteps(j)
           sends(i) == [do |-> "send", token |-> j.image[SentBefore(i) + 1]]
           waits(i) == [do |-> "wait", line |-> NextLine(SentBefore(i)), prefix |-> FALSE]
<1>1. Total(j) \in Nat \ {0} /\ j.image \in [1..Total(j) -> Token]
  BY JobFacts
<1>2. /\ steps \in Nat \ {0} /\ SentBefore(steps) = Total(j)
      /\ \A i \in 1..steps - 1 : i % (Block + 1) # 0 => SentBefore(i) < Total(j)
  BY <1>1, PayloadEnds DEF PayloadSteps
<1>3. Pay(j) = [i \in 1..steps |-> IF i = steps \/ i % (Block + 1) = 0
                                   THEN waits(i) ELSE sends(i)]
  BY Zenon DEF Pay, Payload, PayloadSteps, Total, SentBefore, NextLine
<1> HIDE DEF steps
<1>4. \A i \in 1..steps : SentBefore(i) \in Nat /\ SentBefore(i) \in 0..Total(j)
  <2>1. \A i \in 1..steps : SentBefore(i) <= Total(j)
    BY <1>1, PayloadEnds DEF PayloadSteps, steps
  <2>2. \A i \in 1..steps : SentBefore(i) \in Nat
    BY <1>2, SentStep
  <2> QED
    BY <1>1, <2>1, <2>2
<1>5. ASSUME NEW i \in 1..steps, i = steps \/ i % (Block + 1) = 0
      PROVE  /\ Pay(j)[i] = waits(i) /\ waits(i) \in ScriptStep /\ waits(i).do = "wait"
             /\ waits(i).line = NextLine(SentBefore(i))
             /\ i < steps => SentBefore(i + 1) = SentBefore(i)
  <2>1. Pay(j)[i] = waits(i)
    BY <1>3, <1>5
  <2>2. waits(i) \in ScriptStep
    BY <1>4, LineFacts DEF ScriptStep
  <2>3. i < steps => SentBefore(i + 1) = SentBefore(i)
    BY <1>2, <1>5, SentStep
  <2> QED
    BY <2>1, <2>2, <2>3
<1>6. ASSUME NEW i \in 1..steps, i # steps, i % (Block + 1) # 0
      PROVE  /\ Pay(j)[i] = sends(i) /\ sends(i) \in ScriptStep /\ sends(i).do = "send"
             /\ i < steps /\ SentBefore(i) < Total(j) /\ SentBefore(i + 1) = SentBefore(i) + 1
             /\ sends(i).token = j.image[SentBefore(i) + 1]
  <2>1. Pay(j)[i] = sends(i)
    BY <1>3, <1>6
  <2>2. i < steps /\ SentBefore(i) < Total(j)
    BY <1>2, <1>6
  <2>3. SentBefore(i) + 1 \in 1..Total(j)
    BY <1>1, <1>4, <2>2
  <2>4. sends(i) \in ScriptStep
    BY <1>1, <2>3 DEF ScriptStep
  <2>5. SentBefore(i + 1) = SentBefore(i) + 1
    BY <1>2, <1>6, SentStep
  <2> QED
    BY <2>1, <2>2, <2>4, <2>5
<1> HIDE DEF sends, waits
<1>7. \A i \in 1..steps : Pay(j)[i] \in ScriptStep
  BY <1>5, <1>6
<1>8. Pay(j) \in Seq(ScriptStep) /\ Len(Pay(j)) = steps
  <2>1. Pay(j) \in [1..steps -> ScriptStep]
    BY <1>3, <1>7
  <2> QED
    BY <1>2, <2>1
<1>9. \A i \in 1..steps :
        /\ Pay(j)[i].do = "send" =>
             /\ i < steps /\ SentBefore(i) < Total(j)
             /\ SentBefore(i + 1) = SentBefore(i) + 1
             /\ Pay(j)[i].token = j.image[SentBefore(i) + 1]
        /\ Pay(j)[i].do = "wait" /\ i < steps => SentBefore(i + 1) = SentBefore(i)
        /\ i = steps => Pay(j)[i].do = "wait" /\ Pay(j)[i].line = NextLine(Total(j))
  <2> TAKE i \in 1..steps
  <2>1. CASE i = steps \/ i % (Block + 1) = 0
    BY <1>2, <1>5, <2>1
  <2>2. CASE i # steps /\ i % (Block + 1) # 0
    BY <1>6, <2>2
  <2> QED
    BY <2>1, <2>2
<1> QED
  BY <1>2, <1>4, <1>8, <1>9 DEF steps

\* Steps that send, and a step that waits.
LEMMA SendFacts ==
  ASSUME NEW tokens \in Seq(Token)
  PROVE  /\ Send(tokens) \in Seq(ScriptStep) /\ Len(Send(tokens)) = Len(tokens)
         /\ \A i \in 1..Len(tokens) :
              Send(tokens)[i].do = "send" /\ Send(tokens)[i].token = tokens[i]
<1>1. PICK n \in Nat : n = Len(tokens)
  OBVIOUS
<1>2. ASSUME NEW i \in 1..n
      PROVE  /\ [do |-> "send", token |-> tokens[i]] \in ScriptStep
             /\ Send(tokens)[i].do = "send" /\ Send(tokens)[i].token = tokens[i]
  <2>1. tokens[i] \in Token
    BY <1>1
  <2>2. Send(tokens)[i] = [do |-> "send", token |-> tokens[i]]
    BY <1>1 DEF Send
  <2>3. [do |-> "send", token |-> tokens[i]] \in ScriptStep
    BY <2>1 DEF ScriptStep
  <2> QED
    BY <2>2, <2>3
<1>3. Send(tokens) \in [1..n -> ScriptStep]
  BY <1>1, <1>2 DEF Send
<1>4. Send(tokens) \in Seq(ScriptStep) /\ Len(Send(tokens)) = n
  BY <1>1, <1>3
<1> QED
  BY <1>1, <1>2, <1>4

LEMMA WaitFacts ==
  ASSUME NEW of \in Word
  PROVE  /\ Wait(Line(of)) \in Seq(ScriptStep) /\ Len(Wait(Line(of))) = 1
         /\ Wait(Line(of))[1].do = "wait" /\ Wait(Line(of))[1].line = Line(of)
<1>1. PICK s : s = [do |-> "wait", line |-> Line(of), prefix |-> FALSE]
  OBVIOUS
<1>2. s \in ScriptStep /\ s.do = "wait" /\ s.line = Line(of)
  BY <1>1, LineFacts DEF ScriptStep
<1>3. Wait(Line(of)) = <<s>>
  BY <1>1 DEF Wait
<1> QED
  BY <1>2, <1>3

\* The parts of a sequence that is put together.
LEMMA ConcatFacts ==
  ASSUME NEW S, NEW s \in Seq(S), NEW t \in Seq(S)
  PROVE  /\ s \o t \in Seq(S) /\ Len(s \o t) = Len(s) + Len(t)
         /\ \A i \in 1..Len(s) : (s \o t)[i] = s[i]
         /\ \A i \in 1..Len(t) : (s \o t)[Len(s) + i] = t[i]
OBVIOUS

\* The steps of the script one by one.
LEMMA ScriptParts ==
  ASSUME NEW j \in Job
  PROVE  /\ Script(j) \in Seq(ScriptStep) /\ Len(Script(j)) = Last(j)
         /\ Script(j)[1].do = "send"
         /\ Script(j)[2].do = "wait" /\ Script(j)[2].line = Line("READY")
         /\ \A i \in 1..3 :
              /\ Script(j)[2 + i].do = "send"
              /\ Script(j)[2 + i].token = <<Magic, Total(j), Crc(j.image)>>[i]
         /\ Script(j)[6].do = "wait"
         /\ \A i \in 1..PayloadSteps(j) : Script(j)[6 + i] = Pay(j)[i]
         /\ Script(j)[Last(j)].do = "wait" /\ Script(j)[Last(j)].line = Line("OK")
<1> DEFINE P == PayloadSteps(j)
           a1 == Send(<<IF j.run THEN UploadRun ELSE Upload>>)
           a2 == Wait(Line("READY"))
           h == <<Magic, Total(j), Crc(j.image)>>
           a3 == Send(h)
           a4 == Wait(Line("HEADER_OK"))
           a6 == Wait(Line("OK"))
           S == ScriptStep
<1>1. /\ Magic \in Token /\ Total(j) \in Token /\ Crc(j.image) \in Token
      /\ (IF j.run THEN UploadRun ELSE Upload) \in Token
  BY JobFacts, TokenAssumption, LineAssumption DEF Total
<1>2. a1 \in Seq(S) /\ Len(a1) = 1 /\ a1[1].do = "send"
  <2>1. PICK c \in Token : c = IF j.run THEN UploadRun ELSE Upload
    BY <1>1
  <2>2. <<c>> \in Seq(Token) /\ Len(<<c>>) = 1
    OBVIOUS
  <2>3. a1 = Send(<<c>>)
    BY <2>1
  <2> QED
    BY <2>2, <2>3, SendFacts
<1>3. /\ a3 \in Seq(S) /\ Len(a3) = 3
      /\ \A i \in 1..3 : a3[i].do = "send" /\ a3[i].token = h[i]
  <2>1. h \in Seq(Token) /\ Len(h) = 3
    BY <1>1
  <2> HIDE DEF h
  <2> QED
    BY <2>1, SendFacts
<1>5. /\ a2 \in Seq(S) /\ Len(a2) = 1 /\ a2[1].do = "wait" /\ a2[1].line = Line("READY")
      /\ a4 \in Seq(S) /\ Len(a4) = 1 /\ a4[1].do = "wait"
      /\ a6 \in Seq(S) /\ Len(a6) = 1 /\ a6[1].do = "wait" /\ a6[1].line = Line("OK")
  <2>1. "READY" \in Word /\ "HEADER_OK" \in Word /\ "OK" \in Word
    BY DEF Word
  <2> QED
    BY <2>1, WaitFacts
<1>6. Pay(j) \in Seq(S) /\ Len(Pay(j)) = P /\ P \in Nat \ {0}
  BY PayloadFacts
<1>7. Script(j) = a1 \o a2 \o a3 \o a4 \o Pay(j) \o a6
  BY DEF Script, Scripts, WholeScript, Pay, Total
<1> HIDE DEF a1, a2, a3, a4, a6, h, P, S
<1> DEFINE b2 == a1 \o a2
           b3 == b2 \o a3
           b4 == b3 \o a4
           b5 == b4 \o Pay(j)
           b6 == b5 \o a6
<1>8. b2 \in Seq(S) /\ Len(b2) = 2 /\ b2[1] = a1[1] /\ b2[2] = a2[1]
  <2>1. /\ b2 \in Seq(S) /\ Len(b2) = 1 + 1
        /\ \A i \in 1..1 : b2[i] = a1[i]
        /\ \A i \in 1..1 : b2[1 + i] = a2[i]
    BY <1>2, <1>5, ConcatFacts
  <2> HIDE DEF b2
  <2> QED
    BY <2>1
<1> HIDE DEF b2
<1>9. /\ b3 \in Seq(S) /\ Len(b3) = 5 /\ \A i \in 1..2 : b3[i] = b2[i]
      /\ \A i \in 1..3 : b3[2 + i] = a3[i]
  <2>0. b2 \in Seq(S) /\ a3 \in Seq(S)
    BY <1>3, <1>8
  <2>1. /\ b2 \o a3 \in Seq(S) /\ Len(b2 \o a3) = Len(b2) + Len(a3)
        /\ \A i \in 1..Len(b2) : (b2 \o a3)[i] = b2[i]
        /\ \A i \in 1..Len(a3) : (b2 \o a3)[Len(b2) + i] = a3[i]
    BY <2>0, ConcatFacts
  <2> HIDE DEF b3
  <2> QED
    BY <1>3, <1>8, <2>1 DEF b3
<1> HIDE DEF b3
<1>10. b4 \in Seq(S) /\ Len(b4) = 6 /\ (\A i \in 1..5 : b4[i] = b3[i]) /\ b4[6] = a4[1]
  <2>0. b3 \in Seq(S) /\ a4 \in Seq(S)
    BY <1>5, <1>9
  <2>1. /\ b3 \o a4 \in Seq(S) /\ Len(b3 \o a4) = Len(b3) + Len(a4)
        /\ \A i \in 1..Len(b3) : (b3 \o a4)[i] = b3[i]
        /\ \A i \in 1..Len(a4) : (b3 \o a4)[Len(b3) + i] = a4[i]
    BY <2>0, ConcatFacts
  <2> HIDE DEF b4
  <2> QED
    BY <1>5, <1>9, <2>1 DEF b4
<1> HIDE DEF b4
<1>11. /\ b5 \in Seq(S) /\ Len(b5) = 6 + P /\ \A i \in 1..6 : b5[i] = b4[i]
       /\ \A i \in 1..P : b5[6 + i] = Pay(j)[i]
  <2>0. b4 \in Seq(S) /\ Pay(j) \in Seq(S)
    BY <1>6, <1>10
  <2>1. /\ b4 \o Pay(j) \in Seq(S) /\ Len(b4 \o Pay(j)) = Len(b4) + Len(Pay(j))
        /\ \A i \in 1..Len(b4) : (b4 \o Pay(j))[i] = b4[i]
        /\ \A i \in 1..Len(Pay(j)) : (b4 \o Pay(j))[Len(b4) + i] = Pay(j)[i]
    BY <2>0, ConcatFacts
  <2> HIDE DEF b5
  <2> QED
    BY <1>6, <1>10, <2>1 DEF b5
<1> HIDE DEF b5
<1>12. /\ b6 \in Seq(S) /\ Len(b6) = 7 + P /\ \A i \in 1..6 + P : b6[i] = b5[i]
       /\ b6[7 + P] = a6[1]
  <2>0. b5 \in Seq(S) /\ a6 \in Seq(S)
    BY <1>5, <1>11
  <2>1. /\ b5 \o a6 \in Seq(S) /\ Len(b5 \o a6) = Len(b5) + Len(a6)
        /\ \A i \in 1..Len(b5) : (b5 \o a6)[i] = b5[i]
        /\ \A i \in 1..Len(a6) : (b5 \o a6)[Len(b5) + i] = a6[i]
    BY <2>0, ConcatFacts
  <2> HIDE DEF b6
  <2>2. 1 \in 1..Len(a6) /\ Len(b5) + 1 = 7 + P /\ Len(b5) + Len(a6) = 7 + P
    BY <1>5, <1>6, <1>11
  <2> QED
    BY <1>11, <2>1, <2>2 DEF b6
<1>13. Script(j) = b6
  BY <1>7 DEF b2, b3, b4, b5
<1> HIDE DEF b6
<1>14. /\ \A i \in 1..2 : b6[i] = b2[i]
       /\ \A i \in 1..3 : b6[2 + i] = a3[i]
       /\ b6[6] = a4[1]
       /\ \A i \in 1..P : b6[6 + i] = Pay(j)[i]
  BY <1>6, <1>9, <1>10, <1>11, <1>12
<1> QED
  BY <1>2, <1>3, <1>5, <1>6, <1>8, <1>12, <1>13, <1>14 DEF Last, P, h, S

\* What is sent or waited for at a step, and how far the script has come.
LEMMA StepFacts ==
  ASSUME NEW j \in Job, NEW at \in 1..Last(j)
  PROVE  /\ Last(j) \in Nat /\ Last(j) >= 8 /\ SentAt(j, 3) = -3
         /\ SentAt(j, Last(j)) = Total(j)
         /\ at >= 3 => SentAt(j, at) \in -3..Total(j)
         /\ Script(j)[at].do \in {"send", "wait"}
         /\ Script(j)[at].do = "send" => Script(j)[at].token \in Token
         /\ Script(j)[at].do = "wait" =>
              Script(j)[at].line \in HostLine /\ Script(j)[at].prefix = FALSE
         /\ at = 1 => Script(j)[at].do = "send"
         /\ at = 2 => Script(j)[at].do = "wait" /\ Script(j)[at].line = Line("READY")
         /\ at >= 3 /\ Script(j)[at].do = "send" =>
              /\ at < Last(j) - 1 /\ SentAt(j, at) < Total(j)
              /\ SentAt(j, at + 1) = SentAt(j, at) + 1
              /\ Script(j)[at].token = Stream(j, SentAt(j, at) + 1)
         /\ at >= 3 /\ Script(j)[at].do = "wait" /\ at < Last(j) =>
              SentAt(j, at + 1) = SentAt(j, at)
         /\ at = Last(j) - 1 =>
              /\ SentAt(j, at) = Total(j)
              /\ Script(j)[at].do = "wait" /\ Script(j)[at].line = NextLine(Total(j))
         /\ at = Last(j) => Script(j)[at].do = "wait" /\ Script(j)[at].line = Line("OK")
<1> DEFINE P == PayloadSteps(j)
           s == Script(j)[at]
<1>1. /\ Total(j) \in Nat \ {0} /\ P \in Nat \ {0} /\ SentBefore(P) = Total(j)
      /\ Last(j) = 7 + P /\ \A i \in 1..P : SentBefore(i) \in Nat
  BY JobFacts, PayloadFacts, SentStep DEF Last
<1> HIDE DEF P
<1>2. Last(j) \in Nat /\ Last(j) >= 8 /\ SentAt(j, 3) = -3 /\ SentAt(j, Last(j)) = Total(j)
  BY <1>1 DEF SentAt, P
<1>3. s \in ScriptStep
  <2>1. Script(j) \in Seq(ScriptStep) /\ Len(Script(j)) = Last(j)
    BY ScriptParts
  <2> QED
    BY <2>1
<1>4. /\ s.do \in {"send", "wait"}
      /\ s.do = "send" => s.token \in Token
      /\ s.do = "wait" => s.line \in HostLine /\ s.prefix = FALSE
  BY <1>3 DEF ScriptStep
<1>5. CASE at \in {1, 2}
  BY <1>1, <1>2, <1>4, <1>5, ScriptParts
<1>6. CASE at \in 3..5
  <2>1. PICK i \in 1..3 : at = 2 + i
    <3>1. at - 2 \in 1..3 /\ at = 2 + (at - 2)
      BY <1>6
    <3> QED
      BY <3>1
  <2>2. s.do = "send" /\ s.token = <<Magic, Total(j), Crc(j.image)>>[i]
    BY <2>1, ScriptParts
  <2>3. SentAt(j, at) = i - 4 /\ SentAt(j, at + 1) = i - 3
    BY <2>1 DEF SentAt
  <2>4. s.token = Stream(j, i - 3)
    BY <2>1, <2>2 DEF Stream
  <2> QED
    BY <1>1, <1>2, <1>4, <2>1, <2>2, <2>3, <2>4
<1>7. CASE at = 6
  <2>1. s.do = "wait"
    BY <1>7, ScriptParts
  <2>2. SentAt(j, at) = 0 /\ SentAt(j, at + 1) = 0
    BY <1>1, <1>7, SentStep DEF SentAt, P
  <2> QED
    BY <1>1, <1>2, <1>4, <1>7, <2>1, <2>2
<1>8. CASE at \in 7..6 + P
  <2>1. PICK i \in 1..P : at = 6 + i
    <3>1. at - 6 \in 1..P /\ at = 6 + (at - 6)
      BY <1>1, <1>8
    <3> QED
      BY <3>1
  <2>2. s = Pay(j)[i] /\ SentAt(j, at) = SentBefore(i)
        /\ SentAt(j, at + 1) = IF i < P THEN SentBefore(i + 1) ELSE Total(j)
    <3>1. s = Pay(j)[i]
      BY <2>1, ScriptParts DEF P
    <3>2. SentAt(j, at) = SentBefore(i)
          /\ SentAt(j, at + 1) = IF i < P THEN SentBefore(i + 1) ELSE Total(j)
      BY <1>1, <2>1 DEF SentAt, P
    <3> QED
      BY <3>1, <3>2
  <2>3. /\ s.do = "send" =>
             /\ i < P /\ SentBefore(i) < Total(j) /\ SentBefore(i + 1) = SentBefore(i) + 1
             /\ s.token = j.image[SentBefore(i) + 1]
        /\ s.do = "wait" /\ i < P => SentBefore(i + 1) = SentBefore(i)
        /\ i = P => s.do = "wait" /\ s.line = NextLine(Total(j))
    BY <2>2, PayloadFacts DEF P
  <2>4. SentBefore(i) \in 0..Total(j)
    BY PayloadFacts DEF P
  <2>5. s.do = "send" => s.token = Stream(j, SentBefore(i) + 1)
    BY <2>3, <2>4 DEF Stream
  <2> QED
    BY <1>1, <1>2, <1>4, <2>1, <2>2, <2>3, <2>4, <2>5
<1>9. CASE at = 7 + P
  BY <1>1, <1>2, <1>4, <1>9, ScriptParts
<1>10. at \in {1, 2} \/ at \in 3..5 \/ at = 6 \/ at \in 7..6 + P \/ at = 7 + P
  BY <1>1
<1> QED
  BY <1>5, <1>6, <1>7, <1>8, <1>9, <1>10

-----------------------------------------------------------------------------
(***************************************************************************)
(* The uploader and the line.                                              *)
(***************************************************************************)
\* The step of the script that comes next, and the place up to which it has
\* sent.
At == Last(job) - Len(todo) + 1
SentUpTo == SentAt(job, At)

OnScript ==
  outcome = "busy" =>
    /\ todo \in Seq(ScriptStep) /\ Len(todo) \in 1..Last(job)
    /\ \A i \in 1..Len(todo) : todo[i] = Script(job)[Last(job) - Len(todo) + i]

HostInv ==
  /\ job \in Job /\ faults \in 0..MaxFaults /\ cut \in BOOLEAN
  /\ toHost \in Seq(HostLine) /\ OnScript

\* What is left of a sequence.
LEMMA TailFacts ==
  ASSUME NEW S, NEW s \in Seq(S), s # <<>>
  PROVE  /\ Head(s) = s[1] /\ Head(s) \in S /\ Tail(s) \in Seq(S)
         /\ Len(s) \in Nat \ {0} /\ Len(Tail(s)) = Len(s) - 1
         /\ \A i \in 1..Len(s) - 1 : Tail(s)[i] = s[i + 1]
OBVIOUS

\* The uploader is at a step of the script of its job.
LEMMA AtFacts ==
  ASSUME HostInv, outcome = "busy"
  PROVE  /\ At \in 1..Last(job) /\ Last(job) \in Nat
         /\ todo # <<>> /\ Head(todo) = Script(job)[At]
         /\ Len(todo) = 1 <=> At = Last(job)
<1>1. job \in Job
  BY DEF HostInv
<1>2. Total(job) \in Nat \ {0} /\ PayloadSteps(job) \in Nat \ {0}
  BY <1>1, JobFacts, PayloadFacts
<1>3. Last(job) \in Nat
  BY <1>2 DEF Last
<1>4. /\ todo \in Seq(ScriptStep) /\ Len(todo) \in 1..Last(job)
      /\ \A i \in 1..Len(todo) : todo[i] = Script(job)[Last(job) - Len(todo) + i]
  BY DEF HostInv, OnScript
<1>5. todo # <<>>
  BY <1>4
<1>6. Head(todo) = todo[1]
  BY <1>4, <1>5, TailFacts
<1>7. At \in 1..Last(job) /\ (Len(todo) = 1 <=> At = Last(job)) /\ 1 \in 1..Len(todo)
      /\ Last(job) - Len(todo) + 1 = At
  <2>1. PICK n \in 1..Last(job) : n = Len(todo)
    BY <1>4
  <2>2. At = Last(job) - n + 1
    BY <2>1 DEF At
  <2>3. At \in 1..Last(job) /\ (n = 1 <=> At = Last(job)) /\ 1 \in 1..n
    BY <1>3, <2>2
  <2> QED
    BY <2>1, <2>2, <2>3
<1>8. todo[1] = Script(job)[At]
  BY <1>4, <1>7
<1> QED
  BY <1>3, <1>5, <1>6, <1>7, <1>8

\* The script goes on by a step.
LEMMA GoOnFacts ==
  ASSUME HostInv, outcome = "busy", Host!GoOn
  PROVE  /\ job' = job /\ OnScript'
         /\ At = Last(job) => outcome' = "ok"
         /\ At # Last(job) => outcome' = "busy" /\ At' = At + 1 /\ SentUpTo' = SentAt(job, At + 1)
<1>1. /\ todo' = Tail(todo) /\ job' = job
      /\ outcome' = IF Len(todo) = 1 THEN "ok" ELSE "busy"
  BY DEF Host!GoOn
<1>2. At \in 1..Last(job) /\ Last(job) \in Nat /\ todo # <<>> /\ (Len(todo) = 1 <=> At = Last(job))
  BY AtFacts
<1>3. /\ todo \in Seq(ScriptStep) /\ Len(todo) \in 1..Last(job)
      /\ \A i \in 1..Len(todo) : todo[i] = Script(job)[Last(job) - Len(todo) + i]
  BY DEF HostInv, OnScript
<1>4. /\ todo' \in Seq(ScriptStep) /\ Len(todo') = Len(todo) - 1
      /\ \A i \in 1..Len(todo) - 1 : todo'[i] = todo[i + 1]
  BY <1>1, <1>2, <1>3, TailFacts
<1>5. CASE Len(todo) = 1
  BY <1>1, <1>2, <1>5 DEF OnScript
<1>6. CASE Len(todo) # 1
  <2>1. Len(todo') \in 1..Last(job) /\ At' = At + 1
    BY <1>1, <1>2, <1>3, <1>4, <1>6 DEF At
  <2>2. ASSUME NEW i \in 1..Len(todo')
        PROVE  todo'[i] = Script(job)[Last(job) - Len(todo') + i]
    <3>1. i + 1 \in 1..Len(todo) /\ i \in 1..Len(todo) - 1
      BY <1>3, <1>4
    <3>2. todo'[i] = Script(job)[Last(job) - Len(todo) + (i + 1)]
      BY <1>3, <1>4, <3>1
    <3>3. Last(job) - Len(todo) + (i + 1) = Last(job) - Len(todo') + i
      BY <1>2, <1>3, <1>4
    <3> QED
      BY <3>2, <3>3
  <2>3. OnScript'
    BY <1>1, <1>4, <2>1, <2>2 DEF OnScript
  <2> QED
    BY <1>1, <1>2, <1>6, <2>1, <2>3 DEF SentUpTo
<1> QED
  BY <1>5, <1>6

\* What a token on the line does to the queue of the board.
LEMMA ArriveFacts ==
  ASSUME rx \in Seq(Token), NEW t \in Token, Arrive(t)
  PROVE  /\ rx' \in Seq(Token)
         /\ \/ rx' = rx /\ Len(rx) # 0
            \/ /\ Len(rx') = Len(rx) + 1 /\ rx'[Len(rx) + 1] = t
               /\ \A i \in 1..Len(rx) : rx'[i] = rx[i]
<1>1. Len(rx) \in Nat /\ Depth \in Nat \ {0}
  BY DepthAssumption
<1>2. CASE Len(rx) < Depth
  <2>1. rx' = Append(rx, t)
    BY <1>2 DEF Arrive
  <2> QED
    BY <2>1
<1>3. CASE ~(Len(rx) < Depth)
  BY <1>1, <1>3 DEF Arrive
<1> QED
  BY <1>2, <1>3

\* What the uploader does at a step that sends and at one that waits.
LEMMA SendStepFacts ==
  ASSUME RomInv, HostInv, NEW t \in Token,
         Host!SendToken \/ Host!SendLost \/ Host!SendGarbled(t)
  PROVE  /\ outcome = "busy" /\ Script(job)[At].do = "send" /\ Host!GoOn
         /\ Script(job)[At].token \in Token /\ UNCHANGED toHost
         /\ Host!SendToken => Arrive(Script(job)[At].token)
         /\ Host!SendLost => UNCHANGED rx
         /\ Host!SendGarbled(t) => Arrive(t)
         /\ rx' \in Seq(Token)
<1>1. /\ outcome = "busy" /\ Head(todo).do = "send" /\ Host!GoOn /\ UNCHANGED toHost
      /\ Host!SendToken => Arrive(Head(todo).token)
      /\ Host!SendLost => UNCHANGED rx
      /\ Host!SendGarbled(t) => Arrive(t)
  BY Zenon DEF Host!SendToken, Host!SendLost, Host!SendGarbled, Host!Doing, Host!Step,
     Host!Arrive, Arrive
<1>2. Head(todo) = Script(job)[At] /\ At \in 1..Last(job) /\ job \in Job
  BY <1>1, AtFacts DEF HostInv
<1>3. Script(job)[At].token \in Token
  BY <1>1, <1>2, StepFacts
<1>4. rx \in Seq(Token)
  BY DEF RomInv, TypeOK
<1>5. rx' \in Seq(Token)
  BY <1>1, <1>2, <1>3, <1>4, ArriveFacts
<1> QED
  BY <1>1, <1>2, <1>3, <1>5

LEMMA WaitStepFacts ==
  ASSUME HostInv, Host!HearLine \/ Host!TimeOut
  PROVE  /\ outcome = "busy" /\ Script(job)[At].do = "wait" /\ UNCHANGED rx
         /\ \/ Host!GiveUp /\ (toHost' = toHost \/ (toHost # <<>> /\ toHost' = Tail(toHost)))
            \/ /\ toHost # <<>> /\ toHost' = Tail(toHost)
               /\ \/ Head(toHost) = Script(job)[At].line /\ Host!GoOn
                  \/ UNCHANGED <<job, todo, outcome>>
<1>1. outcome = "busy" /\ (Head(todo).do = "wait" \/ Head(todo).do = "ask")
  BY Zenon DEF Host!HearLine, Host!TimeOut, Host!Doing, Host!Step
<1>2. Head(todo) = Script(job)[At] /\ At \in 1..Last(job) /\ job \in Job
  BY <1>1, AtFacts DEF HostInv
<1>3. /\ Head(todo).do = "wait" /\ ~Head(todo).prefix /\ Head(todo).do # "ask"
  <2>1. Script(job)[At].do \in {"send", "wait"}
    BY <1>2, StepFacts
  <2>2. Script(job)[At].do = "wait"
    BY <1>1, <1>2, <2>1
  <2>3. Script(job)[At].prefix = FALSE
    BY <1>2, <2>2, StepFacts
  <2> QED
    BY <1>2, <2>2, <2>3
<1>4. CASE Host!TimeOut
  <2>1. Host!GiveUp /\ UNCHANGED <<rx, toHost>>
    BY <1>3, <1>4, Zenon DEF Host!TimeOut, Host!Doing, Host!Step
  <2> QED
    BY <1>1, <1>2, <1>3, <2>1
<1>5. CASE Host!HearLine
  <2>1. /\ toHost # <<>> /\ toHost' = Tail(toHost) /\ UNCHANGED rx
        /\ \/ Head(toHost) = Head(todo).line /\ Host!GoOn
           \/ Host!GiveUp
           \/ UNCHANGED <<job, todo, outcome>>
    BY <1>3, <1>5, Zenon DEF Host!HearLine, Host!Expected, Host!Step
  <2> QED
    BY <1>1, <1>2, <1>3, <2>1
<1> QED
  BY <1>4, <1>5

-----------------------------------------------------------------------------
(***************************************************************************)
(* The ROM in the system.                                                  *)
(***************************************************************************)
\* What a step of the system is for the ROM, the line and the uploader.
FaultOnLine ==
  /\ faults < MaxFaults /\ faults' = faults + 1
  /\ Host!SendLost \/ Host!LoseLine \/ \E t \in Token : Host!SendGarbled(t)
  /\ UNCHANGED <<romVars, cut>>

PowerCycle == Restart /\ faults' \in {faults, faults + 1} \cap 0..MaxFaults

Elsewhere == UNCHANGED <<romVars, lineVars, hostVars, faults, cut>>

LEMMA SystemCases ==
  ASSUME HostInv, [SystemNext]_systemVars
  PROVE  \/ RomStep /\ UNCHANGED <<hostVars, faults, cut>>
         \/ AppReads \/ UserUploads \/ PowerCycle
         \/ (Host!SendToken \/ Host!HearLine \/ Host!TimeOut) /\ UNCHANGED <<romVars, faults, cut>>
         \/ FaultOnLine \/ Elsewhere
<1>1. faults \in 0..MaxFaults /\ MaxFaults \in Nat
  BY JobAssumption DEF HostInv
<1>2. CASE Rom
  BY <1>2 DEF Rom
<1>3. CASE Game \/ UNCHANGED systemVars
  BY <1>3 DEF Game, systemVars, Elsewhere
<1>4. CASE UserResets
  BY <1>1, <1>4 DEF UserResets, PowerCycle
<1>5. CASE Fault
  <2>1. faults < MaxFaults /\ faults' = faults + 1
    BY <1>5 DEF Fault
  <2>2. faults' \in {faults, faults + 1} \cap 0..MaxFaults
    BY <1>1, <2>1
  <2> QED
    BY <1>5, <2>1, <2>2 DEF Fault, FaultOnLine, PowerCycle
<1>6. CASE HostStep
  BY <1>6 DEF HostStep
<1> QED
  BY <1>2, <1>3, <1>4, <1>5, <1>6 DEF SystemNext

\* For the ROM, the rest of the system is its environment.
LEMMA SystemIsEnvironment ==
  ASSUME RomInv, HostInv, [SystemNext]_systemVars
  PROVE  [Next]_vars
<1>0. rx \in Seq(Token)
  BY DEF RomInv, TypeOK
<1>1. CASE RomStep
  BY <1>1 DEF Next
<1>2. CASE AppReads
  <2>1. rx' \in Seq(Token) /\ UNCHANGED romVars
    BY <1>2, ReceivedFacts DEF AppReads, RomInv
  <2> QED
    BY <2>1 DEF Next, Environment
<1>3. CASE UserUploads
  BY <1>0, <1>3 DEF UserUploads, Host!Open, Next, Environment
<1>4. CASE PowerCycle
  BY <1>4 DEF PowerCycle, Restart, Next
<1>5. CASE (Host!SendToken \/ Host!SendLost \/ \E t \in Token : Host!SendGarbled(t))
           /\ UNCHANGED romVars
  <2>1. 0 \in Token
    BY TokenAssumption
  <2>2. PICK t \in Token : Host!SendToken \/ Host!SendLost \/ Host!SendGarbled(t)
    BY <1>5, <2>1
  <2>3. rx' \in Seq(Token)
    BY <2>2, SendStepFacts
  <2> QED
    BY <1>5, <2>3 DEF Next, Environment
<1>6. CASE (Host!HearLine \/ Host!TimeOut \/ Host!LoseLine) /\ UNCHANGED romVars
  <2>1. UNCHANGED rx
    BY <1>6 DEF Host!HearLine, Host!TimeOut, Host!LoseLine
  <2> QED
    BY <1>0, <1>6, <2>1 DEF Next, Environment
<1>7. CASE Elsewhere
  BY <1>7 DEF Elsewhere, vars
<1> QED
  BY <1>1, <1>2, <1>3, <1>4, <1>5, <1>6, <1>7, SystemCases DEF FaultOnLine

\* The lines the ROM says at a step, and when.
RomSays(said) ==
  /\ said \in Seq(HostLine) /\ toHost' = toHost \o said
  /\ said # <<>> => Receive
  /\ \A i \in 1..Len(said) :
       /\ said[i] = Line("READY") => Len(said) = 1 /\ pc' = "magic"
       /\ \A n \in Nat : said[i] = NextLine(n) => pc = "data" /\ n = offset + 1
       /\ said[i] = Line("OK") =>
            /\ pc = "data" /\ offset + 1 = expectedSize
            /\ pc' \in {"idle", "app"} /\ uploaded' = expectedSize
            /\ Crc(Content(mem', expectedSize)) = expectedCrc

LEMMA WordFacts ==
  /\ Line("READY") \in HostLine /\ Line("HEADER_OK") \in HostLine
  /\ Line("ERR") \in HostLine /\ Line("OK") \in HostLine
  /\ Line("READY") # Line("HEADER_OK") /\ Line("READY") # Line("ERR")
  /\ Line("READY") # Line("OK") /\ Line("OK") # Line("HEADER_OK") /\ Line("OK") # Line("ERR")
  /\ \A n \in Nat : NextLine(n) # Line("READY") /\ NextLine(n) # Line("HEADER_OK")
                    /\ NextLine(n) # Line("ERR") /\ NextLine(n) # Line("OK")
<1>1. "READY" \in Word /\ "HEADER_OK" \in Word /\ "ERR" \in Word /\ "OK" \in Word
  BY DEF Word
<1>2. \A of : Line(of).of = of
  BY DEF Line
<1>3. \A n : NextLine(n).of = "NEXT"
  BY DEF NextLine
<1>4. /\ "READY" # "HEADER_OK" /\ "READY" # "ERR" /\ "READY" # "OK" /\ "OK" # "HEADER_OK"
      /\ "OK" # "ERR" /\ "NEXT" # "READY" /\ "NEXT" # "HEADER_OK" /\ "NEXT" # "ERR"
      /\ "NEXT" # "OK"
  OBVIOUS
<1> QED
  BY <1>1, <1>2, <1>3, <1>4, LineFacts

\* One line, or none, that is none of those.
LEMMA SaysOther ==
  ASSUME toHost \in Seq(HostLine), toHost' = toHost \/ (Say(<<Line("ERR")>>) /\ Receive)
           \/ (Say(<<Line("HEADER_OK")>>) /\ Receive)
  PROVE  \E said : RomSays(said)
<1>1. CASE toHost' = toHost
  <2>1. <<>> \in Seq(HostLine) /\ toHost' = toHost \o <<>> /\ Len(<<>>) = 0
    BY <1>1
  <2>2. RomSays(<<>>)
    BY <2>1 DEF RomSays
  <2> QED
    BY <2>2
<1>2. ASSUME NEW l \in HostLine, l # Line("READY"), l # Line("OK"), \A n \in Nat : NextLine(n) # l,
             Say(<<l>>), Receive
      PROVE  RomSays(<<l>>)
  <2>1. <<l>> \in Seq(HostLine) /\ Len(<<l>>) = 1 /\ \A i \in 1..Len(<<l>>) : <<l>>[i] = l
    OBVIOUS
  <2> QED
    BY <1>2, <2>1 DEF RomSays, Say
<1>3. CASE Say(<<Line("ERR")>>) /\ Receive
  BY <1>2, <1>3, WordFacts
<1>4. CASE Say(<<Line("HEADER_OK")>>) /\ Receive
  BY <1>2, <1>4, WordFacts
<1> QED
  BY <1>1, <1>3, <1>4

LEMMA RomLines ==
  ASSUME RomInv, toHost \in Seq(HostLine), RomStep
  PROVE  \E said : RomSays(said)
<1>1. CASE BeginUpload
  <2>1. Receive /\ pc' = "magic" /\ toHost' = toHost \o <<Line("READY")>>
    BY <1>1 DEF BeginUpload, Say
  <2>2. /\ <<Line("READY")>> \in Seq(HostLine) /\ Len(<<Line("READY")>>) = 1
        /\ \A i \in 1..1 : <<Line("READY")>>[i] = Line("READY")
    BY WordFacts
  <2>3. RomSays(<<Line("READY")>>)
    BY <2>1, <2>2, WordFacts DEF RomSays
  <2> QED
    BY <2>3
<1>2. CASE ReadData
  <2> DEFINE n == offset + 1
             ack == Acknowledge(n)
  <2>1. /\ pc = "data" /\ offset \in 0..MaxSize - 1 /\ offset < expectedSize
        /\ expectedSize \in 1..MaxSize /\ Receive /\ Received \in Token /\ offset \in Nat
        /\ mem \in [1..MaxSize -> Token] /\ actualCrc = Crc(Content(mem, offset))
        /\ mem' = Written(mem, offset, Received) /\ n \in Nat
    BY <1>2, ReceivedFacts, TokenAssumption
       DEF ReadData, RomInv, TypeOK, TransferIsSound, InTransfer, Written
  <2>2. Crc(Content(mem', n)) = CrcByte(actualCrc, Received)
    BY <2>1, CrcStep
  <2>3. /\ ack \in Seq(HostLine) /\ Len(ack) \in {0, 1}
        /\ \A i \in 1..Len(ack) : ack[i] = NextLine(n)
    <3>1. NextLine(n) \in HostLine
      BY <2>1, LineFacts
    <3>2. /\ <<NextLine(n)>> \in Seq(HostLine) /\ Len(<<NextLine(n)>>) = 1
          /\ <<>> \in Seq(HostLine) /\ Len(<<>>) = 0
          /\ \A i \in 1..1 : <<NextLine(n)>>[i] = NextLine(n)
      BY <3>1
    <3>3. ack = <<NextLine(n)>> \/ ack = <<>>
      BY DEF Acknowledge
    <3> HIDE DEF ack
    <3>4. CASE ack = <<NextLine(n)>>
      BY <3>2, <3>4
    <3>5. CASE ack = <<>>
      BY <3>2, <3>5
    <3> QED
      BY <3>3, <3>4, <3>5
  <2> HIDE DEF ack
  <2>4. \A i \in Nat : NextLine(n) = NextLine(i) => i = n
    BY <2>1, LineFacts
  <2>5. CASE toHost' = toHost \o ack
    <3>1. RomSays(ack)
      BY <2>1, <2>3, <2>4, <2>5, WordFacts DEF RomSays
    <3> QED
      BY <3>1
  <2>6. ASSUME NEW l \in HostLine, toHost' = toHost \o (ack \o <<l>>), l # Line("READY"),
               \A i \in Nat : NextLine(i) # l,
               l = Line("OK") => /\ n = expectedSize
                                 /\ pc' \in {"idle", "app"} /\ uploaded' = expectedSize
                                 /\ Crc(Content(mem', expectedSize)) = expectedCrc
        PROVE  \E said : RomSays(said)
    <3>1. PICK said : said = ack \o <<l>>
      OBVIOUS
    <3>2. /\ said \in Seq(HostLine)
          /\ \A i \in 1..Len(said) : said[i] = NextLine(n) \/ said[i] = l
      BY <2>3, <2>6, <3>1
    <3>3. \A i \in 1..Len(said) :
            /\ said[i] # Line("READY")
            /\ \A k \in Nat : said[i] = NextLine(k) => k = n
            /\ said[i] = Line("OK") => l = Line("OK")
      BY <2>1, <2>4, <2>6, <3>2, WordFacts
    <3>4. RomSays(said)
      BY <2>1, <2>6, <3>1, <3>2, <3>3 DEF RomSays
    <3> QED
      BY <3>4
  <2>7. CASE n < expectedSize
    BY <1>2, <2>5, <2>7 DEF ReadData, Say, ack
  <2>8. CASE ~(n < expectedSize)
    <3>1. n = expectedSize
      BY <2>1, <2>8, TokenAssumption
    <3>2. CASE CrcByte(actualCrc, Received) = expectedCrc
      <4>1. Good(ack)
        BY <1>2, <2>8, <3>2 DEF ReadData, ack
      <4>2. /\ uploaded' = expectedSize /\ pc' \in {"idle", "app"}
            /\ toHost' = toHost \o (ack \o <<Line("OK")>>)
        BY <4>1, Zenon DEF Good, Run, BackToIdle, Say
      <4> QED
        BY <2>2, <2>6, <3>1, <3>2, <4>2, WordFacts
    <3>3. CASE CrcByte(actualCrc, Received) # expectedCrc
      <4>1. toHost' = toHost \o (ack \o <<Line("ERR")>>)
        BY <1>2, <2>8, <3>3, Zenon DEF ReadData, Bad, Say, ack
      <4> QED
        BY <2>6, <4>1, WordFacts
    <3> QED
      BY <3>2, <3>3
  <2> QED
    BY <2>7, <2>8
<1>3. CASE CheckFlash \/ CopyFlash \/ FinishFlash
  BY <1>3, SaysOther DEF CheckFlash, CopyFlash, FinishFlash, lineVars
<1>4. CASE GoCommand \/ FlashCommand \/ OtherCommand \/ ReadMagic \/ ReadSize \/ ReadCrc
  <2>1. Receive /\ (toHost' = toHost \/ Say(<<Line("ERR")>>) \/ Say(<<Line("HEADER_OK")>>))
    BY <1>4, Zenon DEF GoCommand, FlashCommand, OtherCommand, ReadMagic, ReadSize, ReadCrc, Fail
  <2> QED
    BY <2>1, SaysOther
<1> QED
  BY <1>1, <1>2, <1>3, <1>4 DEF RomStep

LEMMA InitHostInv == SystemInit => HostInv
<1> SUFFICES ASSUME SystemInit PROVE HostInv
  OBVIOUS
<1>1. job \in Job /\ outcome = "none" /\ faults = 0 /\ cut = FALSE /\ toHost = <<>>
  BY DEF SystemInit, Host!HostInit, Init, LineInit
<1>2. faults \in 0..MaxFaults /\ toHost \in Seq(HostLine)
  BY <1>1, JobAssumption
<1>3. OnScript
  BY <1>1 DEF OnScript
<1> QED
  BY <1>1, <1>2, <1>3 DEF HostInv

LEMMA NextHostInv ==
  ASSUME RomInv, HostInv, [SystemNext]_systemVars
  PROVE  HostInv'
<1>0. /\ job \in Job /\ faults \in 0..MaxFaults /\ cut \in BOOLEAN
      /\ toHost \in Seq(HostLine) /\ OnScript /\ MaxFaults \in Nat
  BY JobAssumption DEF HostInv
<1>a. toHost # <<>> => Tail(toHost) \in Seq(HostLine)
  BY <1>0
<1>b. Host!GiveUp => OnScript' /\ job' = job
  BY DEF Host!GiveUp, OnScript
<1>1. CASE RomStep /\ UNCHANGED <<hostVars, faults, cut>>
  <2>1. PICK said : RomSays(said)
    BY <1>0, <1>1, RomLines
  <2>2. toHost' \in Seq(HostLine)
    BY <1>0, <2>1, ConcatFacts DEF RomSays
  <2> QED
    BY <1>0, <1>1, <2>2 DEF HostInv, OnScript, hostVars
<1>2. CASE AppReads
  BY <1>0, <1>2 DEF AppReads, HostInv, OnScript, hostVars
<1>3. CASE UserUploads
  <2>1. PICK j \in Job : Host!Open(j)
    BY <1>3 DEF UserUploads
  <2>2. /\ toHost' = <<>> /\ job' = j /\ todo' = Script(j) /\ faults' = faults /\ cut' = FALSE
    BY <1>3, <2>1 DEF UserUploads, Host!Open
  <2>3. Script(j) \in Seq(ScriptStep) /\ Len(Script(j)) = Last(j) /\ Last(j) \in Nat /\ Last(j) >= 8
    <3>1. PayloadSteps(j) \in Nat \ {0}
      BY PayloadFacts
    <3>2. Last(j) \in Nat /\ Last(j) >= 8
      BY <3>1 DEF Last
    <3> QED
      BY <3>2, ScriptParts
  <2>4. OnScript'
    <3>1. /\ job' = j /\ todo' = Script(j) /\ todo' \in Seq(ScriptStep)
          /\ Len(todo') \in 1..Last(j) /\ Last(j) - Len(todo') = 0
      BY <2>2, <2>3
    <3>2. \A i \in 1..Len(todo') : todo'[i] = Script(j)[Last(j) - Len(todo') + i]
      BY <3>1
    <3> QED
      BY <3>1, <3>2 DEF OnScript
  <2>5. cut' \in BOOLEAN
    BY <2>2, Zenon
  <2>6. job' \in Job /\ faults' \in 0..MaxFaults /\ toHost' \in Seq(HostLine)
    BY <1>0, <2>2
  <2> QED
    BY <2>4, <2>5, <2>6 DEF HostInv
<1>4. CASE PowerCycle
  <2>1. UNCHANGED <<job, todo, outcome, toHost>> /\ cut' \in BOOLEAN /\ faults' \in 0..MaxFaults
    BY <1>4 DEF PowerCycle, Restart, Reset, hostVars
  <2> QED
    BY <1>0, <2>1 DEF HostInv, OnScript
<1>5. CASE /\ Host!SendToken \/ Host!SendLost \/ \E t \in Token : Host!SendGarbled(t)
           /\ cut' = cut /\ faults' \in 0..MaxFaults
  <2>1. PICK t \in Token : Host!SendToken \/ Host!SendLost \/ Host!SendGarbled(t)
    BY <1>5, TokenAssumption
  <2>2. Host!GoOn /\ outcome = "busy" /\ UNCHANGED toHost
    BY <2>1, SendStepFacts
  <2> QED
    BY <1>0, <1>5, <2>2, GoOnFacts DEF HostInv
<1>6. CASE (Host!HearLine \/ Host!TimeOut) /\ UNCHANGED <<cut, faults>>
  <2>1. outcome = "busy" /\ (Host!GoOn \/ Host!GiveUp \/ UNCHANGED <<job, todo, outcome>>)
        /\ toHost' \in Seq(HostLine)
    BY <1>0, <1>a, <1>6, WaitStepFacts
  <2>2. OnScript' /\ job' = job
    <3>1. CASE Host!GoOn
      BY <2>1, <3>1, GoOnFacts
    <3>2. CASE UNCHANGED <<job, todo, outcome>>
      BY <1>0, <3>2 DEF OnScript
    <3> QED
      BY <1>b, <2>1, <3>1, <3>2
  <2> QED
    BY <1>0, <1>6, <2>1, <2>2 DEF HostInv
<1>7. CASE Host!LoseLine /\ cut' = cut /\ faults' \in 0..MaxFaults
  BY <1>0, <1>a, <1>7 DEF Host!LoseLine, HostInv, OnScript
<1>8. CASE Elsewhere
  BY <1>0, <1>8 DEF Elsewhere, hostVars, lineVars, HostInv, OnScript
<1>9. FaultOnLine => faults' \in 0..MaxFaults /\ cut' = cut
  BY <1>0 DEF FaultOnLine
<1> QED
  BY <1>0, <1>1, <1>2, <1>3, <1>4, <1>5, <1>6, <1>7, <1>8, <1>9, SystemCases DEF FaultOnLine

-----------------------------------------------------------------------------
(***************************************************************************)
(* What the ROM has of the upload.                                         *)
(***************************************************************************)
InUpload == pc \in {"magic", "size", "crc", "data"}

\* The place of the last token it has taken, and what it has kept of it.
Past ==
  CASE pc = "magic" -> -3 [] pc = "size" -> -2 [] pc = "crc" -> -1
    [] pc = "data" -> offset [] OTHER -> -2

Kept(i) ==
  CASE i = -2 -> Magic [] i = -1 -> expectedSize [] i = 0 -> expectedCrc [] OTHER -> mem[i]

\* The token that has arrived for a place.
Delivered(i) == IF i > Past THEN rx[i - Past] ELSE Kept(i)

\* A step of the ROM takes a token or it does not; what it has taken and what
\* is queued stays what has arrived.  Outside an upload tokens get lost.
LEMMA RomMoves ==
  ASSUME RomInv, RomStep
  PROVE  /\ rx' = rx \/ Receive
         /\ Past \in Int /\ Past >= -3 /\ Past' \in Int /\ Len(rx) \in Nat /\ Len(rx') \in Nat
         /\ Past' + Len(rx') <= Past + Len(rx)
         /\ InUpload' /\ Past' + Len(rx') = Past + Len(rx) =>
              /\ InUpload
              /\ \A i \in Int : -2 <= i /\ i <= Past + Len(rx) => Delivered(i)' = Delivered(i)
<1>0. TypeOK /\ TransferIsSound /\ rx \in Seq(Token) /\ offset \in Nat /\ MaxSize \in Nat
  BY TokenAssumption DEF RomInv, TypeOK
<1>1. Len(rx) \in Nat /\ Past \in Int /\ Past >= -3
  BY <1>0 DEF Past
<1>2. Receive => /\ rx # <<>> /\ rx' \in Seq(Token) /\ Len(rx') = Len(rx) - 1 /\ Len(rx) # 0
                 /\ Received = rx[1] /\ \A i \in 1..Len(rx) - 1 : rx'[i] = rx[i + 1]
  <2> SUFFICES ASSUME Receive PROVE /\ rx # <<>> /\ rx' \in Seq(Token)
                                    /\ Len(rx') = Len(rx) - 1 /\ Len(rx) # 0
                                    /\ Received = rx[1]
                                    /\ \A i \in 1..Len(rx) - 1 : rx'[i] = rx[i + 1]
    OBVIOUS
  <2>1. rx # <<>> /\ rx' = Tail(rx)
    BY DEF Receive
  <2> QED
    BY <1>0, <2>1, TailFacts DEF Received
\* A token that is taken at its place and kept.
<1>3. ASSUME Receive, InUpload, InUpload', Past' = Past + 1, \A i : i = Past + 1 => Kept(i)' = Received,
             \A i \in Int : -2 <= i /\ i <= Past => Kept(i)' = Kept(i)
      PROVE  /\ Past' + Len(rx') = Past + Len(rx)
             /\ \A i \in Int : -2 <= i /\ i <= Past + Len(rx) => Delivered(i)' = Delivered(i)
  <2>1. ASSUME NEW i \in Int, -2 <= i, i <= Past + Len(rx)
        PROVE  Delivered(i)' = Delivered(i)
    <3>1. CASE i <= Past
      BY <1>1, <1>3, <2>1, <3>1 DEF Delivered
    <3>2. CASE i = Past + 1
      <4>1. Delivered(i) = rx[1] /\ Delivered(i)' = Kept(i)'
        BY <1>1, <1>3, <3>2 DEF Delivered
      <4> QED
        BY <1>2, <1>3, <3>2, <4>1
    <3>3. CASE i > Past + 1
      <4>1. Delivered(i) = rx[i - Past] /\ Delivered(i)' = rx'[i - Past - 1]
        BY <1>1, <1>3, <3>3 DEF Delivered
      <4>2. i - Past - 1 \in 1..Len(rx) - 1
        BY <1>1, <2>1, <3>3
      <4> QED
        BY <1>1, <1>2, <1>3, <4>1, <4>2
    <3> QED
      BY <1>1, <2>1, <3>1, <3>2, <3>3
  <2> QED
    BY <1>1, <1>2, <1>3, <2>1
\* Outside an upload.
<1>4. ASSUME ~InUpload', Past' <= Past + 1, Receive \/ (rx' = rx /\ Past' <= Past), Past' \in Int
      PROVE  Past' + Len(rx') <= Past + Len(rx)
  BY <1>1, <1>2, <1>4
<1>5. CASE CheckFlash \/ CopyFlash \/ FinishFlash
  <2>1. rx' = rx /\ ~InUpload /\ ~InUpload'
    BY <1>5 DEF CheckFlash, CopyFlash, FinishFlash, BackToIdle, Run, InUpload, lineVars
  <2>2. Past' = -2 /\ Past = -2
    BY <2>1 DEF Past, InUpload
  <2> QED
    BY <1>1, <2>1, <2>2
<1>6. CASE BeginUpload \/ GoCommand \/ FlashCommand \/ OtherCommand
  <2>1. Receive /\ pc = "idle" /\ pc' \in {"magic", "app", "idle", "flash"}
    BY <1>6 DEF BeginUpload, GoCommand, FlashCommand, OtherCommand, Run, Fail, BackToIdle, romVars
  <2>2. Past = -2 /\ Past' \in {-2, -3}
    BY <2>1 DEF Past
  <2>3. Past' + Len(rx') < Past + Len(rx) /\ Len(rx') \in Nat
    BY <1>1, <1>2, <2>1, <2>2
  <2> QED
    BY <1>1, <2>1, <2>2, <2>3
<1>7. CASE ReadMagic
  <2>1. Receive /\ pc = "magic" /\ Past = -3 /\ InUpload
    BY <1>7 DEF ReadMagic, Past, InUpload
  <2>2. CASE Received = Magic
    <3>1. pc' = "size" /\ Past' = -2 /\ InUpload'
      BY <1>7, <2>2 DEF ReadMagic, Past, InUpload
    <3>2. \A i : i = Past + 1 => Kept(i)' = Received
      BY <2>1, <2>2 DEF Kept
    <3>3. \A i \in Int : ~(-2 <= i /\ i <= Past)
      BY <2>1
    <3> QED
      BY <1>1, <1>2, <1>3, <2>1, <3>1, <3>2, <3>3
  <2>3. CASE Received # Magic
    <3>1. pc' = "idle" /\ Past' = -2 /\ ~InUpload'
      BY <1>7, <2>3 DEF ReadMagic, Fail, BackToIdle, Past, InUpload
    <3> QED
      BY <1>1, <1>2, <1>4, <2>1, <3>1
  <2> QED
    BY <2>2, <2>3
<1>8. CASE ReadSize
  <2>1. /\ Receive /\ pc = "size" /\ Past = -2 /\ InUpload
        /\ pc' = "crc" /\ Past' = -1 /\ InUpload'
    BY <1>8 DEF ReadSize, Past, InUpload
  <2>2. (\A i : i = Past + 1 => Kept(i)' = Received) /\ Kept(-2)' = Kept(-2)
    BY <1>8, <2>1 DEF ReadSize, Kept
  <2>3. \A i \in Int : -2 <= i /\ i <= Past => i = -2
    BY <2>1
  <2> QED
    BY <1>1, <1>2, <1>3, <2>1, <2>2, <2>3
<1>9. CASE ReadCrc
  <2>1. Receive /\ pc = "crc" /\ Past = -1 /\ InUpload
    BY <1>9 DEF ReadCrc, Past, InUpload
  <2>2. CASE expectedSize \in 1..MaxSize
    <3>1. pc' = "data" /\ Past' = 0 /\ InUpload'
      BY <1>9, <2>2 DEF ReadCrc, Past, InUpload
    <3>2. /\ \A i : i = Past + 1 => Kept(i)' = Received
          /\ Kept(-2)' = Kept(-2) /\ Kept(-1)' = Kept(-1)
      BY <1>9, <2>1, <2>2 DEF ReadCrc, Kept
    <3>3. \A i \in Int : -2 <= i /\ i <= Past => i = -2 \/ i = -1
      BY <2>1
    <3> QED
      BY <1>1, <1>2, <1>3, <2>1, <3>1, <3>2, <3>3
  <2>3. CASE expectedSize \notin 1..MaxSize
    <3>1. pc' = "idle" /\ Past' = -2 /\ ~InUpload'
      BY <1>9, <2>3 DEF ReadCrc, Fail, BackToIdle, Past, InUpload
    <3> QED
      BY <1>1, <1>2, <1>4, <2>1, <3>1
  <2> QED
    BY <2>2, <2>3
<1>10. CASE ReadData
  <2>1. /\ Receive /\ pc = "data" /\ Past = offset /\ InUpload /\ offset < expectedSize
        /\ expectedSize \in 1..MaxSize /\ offset + 1 \in 1..MaxSize
        /\ mem' = [mem EXCEPT ![offset + 1] = Received] /\ mem \in [1..MaxSize -> Token]
    BY <1>0, <1>10 DEF ReadData, Past, InUpload, TransferIsSound, InTransfer, TypeOK
  <2>2. CASE offset + 1 < expectedSize
    <3>1. /\ pc' = "data" /\ offset' = offset + 1 /\ UNCHANGED <<expectedSize, expectedCrc>>
      BY <1>10, <2>2 DEF ReadData
    <3>2. Past' = Past + 1 /\ InUpload'
      BY <2>1, <3>1 DEF Past, InUpload
    <3>3. \A i : i = Past + 1 => Kept(i)' = Received
      <4>1. PICK k : k = offset + 1
        OBVIOUS
      <4>2. k \notin {-2, -1, 0} /\ mem'[k] = Received
        BY <1>0, <2>1, <4>1
      <4>3. Kept(k)' = Received
        BY <4>2 DEF Kept
      <4> QED
        BY <2>1, <4>1, <4>3
    <3>4. ASSUME NEW i \in Int, -2 <= i, i <= Past
          PROVE  Kept(i)' = Kept(i)
      <4>1. CASE i \in {-2, -1, 0}
        BY <3>1, <4>1 DEF Kept
      <4>2. CASE i \notin {-2, -1, 0}
        <5>1. i \in 1..MaxSize /\ i # offset + 1
          BY <1>0, <2>1, <3>4, <4>2
        <5> QED
          BY <2>1, <5>1 DEF Kept
      <4> QED
        BY <4>1, <4>2
    <3> QED
      BY <1>1, <1>2, <1>3, <2>1, <3>2, <3>3, <3>4
  <2>3. CASE ~(offset + 1 < expectedSize)
    <3>1. pc' \in {"idle", "app"}
      BY <1>10, <2>3 DEF ReadData, Good, Bad, Run, BackToIdle
    <3>2. Past' = -2 /\ ~InUpload'
      BY <3>1 DEF Past, InUpload
    <3> QED
      BY <1>0, <1>1, <1>2, <1>4, <2>1, <3>2
  <2> QED
    BY <2>2, <2>3
<1> QED
  BY <1>5, <1>6, <1>7, <1>8, <1>9, <1>10 DEF RomStep

-----------------------------------------------------------------------------
(***************************************************************************)
(* What an upload promises until it ends.                                  *)
(***************************************************************************)
Garbled == {i \in -2..SentUpTo : Delivered(i) # Stream(job, i)}

Hears(line) == \E i \in 1..Len(toHost) : toHost[i] = line

\* The ROM has the image of the job, and has nothing more to do.
Done ==
  /\ pc \in {"idle", "app"} /\ uploaded = Total(job)
  /\ Content(mem, uploaded) = job.image

\* Nothing is on the way when the command is sent, and nothing but what it is
\* answered when the uploader waits for READY.
Called ==
  /\ At = 1 => rx = <<>> /\ toHost = <<>>
  /\ At = 2 => /\ Len(rx) <= 1 /\ (rx # <<>> => toHost = <<>>)
               /\ Hears(Line("READY")) => Len(toHost) = 1 /\ pc = "magic"

\* No more arrives than was sent; when nothing got lost, only faults make a
\* difference to it.
InStep ==
  /\ Past + Len(rx) <= SentUpTo
  /\ InUpload /\ Past + Len(rx) = SentUpTo => Cardinality(Garbled) <= faults

\* Once all is acknowledged, everything was sent and is taken.
Taken ==
  Hears(NextLine(Total(job))) \/ At = Last(job) =>
    rx = <<>> /\ pc \in {"data", "idle", "app"} /\ SentUpTo = Total(job)

\* OK behind the acknowledgement of all of it speaks of this image.
OkIsTrue ==
  /\ \A i, k \in 1..Len(toHost) :
       i < k /\ toHost[i] = NextLine(Total(job)) /\ toHost[k] = Line("OK") => Done
  /\ At = Last(job) /\ Hears(Line("OK")) => Done

UploadInv ==
  outcome = "busy" /\ ~cut => Called /\ (At >= 3 => InStep /\ Taken /\ OkIsTrue)

SystemInv == RomInv /\ HostInv /\ UploadInv

-----------------------------------------------------------------------------
\* How far the script has come, while it streams.
LEMMA SentFacts ==
  ASSUME HostInv, outcome = "busy", At >= 3
  PROVE  /\ SentUpTo \in -3..Total(job) /\ SentUpTo \in Int /\ Total(job) \in Nat \ {0}
         /\ job \in Job /\ faults \in Nat /\ MaxFaults \in Nat /\ faults <= MaxFaults
         /\ At \in 1..Last(job)
<1>1. job \in Job /\ At \in 1..Last(job)
  BY AtFacts DEF HostInv
<1>2. SentUpTo \in -3..Total(job)
  BY <1>1, StepFacts DEF SentUpTo
<1>3. faults \in Nat /\ MaxFaults \in Nat /\ faults <= MaxFaults
  BY JobAssumption DEF HostInv
<1> QED
  BY <1>1, <1>2, <1>3, JobFacts

LEMMA GarbledFinite ==
  ASSUME NEW n \in Int, NEW G, G \subseteq -2..n
  PROVE  IsFiniteSet(G) /\ Cardinality(G) \in Nat
<1>1. IsFiniteSet(-2..n)
  BY FS_Interval
<1> QED
  BY <1>1, FS_Subset, FS_CardinalityType

\* An image that has arrived whole, in the length and with the CRC announced,
\* is the image that was sent: for another one, its CRC and MaxFaults of its
\* tokens would have to be garbled.
LEMMA RightImage ==
  ASSUME RomInv, HostInv, outcome = "busy", At >= 3, InStep, SentUpTo = Total(job),
         Past + Len(rx) = SentUpTo, InUpload,
         NEW c \in Image, Len(c) = Total(job),
         \A i \in 1..Total(job) : Delivered(i) = c[i],
         Delivered(0) = Crc(c)
  PROVE  c = job.image
<1>1. /\ SentUpTo \in Int /\ Total(job) \in Nat \ {0} /\ job \in Job /\ MaxFaults \in Nat
      /\ faults \in Nat /\ faults <= MaxFaults
  BY SentFacts
<1>2. job.image \in Image /\ Len(job.image) = Total(job)
  BY <1>1, JobFacts DEF Total
<1> SUFFICES ASSUME c # job.image PROVE FALSE
  OBVIOUS
<1> DEFINE D == {i \in 1..Len(c) : c[i] # job.image[i]}
<1>3. Crc(c) # Crc(job.image) /\ Cardinality(D) >= MaxFaults
  BY <1>2, LineAssumption
<1>4. D \subseteq Garbled /\ 0 \in Garbled /\ 0 \notin D
  BY <1>1, <1>3 DEF Garbled, Stream
<1>5. Garbled \subseteq -2..SentUpTo
  BY DEF Garbled
<1> HIDE DEF D
<1>6. IsFiniteSet(Garbled) /\ Cardinality(Garbled) \in Nat
  BY <1>1, <1>5, GarbledFinite
<1>7. IsFiniteSet(D) /\ Cardinality(D) \in Nat
  BY <1>4, <1>6, FS_Subset, FS_CardinalityType
<1>8. Cardinality(D \cup {0}) = Cardinality(D) + 1
  BY <1>4, <1>7, FS_AddElement
<1>9. Cardinality(D \cup {0}) <= Cardinality(Garbled)
  <2>1. D \cup {0} \subseteq Garbled
    BY <1>4
  <2> QED
    BY <1>6, <2>1, FS_Subset
<1>10. Cardinality(Garbled) <= faults
  BY DEF InStep
<1> QED
  BY <1>1, <1>3, <1>6, <1>7, <1>8, <1>9, <1>10

\* Between a number and the next one there is room for one.
LEMMA RoomForOne ==
  ASSUME NEW o \in Nat, NEW n \in Nat \ {0}, NEW s \in Int, s <= o + 1, o + n <= s
  PROVE  n = 1 /\ s = o + 1
OBVIOUS

\* The ROM reports OK for the length that was sent: it has the image.
LEMMA GoodIsDone ==
  ASSUME RomInv, HostInv, outcome = "busy", At >= 3, InStep, RomInv', RomStep, UNCHANGED job,
         NEW said, RomSays(said),
         NEW i \in 1..Len(said), said[i] = NextLine(Total(job)),
         NEW k \in 1..Len(said), said[k] = Line("OK")
  PROVE  Done'
<1>1. /\ SentUpTo \in -3..Total(job) /\ Total(job) \in Nat \ {0} /\ SentUpTo \in Int
  BY SentFacts
<1>2. /\ pc = "data" /\ Total(job) = offset + 1 /\ offset + 1 = expectedSize
      /\ pc' \in {"idle", "app"} /\ uploaded' = expectedSize
      /\ Crc(Content(mem', expectedSize)) = expectedCrc
  BY <1>1 DEF RomSays
<1>3. ReadData
  BY <1>2 DEF RomStep, CheckFlash, CopyFlash, FinishFlash, BeginUpload, GoCommand, FlashCommand,
     OtherCommand, ReadMagic, ReadSize, ReadCrc
<1>4. /\ Receive /\ mem' = [mem EXCEPT ![offset + 1] = Received]
      /\ mem \in [1..MaxSize -> Token] /\ mem' \in [1..MaxSize -> Token]
      /\ offset \in Nat /\ rx \in Seq(Token) /\ rx # <<>> /\ Received = rx[1]
      /\ expectedSize \in 1..MaxSize /\ expectedCrc \in Crcs
  BY <1>2, <1>3 DEF ReadData, RomInv, TypeOK, TransferIsSound, InTransfer, Receive, Received
<1>5. Past = offset /\ InUpload
  BY <1>2 DEF Past, InUpload
<1>6. Past + Len(rx) = SentUpTo /\ SentUpTo = Total(job) /\ Len(rx) = 1
  <2>1. Len(rx) \in Nat \ {0} /\ Past + Len(rx) <= SentUpTo
    BY <1>4 DEF InStep
  <2>2. offset \in Nat /\ Past = offset /\ Total(job) = offset + 1
    BY <1>2, <1>4, <1>5
  <2>3. SentUpTo \in Int /\ SentUpTo <= Total(job)
    BY <1>1
  <2> QED
    BY <2>1, <2>2, <2>3, RoomForOne
<1>7. PICK c : c = Content(mem', expectedSize)
  OBVIOUS
<1>8. c \in Image
  BY <1>2, <1>4, <1>7, MatchIsImage
<1>9. Len(c) = Total(job)
  <2>1. expectedSize \in 0..MaxSize
    BY <1>4, TokenAssumption
  <2>2. Content(mem', expectedSize) \in [1..expectedSize -> Token]
    BY <1>4, <2>1, ContentFacts
  <2>3. c \in [1..Total(job) -> Token]
    BY <1>2, <1>7, <2>2
  <2> QED
    BY <1>1, <2>3
<1>10. Delivered(0) = Crc(c)
  <2>1. offset \in Nat /\ Past = offset
    BY <1>4, <1>5
  <2>2. Delivered(0) = Kept(0)
    BY <2>1 DEF Delivered
  <2>3. Kept(0) = expectedCrc
    BY DEF Kept
  <2> QED
    BY <1>2, <1>7, <2>2, <2>3
<1>11. ASSUME NEW l \in 1..Total(job)
       PROVE  Delivered(l) = c[l]
  <2>1. c[l] = mem'[l] /\ l \in 1..MaxSize /\ l \in Nat
    BY <1>1, <1>2, <1>4, <1>7, TokenAssumption DEF Content
  <2>2. CASE l = offset + 1
    BY <1>4, <1>5, <2>1, <2>2 DEF Delivered
  <2>3. CASE l # offset + 1
    <3>1. l <= Past /\ l \notin {-2, -1, 0} /\ mem'[l] = mem[l]
      BY <1>2, <1>4, <1>5, <2>1, <2>3
    <3> QED
      BY <1>4, <1>5, <2>1, <3>1 DEF Delivered, Kept
  <2> QED
    BY <2>2, <2>3
<1>12. c = job.image
  <2>1. SentUpTo = Total(job) /\ Past + Len(rx) = SentUpTo
    BY <1>6
  <2> QED
    BY <1>5, <1>8, <1>9, <1>10, <1>11, <2>1, RightImage
<1> QED
  BY <1>2, <1>7, <1>12 DEF Done

\* A line of two sequences of lines is in one of them.
LEMMA ConcatLines ==
  ASSUME NEW s \in Seq(HostLine), NEW t \in Seq(HostLine), NEW u, u = s \o t,
         NEW i \in 1..Len(u)
  PROVE  \/ i \in 1..Len(s) /\ u[i] = s[i]
         \/ i - Len(s) \in 1..Len(t) /\ u[i] = t[i - Len(s)]
<1>1. /\ Len(s) \in Nat /\ Len(t) \in Nat /\ Len(u) = Len(s) + Len(t)
      /\ \A k \in 1..Len(s) : u[k] = s[k]
      /\ \A k \in 1..Len(t) : u[Len(s) + k] = t[k]
  BY ConcatFacts
<1>2. CASE i <= Len(s)
  BY <1>1, <1>2
<1>3. CASE ~(i <= Len(s))
  <2>1. i - Len(s) \in 1..Len(t) /\ Len(s) + (i - Len(s)) = i
    BY <1>1, <1>3
  <2> QED
    BY <1>1, <2>1
<1> QED
  BY <1>2, <1>3

\* The ROM needs something to read, but for the flash.
LEMMA RomReads ==
  ASSUME RomStep
  PROVE  Receive \/ (pc \in {"flash", "copy"} /\ UNCHANGED <<rx, toHost>>)
BY DEF RomStep, CheckFlash, CopyFlash, FinishFlash, BeginUpload, GoCommand, FlashCommand,
   OtherCommand, ReadMagic, ReadSize, ReadCrc, ReadData, lineVars

LEMMA AtMostOne == \A n \in Nat : n # 0 /\ n <= 1 => n = 1
OBVIOUS

\* A step of the ROM keeps what the upload promises.
LEMMA RomKeepsUpload ==
  ASSUME SystemInv, RomInv', RomStep, UNCHANGED <<hostVars, faults, cut>>
  PROVE  UploadInv'
<1> SUFFICES ASSUME outcome = "busy", ~cut
             PROVE  Called' /\ (At' >= 3 => InStep' /\ Taken' /\ OkIsTrue')
  BY DEF UploadInv, hostVars
<1>0. /\ RomInv /\ HostInv /\ toHost \in Seq(HostLine) /\ rx \in Seq(Token) /\ Called
      /\ At >= 3 => InStep /\ Taken /\ OkIsTrue
  BY DEF SystemInv, UploadInv, HostInv, RomInv, TypeOK
<1>1. PICK said : RomSays(said)
  BY <1>0, RomLines
<1>2. /\ UNCHANGED <<job, todo, outcome, faults>> /\ At' = At /\ SentUpTo' = SentUpTo
      /\ At \in 1..Last(job)
  BY <1>0, AtFacts DEF hostVars, At, SentUpTo
<1>3. /\ said \in Seq(HostLine) /\ toHost' = toHost \o said /\ (said # <<>> => rx # <<>>)
      /\ rx' = rx \/ (rx # <<>> /\ Len(rx') = Len(rx) - 1)
      /\ Len(rx) \in Nat /\ (rx # <<>> => Len(rx) # 0) /\ (Receive => rx # <<>>)
  <2>1. rx' = rx \/ (rx # <<>> /\ rx' = Tail(rx))
    BY <1>0, RomMoves DEF Receive
  <2> QED
    BY <1>0, <1>1, <2>1, TailFacts DEF RomSays, Receive
<1>4. ASSUME NEW i \in 1..Len(toHost')
      PROVE  \/ i \in 1..Len(toHost) /\ toHost'[i] = toHost[i]
             \/ i - Len(toHost) \in 1..Len(said) /\ toHost'[i] = said[i - Len(toHost)]
  BY <1>0, <1>3, ConcatLines
<1>5. Called'
  <2>1. ASSUME At = 1 PROVE rx' = <<>> /\ toHost' = <<>>
    <3>1. rx = <<>> /\ toHost = <<>>
      BY <1>0, <2>1 DEF Called
    <3>2. said = <<>> /\ rx' = rx
      BY <1>3, <3>1
    <3> QED
      BY <1>3, <3>1, <3>2
  <2>2. ASSUME At = 2
        PROVE  /\ Len(rx') <= 1 /\ (rx' # <<>> => toHost' = <<>>)
               /\ Hears(Line("READY"))' => Len(toHost') = 1 /\ pc' = "magic"
    <3>1. /\ Len(rx) <= 1 /\ (rx # <<>> => toHost = <<>>)
          /\ Hears(Line("READY")) => Len(toHost) = 1 /\ pc = "magic"
      BY <1>0, <2>2 DEF Called
    <3>2. CASE Receive
      <4>1. rx # <<>> /\ rx' = Tail(rx) /\ toHost = <<>> /\ Len(rx) = 1 /\ toHost' = said
        <5>1. rx # <<>> /\ rx' = Tail(rx)
          BY <3>2 DEF Receive
        <5>2. toHost = <<>> /\ Len(rx) = 1
          <6>1. Len(rx) \in Nat /\ Len(rx) # 0
            BY <1>3, <5>1
          <6>2. toHost = <<>> /\ Len(rx) <= 1
            BY <3>1, <5>1
          <6> QED
            BY <6>1, <6>2, AtMostOne
        <5>3. <<>> \o said = said
          BY <1>3
        <5> QED
          BY <1>3, <5>1, <5>2, <5>3
      <4>2. rx' = <<>> /\ Len(rx') = 0
        BY <1>0, <4>1
      <4>3. Hears(Line("READY"))' => Len(toHost') = 1 /\ pc' = "magic"
        BY <1>1, <4>1 DEF Hears, RomSays
      <4> QED
        BY <4>2, <4>3
    <3>3. CASE pc \in {"flash", "copy"} /\ UNCHANGED <<rx, toHost>>
      BY <3>1, <3>3 DEF Hears
    <3> QED
      BY <3>2, <3>3, RomReads
  <2> QED
    BY <1>2, <2>1, <2>2 DEF Called
<1>6. ASSUME At >= 3
      PROVE  InStep' /\ Taken' /\ OkIsTrue'
  <2> DEFINE L == Total(job)
  <2>1. InStep /\ Taken /\ OkIsTrue
    BY <1>0, <1>6
  <2>2. /\ SentUpTo \in Int /\ SentUpTo <= L /\ L \in Nat \ {0} /\ job \in Job
    BY <1>0, <1>6, SentFacts
  <2>3. ~Hears(NextLine(L)) /\ At # Last(job)
    <3> SUFFICES ASSUME Hears(NextLine(L)) \/ At = Last(job) PROVE FALSE
      OBVIOUS
    <3>1. rx = <<>> /\ pc \in {"data", "idle", "app"}
      BY <2>1 DEF Taken
    <3> QED
      BY <3>1, RomReads DEF Receive
  <2>4. InStep'
    <3>1. /\ Past \in Int /\ Past' \in Int /\ Len(rx) \in Nat /\ Len(rx') \in Nat
          /\ Past' + Len(rx') <= Past + Len(rx)
          /\ InUpload' /\ Past' + Len(rx') = Past + Len(rx) =>
               /\ InUpload
               /\ \A i \in Int : -2 <= i /\ i <= Past + Len(rx) => Delivered(i)' = Delivered(i)
      BY <1>0, RomMoves
    <3>2. Past + Len(rx) <= SentUpTo
      BY <2>1 DEF InStep
    <3>3. Past' + Len(rx') <= SentUpTo
      BY <2>2, <3>1, <3>2
    <3>4. ASSUME InUpload', Past' + Len(rx') = SentUpTo
          PROVE  Cardinality(Garbled') <= faults
      <4>1. Past + Len(rx) = SentUpTo
        BY <2>2, <3>1, <3>2, <3>4
      <4>2. InUpload /\ \A i \in -2..SentUpTo : Delivered(i)' = Delivered(i)
        BY <2>2, <3>1, <3>4, <4>1
      <4>3. Garbled' = Garbled
        BY <1>2, <4>2 DEF Garbled
      <4> QED
        BY <2>1, <4>1, <4>2, <4>3 DEF InStep
    <3> QED
      BY <1>2, <3>3, <3>4 DEF InStep
  <2>5. ASSUME NEW i \in 1..Len(toHost'), toHost'[i] = NextLine(L)
        PROVE  i - Len(toHost) \in 1..Len(said) /\ said[i - Len(toHost)] = NextLine(L)
    BY <1>4, <2>3, <2>5 DEF Hears
  <2>6. Taken'
    <3>1. ASSUME NEW i \in 1..Len(toHost'), toHost'[i] = NextLine(L)
          PROVE  rx' = <<>> /\ pc' \in {"data", "idle", "app"} /\ SentUpTo = L
      <4>1. pc = "data" /\ L = offset + 1 /\ Receive
        <5>1. PICK k \in 1..Len(said) : said[k] = NextLine(L)
          BY <2>5, <3>1
        <5>2. said # <<>>
          BY <1>3, <5>1
        <5> QED
          BY <1>1, <2>2, <5>1, <5>2 DEF RomSays
      <4>2. offset \in Nat /\ Past = offset /\ Len(rx) \in Nat \ {0}
        BY <1>0, <1>3, <4>1 DEF RomInv, TypeOK, Past
      <4>3. offset + Len(rx) <= SentUpTo /\ SentUpTo <= offset + 1
        BY <2>1, <2>2, <4>1, <4>2 DEF InStep
      <4>4. Len(rx) = 1 /\ SentUpTo = L
        BY <2>2, <4>1, <4>2, <4>3, RoomForOne
      <4>5. rx' = <<>>
        BY <1>0, <4>1, <4>4 DEF Receive
      <4>6. pc' \in {"data", "idle", "app"}
        BY <4>1 DEF RomStep, CheckFlash, CopyFlash, FinishFlash, BeginUpload, GoCommand,
           FlashCommand, OtherCommand, ReadMagic, ReadSize, ReadCrc, ReadData, Good, Bad, Run,
           BackToIdle
      <4> QED
        BY <4>4, <4>5, <4>6
    <3> QED
      BY <1>2, <2>3, <3>1 DEF Taken, Hears
  <2>7. OkIsTrue'
    <3>1. ASSUME NEW i \in 1..Len(toHost'), NEW k \in 1..Len(toHost'), i < k,
                 toHost'[i] = NextLine(L), toHost'[k] = Line("OK")
          PROVE  Done'
      <4>1. i - Len(toHost) \in 1..Len(said) /\ said[i - Len(toHost)] = NextLine(L)
        BY <2>5, <3>1
      <4>2. k - Len(toHost) \in 1..Len(said) /\ said[k - Len(toHost)] = Line("OK")
        <5>1. Len(toHost) \in Nat /\ ~(k \in 1..Len(toHost))
          BY <1>0, <3>1, <4>1
        <5> QED
          BY <1>4, <3>1, <5>1
      <4>3. InStep /\ job' = job /\ RomInv /\ HostInv
        BY <1>0, <1>2, <2>1
      <4> QED
        BY <1>1, <1>6, <4>1, <4>2, <4>3, GoodIsDone
    <3> QED
      BY <1>2, <2>3, <3>1 DEF OkIsTrue
  <2> QED
    BY <2>4, <2>6, <2>7
<1> QED
  BY <1>2, <1>5, <1>6

\* The ROM's own part of the promises stays when it does nothing.
LEMMA QuietFacts ==
  ASSUME UNCHANGED <<romVars, job>>
  PROVE  /\ Past' = Past /\ InUpload' = InUpload /\ (Done => Done')
         /\ \A i : Kept(i)' = Kept(i)
BY DEF romVars, Past, InUpload, Done, Kept, Total

\* A line that goes, or nothing.
LEMMA QuietKeepsUpload ==
  ASSUME SystemInv, UNCHANGED <<romVars, rx, cut, job, todo, outcome>>,
         faults' \in {faults, faults + 1},
         toHost' = toHost \/ (toHost # <<>> /\ toHost' = Tail(toHost))
  PROVE  UploadInv'
<1> SUFFICES ASSUME outcome = "busy", ~cut
             PROVE  Called' /\ (At' >= 3 => InStep' /\ Taken' /\ OkIsTrue')
  BY DEF UploadInv
<1>0. /\ RomInv /\ HostInv /\ toHost \in Seq(HostLine) /\ Called
      /\ At >= 3 => InStep /\ Taken /\ OkIsTrue
  BY DEF SystemInv, UploadInv, HostInv
<1>1. At' = At /\ SentUpTo' = SentUpTo
  BY DEF At, SentUpTo
<1>2. Past' = Past /\ InUpload' = InUpload /\ (Done => Done') /\ \A i : Kept(i)' = Kept(i)
  BY QuietFacts
<1>3. /\ Len(toHost) \in Nat /\ Len(toHost') \in Nat /\ Len(toHost') <= Len(toHost)
      /\ \E d \in {0, 1} : \A i \in 1..Len(toHost') :
           i + d \in 1..Len(toHost) /\ toHost'[i] = toHost[i + d]
  <2>1. CASE toHost' = toHost
    BY <1>0, <2>1
  <2>2. CASE toHost # <<>> /\ toHost' = Tail(toHost)
    <3>1. /\ Len(toHost) \in Nat /\ Len(toHost') = Len(toHost) - 1 /\ Len(toHost) # 0
          /\ \A i \in 1..Len(toHost) - 1 : toHost'[i] = toHost[i + 1]
      BY <1>0, <2>2, TailFacts
    <3>2. \A i \in 1..Len(toHost') : i + 1 \in 1..Len(toHost) /\ toHost'[i] = toHost[i + 1]
      BY <3>1
    <3> QED
      BY <3>1, <3>2
  <2> QED
    BY <2>1, <2>2
<1>4. PICK d \in {0, 1} : \A i \in 1..Len(toHost') :
        i + d \in 1..Len(toHost) /\ toHost'[i] = toHost[i + d]
  BY <1>3
<1>5. ASSUME NEW l, Hears(l)'
      PROVE  Hears(l)
  BY <1>4, <1>5 DEF Hears
<1>6. Called'
  <2>1. ASSUME At = 1 PROVE rx' = <<>> /\ toHost' = <<>>
    BY <1>0, <2>1 DEF Called
  <2>2. ASSUME At = 2
        PROVE  /\ Len(rx') <= 1 /\ (rx' # <<>> => toHost' = <<>>)
               /\ Hears(Line("READY"))' => Len(toHost') = 1 /\ pc' = "magic"
    <3>1. /\ Len(rx) <= 1 /\ (rx # <<>> => toHost = <<>>) /\ rx' = rx
          /\ Hears(Line("READY")) => Len(toHost) = 1 /\ pc = "magic"
      BY <1>0, <2>2 DEF Called
    <3>2. rx' # <<>> => toHost' = <<>>
      BY <3>1
    <3>3. ASSUME Hears(Line("READY"))'
          PROVE  Len(toHost') = 1 /\ pc' = "magic"
      <4>1. Len(toHost) = 1 /\ pc' = "magic"
        BY <1>5, <3>1, <3>3 DEF romVars
      <4>2. Len(toHost') # 0
        BY <3>3 DEF Hears
      <4> QED
        BY <1>3, <4>1, <4>2, AtMostOne
    <3> QED
      BY <3>1, <3>2, <3>3
  <2> QED
    BY <1>1, <2>1, <2>2 DEF Called
<1>7. ASSUME At >= 3
      PROVE  InStep' /\ Taken' /\ OkIsTrue'
  <2>1. InStep /\ Taken /\ OkIsTrue /\ faults \in Nat /\ SentUpTo \in Int /\ job \in Job
    BY <1>0, <1>7, SentFacts
  <2>2. Garbled' = Garbled
    <3>1. \A i : Delivered(i)' = Delivered(i)
      BY <1>2 DEF Delivered
    <3> QED
      BY <1>1, <3>1 DEF Garbled
  <2>3. InStep'
    <3>1. Cardinality(Garbled) \in Nat
      BY <2>1, GarbledFinite DEF Garbled
    <3> QED
      BY <1>1, <1>2, <2>1, <2>2, <3>1 DEF InStep
  <2>4. Taken'
    <3>1. Hears(NextLine(Total(job)))' => Hears(NextLine(Total(job)))
      BY <1>5 DEF Hears
    <3> QED
      BY <1>1, <2>1, <3>1 DEF Taken, romVars
  <2>5. OkIsTrue'
    <3>1. ASSUME NEW i \in 1..Len(toHost'), NEW k \in 1..Len(toHost'), i < k,
                 toHost'[i] = NextLine(Total(job)), toHost'[k] = Line("OK")
          PROVE  Done'
      <4>1. /\ i + d \in 1..Len(toHost) /\ k + d \in 1..Len(toHost) /\ i + d < k + d
            /\ toHost[i + d] = NextLine(Total(job)) /\ toHost[k + d] = Line("OK")
        <5>1. /\ i + d \in 1..Len(toHost) /\ toHost[i + d] = NextLine(Total(job))
              /\ k + d \in 1..Len(toHost) /\ toHost[k + d] = Line("OK")
          BY <1>4, <3>1
        <5>2. \A n, m \in Int : n < m => n + d < m + d
          BY <1>4
        <5>3. i \in Int /\ k \in Int /\ i < k
          BY <3>1
        <5> QED
          BY <5>1, <5>2, <5>3
      <4> QED
        BY <1>2, <2>1, <4>1 DEF OkIsTrue
    <3>2. ASSUME At = Last(job), Hears(Line("OK"))'
          PROVE  Done'
      <4>1. Hears(Line("OK"))
        BY <1>5, <3>2
      <4> QED
        BY <1>2, <2>1, <3>2, <4>1 DEF OkIsTrue
    <3> QED
      BY <1>1, <3>1, <3>2 DEF OkIsTrue
  <2> QED
    BY <2>3, <2>4, <2>5
<1> QED
  BY <1>1, <1>6, <1>7

\* Before all is acknowledged there is nothing more to keep.
LEMMA NoneHeard ==
  ASSUME UNCHANGED <<toHost, job>>, ~Hears(NextLine(Total(job))),
         At \in Nat, At >= 3, At' = At + 1, Last(job) \in Nat, At < Last(job) - 1
  PROVE  Called' /\ Taken' /\ OkIsTrue'
<1>1. At' # 1 /\ At' # 2 /\ At' # Last(job) /\ toHost' = toHost /\ job' = job
  OBVIOUS
<1>2. ~Hears(NextLine(Total(job)))'
  BY <1>1 DEF Hears
<1> QED
  BY <1>1, <1>2 DEF Called, Taken, OkIsTrue, Hears

\* A token that is sent, lost or garbled.
LEMMA SendKeepsUpload ==
  ASSUME SystemInv, NEW t \in Token, UNCHANGED <<romVars, cut>>,
         \/ Host!SendToken /\ faults' = faults
         \/ (Host!SendLost \/ Host!SendGarbled(t)) /\ faults' = faults + 1
  PROVE  UploadInv'
<1>0. RomInv /\ HostInv /\ toHost \in Seq(HostLine) /\ rx \in Seq(Token)
  BY DEF SystemInv, HostInv, RomInv, TypeOK
<1> DEFINE now == Script(job)[At]
<1>1. /\ outcome = "busy" /\ now.do = "send" /\ Host!GoOn
      /\ now.token \in Token /\ UNCHANGED toHost
      /\ Host!SendToken => Arrive(now.token)
      /\ Host!SendLost => UNCHANGED rx
      /\ Host!SendGarbled(t) => Arrive(t)
  BY <1>0, SendStepFacts
<1> HIDE DEF now
<1>2. PICK a \in Token : \/ Host!SendLost /\ rx' = rx /\ faults' = faults + 1
                         \/ Arrive(a) /\ (a = now.token \/ faults' = faults + 1)
                                      /\ faults' \in {faults, faults + 1}
  BY <1>1
<1>3. /\ \/ rx' = rx
         \/ /\ Len(rx') = Len(rx) + 1 /\ rx'[Len(rx) + 1] = a
            /\ \A i \in 1..Len(rx) : rx'[i] = rx[i]
      /\ Len(rx) \in Nat
  BY <1>0, <1>2, ArriveFacts
<1>4. At \in 1..Last(job) /\ job \in Job /\ At # 2 /\ At # Last(job) /\ Last(job) >= 8
      /\ Last(job) \in Nat
  BY <1>0, <1>1, AtFacts, StepFacts DEF HostInv, now
<1>5. /\ job' = job /\ outcome' = "busy" /\ At' = At + 1 /\ SentUpTo' = SentAt(job, At + 1)
  BY <1>0, <1>1, <1>4, GoOnFacts
<1> SUFFICES ASSUME ~cut
             PROVE  Called' /\ (At' >= 3 => InStep' /\ Taken' /\ OkIsTrue')
  BY DEF UploadInv
<1>6. Called /\ (At >= 3 => InStep /\ Taken /\ OkIsTrue)
  BY <1>1 DEF SystemInv, UploadInv
<1>7. CASE At = 1
  <2>1. rx = <<>> /\ toHost' = <<>> /\ At' = 2
    BY <1>1, <1>5, <1>6, <1>7 DEF Called
  <2>2. Len(rx') <= 1
    <3>1. Len(rx) = 0
      BY <2>1
    <3> QED
      BY <1>3, <3>1
  <2> QED
    BY <2>1, <2>2 DEF Called, Hears
<1>8. CASE At >= 3
  <2> DEFINE L == Total(job)
  <2>1. /\ SentUpTo \in -3..L /\ SentUpTo \in Int /\ L \in Nat \ {0} /\ faults \in Nat
    BY <1>0, <1>1, <1>8, SentFacts
  <2>2. /\ At < Last(job) - 1 /\ SentUpTo < L /\ SentUpTo' = SentUpTo + 1
        /\ now.token = Stream(job, SentUpTo + 1)
    BY <1>1, <1>4, <1>5, <1>8, StepFacts DEF SentUpTo, now
  <2>3. ~Hears(NextLine(L))
    BY <1>6, <1>8, <2>1, <2>2 DEF Taken
  <2>4. Past' = Past /\ InUpload' = InUpload /\ \A i : Kept(i)' = Kept(i)
    BY <1>5, QuietFacts
  <2>5. Past \in Int /\ Past >= -3
    BY <1>0 DEF Past, RomInv, TypeOK
  <2>6. Past + Len(rx) <= SentUpTo
    BY <1>6, <1>8 DEF InStep
  <2>7. CASE rx' = rx
    <3>1. Past' + Len(rx') < SentUpTo'
      BY <1>3, <2>1, <2>2, <2>4, <2>5, <2>6, <2>7
    <3>2. InStep'
      <4>1. Past' + Len(rx') <= SentUpTo' /\ Past' + Len(rx') # SentUpTo'
        BY <1>3, <2>1, <2>2, <2>4, <2>5, <2>7, <3>1
      <4> QED
        BY <4>1 DEF InStep
    <3> QED
      BY <1>1, <1>4, <1>5, <1>8, <2>2, <2>3, <3>2, NoneHeard
  <2>8. CASE /\ Len(rx') = Len(rx) + 1 /\ rx'[Len(rx) + 1] = a
             /\ \A i \in 1..Len(rx) : rx'[i] = rx[i]
    <3>1. Past' + Len(rx') <= SentUpTo'
      BY <1>3, <2>1, <2>2, <2>4, <2>5, <2>6, <2>8
    <3>2. ASSUME InUpload', Past' + Len(rx') = SentUpTo'
          PROVE  Cardinality(Garbled') <= faults'
      <4>1. InUpload /\ Past + Len(rx) = SentUpTo
        BY <1>3, <2>1, <2>2, <2>4, <2>5, <2>8, <3>2
      <4>2. Cardinality(Garbled) <= faults
        BY <1>6, <1>8, <4>1 DEF InStep
      <4>3. ASSUME NEW i \in -2..SentUpTo
            PROVE  Delivered(i)' = Delivered(i)
        <5>1. i > Past => i - Past \in 1..Len(rx)
          BY <1>3, <2>1, <2>5, <4>1
        <5> QED
          BY <2>4, <2>8, <5>1 DEF Delivered
      <4>4. ASSUME NEW i, i = SentUpTo + 1
            PROVE  Delivered(i)' = a
        <5>1. i > Past /\ i - Past = Len(rx) + 1
          BY <1>3, <2>1, <2>5, <4>1, <4>4
        <5> QED
          BY <2>4, <2>8, <5>1 DEF Delivered
      <4>5. -2..SentUpTo + 1 = (-2..SentUpTo) \cup {SentUpTo + 1}
        BY <2>1
      <4>6. \A i : Stream(job, i)' = Stream(job, i)
        BY <1>5 DEF Stream, Total
      <4>7. Garbled' = IF a = now.token THEN Garbled ELSE Garbled \cup {SentUpTo + 1}
        <5>1. Garbled' = {i \in (-2..SentUpTo) \cup {SentUpTo + 1} :
                            Delivered(i)' # Stream(job, i)}
          BY <2>2, <4>5, <4>6 DEF Garbled
        <5>2. \A i \in -2..SentUpTo : i # SentUpTo + 1
          BY <2>1
        <5> QED
          BY <2>2, <4>3, <4>4, <5>1, <5>2 DEF Garbled
      <4>8. IsFiniteSet(Garbled) /\ Cardinality(Garbled) \in Nat
        BY <2>1, GarbledFinite DEF Garbled
      <4>9. CASE a = now.token
        BY <1>2, <2>1, <4>2, <4>7, <4>8, <4>9
      <4>10. CASE a # now.token
        <5>1. Cardinality(Garbled \cup {SentUpTo + 1})
                = IF SentUpTo + 1 \in Garbled THEN Cardinality(Garbled)
                  ELSE Cardinality(Garbled) + 1
          BY <4>8, FS_AddElement
        <5>2. faults' = faults + 1
          BY <1>2, <4>10
        <5>3. Garbled' = Garbled \cup {SentUpTo + 1}
          BY <4>7, <4>10
        <5> QED
          BY <2>1, <4>2, <4>8, <5>1, <5>2, <5>3
      <4> QED
        BY <4>9, <4>10
    <3>3. InStep'
      BY <3>1, <3>2 DEF InStep
    <3> QED
      BY <1>1, <1>4, <1>5, <1>8, <2>2, <2>3, <3>3, NoneHeard
  <2> QED
    BY <1>3, <2>7, <2>8
<1> QED
  BY <1>4, <1>7, <1>8

\* A line that is heard, or that does not come.
LEMMA WaitKeepsUpload ==
  ASSUME SystemInv, Host!HearLine \/ Host!TimeOut, UNCHANGED <<romVars, faults, cut>>
  PROVE  UploadInv'
<1>0. RomInv /\ HostInv /\ toHost \in Seq(HostLine)
  BY DEF SystemInv, HostInv
<1> DEFINE now == Script(job)[At]
           L == Total(job)
<1>1. /\ outcome = "busy" /\ now.do = "wait" /\ UNCHANGED rx
      /\ \/ Host!GiveUp
         \/ /\ toHost # <<>> /\ toHost' = Tail(toHost)
            /\ \/ Head(toHost) = now.line /\ Host!GoOn
               \/ UNCHANGED <<job, todo, outcome>>
  BY <1>0, WaitStepFacts
<1> HIDE DEF now
<1>2. CASE Host!GiveUp
  BY <1>2 DEF Host!GiveUp, UploadInv
<1>3. CASE /\ toHost # <<>> /\ toHost' = Tail(toHost) /\ UNCHANGED <<job, todo, outcome>>
  BY <1>1, <1>3, QuietKeepsUpload
<1>4. CASE /\ toHost # <<>> /\ toHost' = Tail(toHost) /\ Head(toHost) = now.line /\ Host!GoOn
  <2>1. At \in 1..Last(job) /\ job \in Job
    BY <1>0, <1>1, AtFacts DEF HostInv
  <2>2. /\ Last(job) \in Nat /\ Last(job) >= 8 /\ SentAt(job, 3) = -3
        /\ SentAt(job, Last(job)) = L /\ At # 1
        /\ At = 2 => now.line = Line("READY")
        /\ At >= 3 /\ At < Last(job) => SentAt(job, At + 1) = SentUpTo
        /\ At = Last(job) - 1 => now.line = NextLine(L)
    BY <1>1, <2>1, StepFacts DEF now, SentUpTo
  <2>3. /\ Len(toHost) \in Nat /\ Len(toHost) # 0 /\ Len(toHost') = Len(toHost) - 1
        /\ toHost[1] = now.line /\ toHost' \in Seq(HostLine)
        /\ \A i \in 1..Len(toHost') : i + 1 \in 1..Len(toHost) /\ toHost'[i] = toHost[i + 1]
    <3>1. /\ Head(toHost) = toHost[1] /\ toHost' \in Seq(HostLine)
          /\ Len(toHost) \in Nat \ {0} /\ Len(toHost') = Len(toHost) - 1
          /\ \A i \in 1..Len(toHost) - 1 : toHost'[i] = toHost[i + 1]
      BY <1>0, <1>4, TailFacts
    <3> QED
      BY <1>4, <3>1
  <2>4. CASE At = Last(job)
    <3>1. outcome' = "ok"
      BY <1>0, <1>1, <1>4, <2>4, GoOnFacts
    <3> QED
      BY <3>1 DEF UploadInv
  <2>5. CASE At # Last(job)
    <3>1. /\ job' = job /\ outcome' = "busy" /\ At' = At + 1 /\ SentUpTo' = SentAt(job, At + 1)
      BY <1>0, <1>1, <1>4, <2>5, GoOnFacts
    <3> SUFFICES ASSUME ~cut
                 PROVE  Called' /\ InStep' /\ Taken' /\ OkIsTrue'
      BY DEF UploadInv
    <3>2. Called /\ (At >= 3 => InStep /\ Taken /\ OkIsTrue)
      BY <1>1 DEF SystemInv, UploadInv
    <3>3. At' # 1 /\ At' # 2 /\ Called'
      BY <2>1, <2>2, <3>1 DEF Called
    <3>4. /\ Past' = Past /\ InUpload' = InUpload /\ (Done => Done') /\ pc' = pc
          /\ \A i : Kept(i)' = Kept(i)
      BY <3>1, QuietFacts DEF romVars
    <3>5. CASE At = 2
      <4>1. Len(toHost) = 1 /\ pc = "magic" /\ rx = <<>>
        <5>1. Hears(Line("READY"))
          BY <2>2, <2>3, <3>5 DEF Hears
        <5> QED
          BY <1>4, <3>2, <3>5, <5>1 DEF Called
      <4>2. Len(toHost') = 0 /\ At' = 3 /\ SentUpTo' = -3 /\ At' # Last(job)
        BY <2>2, <2>3, <3>1, <3>5, <4>1
      <4>3. Past' = -3 /\ Len(rx') = 0
        BY <1>1, <3>4, <4>1 DEF Past
      <4>4. Garbled' = {}
        <5>1. -2..-3 = {}
          OBVIOUS
        <5> QED
          BY <4>2, <5>1 DEF Garbled
      <4>5. Cardinality(Garbled') = 0 /\ faults' \in Nat
        BY <1>0, <4>4, FS_EmptySet DEF HostInv
      <4>6. InStep'
        BY <4>2, <4>3, <4>5 DEF InStep
      <4>7. Taken' /\ OkIsTrue'
        <5>1. ~(\E i \in 1..Len(toHost') : TRUE)
          BY <4>2
        <5> QED
          BY <3>1, <4>2, <5>1 DEF Taken, OkIsTrue, Hears
      <4> QED
        BY <3>3, <4>6, <4>7
    <3>6. CASE At >= 3
      <4>1. InStep /\ Taken /\ OkIsTrue /\ SentUpTo' = SentUpTo
        BY <2>1, <2>2, <2>5, <3>1, <3>2, <3>6
      <4>2. Garbled' = Garbled
        <5>1. \A i : Delivered(i)' = Delivered(i)
          BY <1>1, <3>4 DEF Delivered
        <5>2. \A i : Stream(job, i)' = Stream(job, i)
          BY <3>1 DEF Stream, Total
        <5> QED
          BY <4>1, <5>1, <5>2 DEF Garbled
      <4>3. InStep'
        BY <1>1, <3>4, <4>1, <4>2 DEF InStep
      <4>4. Hears(NextLine(L))' \/ At' = Last(job) => Hears(NextLine(L))
        <5>1. ASSUME At' = Last(job)
              PROVE  Hears(NextLine(L))
          <6>1. At = Last(job) - 1
            BY <2>1, <2>2, <3>1, <5>1
          <6>2. toHost[1] = NextLine(L) /\ 1 \in 1..Len(toHost)
            BY <2>2, <2>3, <6>1
          <6> QED
            BY <6>2 DEF Hears
        <5>2. ASSUME Hears(NextLine(L))'
              PROVE  Hears(NextLine(L))
          <6>1. PICK i \in 1..Len(toHost') : toHost'[i] = NextLine(L)
            BY <3>1, <5>2 DEF Hears
          <6> QED
            BY <2>3, <6>1 DEF Hears
        <5> QED
          BY <5>1, <5>2
      <4>5. Taken'
        BY <1>1, <3>1, <3>4, <4>1, <4>4 DEF Taken, Hears
      <4>6. ASSUME NEW i \in 1..Len(toHost'), NEW k \in 1..Len(toHost'), i < k,
                   toHost'[i] = NextLine(L), toHost'[k] = Line("OK")
            PROVE  Done'
        <5>1. /\ i + 1 \in 1..Len(toHost) /\ toHost[i + 1] = NextLine(L)
              /\ k + 1 \in 1..Len(toHost) /\ toHost[k + 1] = Line("OK") /\ i + 1 < k + 1
          BY <2>3, <4>6
        <5> QED
          BY <3>4, <4>1, <5>1 DEF OkIsTrue
      <4>7. ASSUME At' = Last(job), NEW k \in 1..Len(toHost'), toHost'[k] = Line("OK")
            PROVE  Done'
        <5>1. At = Last(job) - 1
          BY <2>1, <2>2, <3>1, <4>7
        <5>2. toHost[1] = NextLine(L) /\ 1 \in 1..Len(toHost)
          BY <2>2, <2>3, <5>1
        <5>3. k + 1 \in 1..Len(toHost) /\ toHost[k + 1] = Line("OK") /\ 1 < k + 1
          BY <2>3, <4>7
        <5> QED
          BY <3>4, <4>1, <5>2, <5>3 DEF OkIsTrue
      <4>8. OkIsTrue'
        BY <3>1, <4>6, <4>7 DEF OkIsTrue, Hears
      <4> QED
        BY <3>3, <4>3, <4>5, <4>8
    <3> QED
      BY <2>1, <2>2, <3>5, <3>6
  <2> QED
    BY <2>4, <2>5
<1> QED
  BY <1>1, <1>2, <1>3, <1>4

\* The application takes what comes over the line.
LEMMA AppKeepsUpload ==
  ASSUME SystemInv, AppReads
  PROVE  UploadInv'
<1> SUFFICES ASSUME outcome = "busy", ~cut
             PROVE  Called' /\ (At' >= 3 => InStep' /\ Taken' /\ OkIsTrue')
  BY DEF AppReads, hostVars, UploadInv
<1>0. /\ HostInv /\ rx \in Seq(Token) /\ Called
      /\ At >= 3 => InStep /\ Taken /\ OkIsTrue
  BY DEF SystemInv, UploadInv, RomInv, TypeOK
<1>1. /\ pc = "app" /\ rx # <<>> /\ rx' = Tail(rx)
      /\ UNCHANGED <<romVars, toHost, job, todo, outcome, faults>>
  BY DEF AppReads, Receive, hostVars
<1>2. Len(rx') = Len(rx) - 1 /\ Len(rx) \in Nat \ {0}
  BY <1>0, <1>1, TailFacts
<1>3. At' = At /\ SentUpTo' = SentUpTo /\ Past' = Past /\ Past = -2 /\ ~InUpload /\ ~InUpload'
  BY <1>1 DEF At, SentUpTo, Past, InUpload, romVars
<1>4. Called'
  BY <1>0, <1>1, <1>2, <1>3 DEF Called, Hears
<1>5. ASSUME At >= 3
      PROVE  InStep' /\ Taken' /\ OkIsTrue'
  <2>1. Past + Len(rx) <= SentUpTo /\ SentUpTo \in Int
    BY <1>0, <1>5, SentFacts DEF InStep
  <2>2. InStep'
    BY <1>2, <1>3, <2>1 DEF InStep
  <2>3. ~(Hears(NextLine(Total(job))) \/ At = Last(job))
    BY <1>0, <1>1, <1>5 DEF Taken
  <2>4. ~(Hears(NextLine(Total(job)))' \/ At' = Last(job))
    BY <1>1, <1>3, <2>3 DEF Hears
  <2> QED
    BY <1>1, <2>2, <2>4 DEF Taken, OkIsTrue, Hears
<1> QED
  BY <1>3, <1>4, <1>5

LEMMA NextSystemInv == SystemInv /\ [SystemNext]_systemVars => SystemInv'
<1> SUFFICES ASSUME SystemInv, [SystemNext]_systemVars PROVE SystemInv'
  OBVIOUS
<1>0. RomInv /\ HostInv /\ UploadInv
  BY DEF SystemInv
<1>1. RomInv' /\ HostInv'
  BY <1>0, SystemIsEnvironment, NextRomInv, NextHostInv
<1> SUFFICES UploadInv'
  BY <1>1 DEF SystemInv
<1>2. CASE RomStep /\ UNCHANGED <<hostVars, faults, cut>>
  BY <1>1, <1>2, RomKeepsUpload
<1>3. CASE AppReads
  BY <1>3, AppKeepsUpload
<1>4. CASE UserUploads
  <2>1. PICK j \in Job : Host!Open(j)
    BY <1>4 DEF UserUploads
  <2>2. rx' = <<>> /\ toHost' = <<>> /\ job' = j /\ todo' = Script(j)
    BY <2>1 DEF Host!Open
  <2>3. Len(Script(j)) = Last(j) /\ Last(j) \in Nat
    <3>1. PayloadSteps(j) \in Nat
      BY PayloadFacts
    <3> QED
      BY <3>1, ScriptParts DEF Last
  <2>4. At' = 1
    BY <2>2, <2>3 DEF At
  <2> QED
    BY <2>2, <2>4 DEF UploadInv, Called
<1>5. CASE PowerCycle
  <2>1. outcome' = outcome /\ cut' = (outcome = "busy")
    BY <1>5 DEF PowerCycle, Restart, hostVars
  <2> QED
    BY <2>1, Zenon DEF UploadInv
<1>6. CASE (Host!SendToken \/ Host!HearLine \/ Host!TimeOut) /\ UNCHANGED <<romVars, faults, cut>>
  <2>1. 0 \in Token
    BY TokenAssumption
  <2> QED
    BY <1>6, <2>1, SendKeepsUpload, WaitKeepsUpload
<1>7. CASE FaultOnLine
  <2>1. 0 \in Token
    BY TokenAssumption
  <2>2. CASE Host!LoseLine
    BY <1>7, <2>2, QuietKeepsUpload DEF FaultOnLine, Host!LoseLine
  <2>3. CASE ~Host!LoseLine
    <3>1. PICK t \in Token : Host!SendLost \/ Host!SendGarbled(t)
      BY <1>7, <2>1, <2>3 DEF FaultOnLine
    <3> QED
      BY <1>7, <3>1, SendKeepsUpload DEF FaultOnLine
  <2> QED
    BY <2>2, <2>3
<1>8. CASE Elsewhere
  <2>1. /\ UNCHANGED <<romVars, rx, cut, job, todo, outcome>> /\ toHost' = toHost
        /\ faults' \in {faults, faults + 1}
    BY <1>8 DEF Elsewhere, lineVars, hostVars
  <2> QED
    BY <2>1, QuietKeepsUpload
<1> QED
  BY <1>0, <1>2, <1>3, <1>4, <1>5, <1>6, <1>7, <1>8, SystemCases

-----------------------------------------------------------------------------
\* The inductive invariant of board, line, uploader and user.
THEOREM SystemInvariance == SystemSpec => []SystemInv
<1>1. SystemInit => SystemInv
  <2> SUFFICES ASSUME SystemInit PROVE SystemInv
    OBVIOUS
  <2>1. RomInv /\ HostInv
    BY InitRomInv, InitHostInv DEF SystemInit
  <2>2. outcome = "none"
    BY DEF SystemInit, Host!HostInit
  <2> QED
    BY <2>1, <2>2 DEF SystemInv, UploadInv
<1> QED
  BY <1>1, NextSystemInv, PTL DEF SystemSpec

\* In the whole system the boot ROM and the game are what they are alone: all
\* that is proved of Spec and of SnakeSpec holds with this uploader and user.
THEOREM PartsKeepTheirSpecs == SystemSpec => Spec /\ SnakeSpec
<1>1. SystemInit => Init /\ SnakeOff
  BY DEF SystemInit
<1>2. SystemInv /\ [SystemNext]_systemVars => [Next]_vars
  BY SystemIsEnvironment DEF SystemInv
<1>3. [SystemNext]_systemVars => [Welcome \/ GameStep \/ Off]_snakeVars
  BY DEF SystemNext, systemVars, Rom, AppReads, Game, UserUploads, UserResets, Restart, HostStep,
     Fault
<1> QED
  BY <1>1, <1>2, <1>3, SystemInvariance, PTL DEF SystemSpec, Spec, SnakeSpec

\* The step at which the uploader reports success.
LEMMA SuccessStep ==
  SystemInv /\ [SystemNext]_systemVars =>
    [outcome = "busy" /\ outcome' = "ok" /\ ~cut => Runnable' = job.image]_systemVars
<1> SUFFICES ASSUME SystemInv, [SystemNext]_systemVars, outcome = "busy", outcome' = "ok", ~cut
             PROVE  Runnable' = job.image
  OBVIOUS
<1>0. RomInv /\ HostInv /\ UploadInv /\ toHost \in Seq(HostLine)
  BY DEF SystemInv, HostInv
<1> DEFINE now == Script(job)[At]
<1>1. At \in 1..Last(job) /\ job \in Job
  BY <1>0, AtFacts DEF HostInv
<1>2. /\ Last(job) \in Nat /\ Last(job) >= 8
      /\ At = Last(job) => now.do = "wait" /\ now.line = Line("OK") /\ now.do # "send"
  BY <1>1, StepFacts
<1>3. Host!GoOn => At = Last(job)
  BY <1>0, GoOnFacts
<1>4. (Host!HearLine \/ Host!TimeOut) /\ UNCHANGED romVars
  <2>1. ~(RomStep /\ UNCHANGED <<hostVars, faults, cut>>) /\ ~AppReads /\ ~UserUploads
        /\ ~PowerCycle /\ ~Elsewhere
    BY DEF hostVars, AppReads, UserUploads, Host!Open, PowerCycle, Restart, Elsewhere
  <2>2. ~Host!LoseLine
    BY DEF Host!LoseLine
  <2>3. ASSUME NEW t \in Token
        PROVE  ~(Host!SendToken \/ Host!SendLost \/ Host!SendGarbled(t))
    BY <1>0, <1>2, <1>3, SendStepFacts
  <2>4. 0 \in Token
    BY TokenAssumption
  <2> QED
    BY <1>0, <2>1, <2>2, <2>3, <2>4, SystemCases DEF FaultOnLine
<1> HIDE DEF now
<1>5. toHost # <<>> /\ Head(toHost) = now.line /\ Host!GoOn
  BY <1>0, <1>4, WaitStepFacts DEF Host!GiveUp, now
<1>6. At = Last(job) /\ toHost[1] = Line("OK") /\ 1 \in 1..Len(toHost)
  BY <1>0, <1>2, <1>3, <1>5, TailFacts
<1>7. Done
  BY <1>0, <1>1, <1>2, <1>6 DEF UploadInv, OkIsTrue, Hears
<1>8. Total(job) # 0
  BY <1>1, JobFacts
<1> QED
  BY <1>4, <1>7, <1>8 DEF Done, Runnable, romVars

\* Whatever the line loses or garbles, up to MaxFaults times, and whatever was
\* tried before: when the uploader reports success, the image that may be
\* started or runs is the one it has uploaded.
THEOREM UploadsAreRight == SystemSpec => HostAgrees
BY SystemInvariance, SuccessStep, PTL DEF SystemSpec, HostAgrees
=============================================================================
