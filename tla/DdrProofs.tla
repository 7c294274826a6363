----------------------------- MODULE DdrProofs -----------------------------
(***************************************************************************)
(* Proofs about DdrSystem.  First its parts: the WAD format and the        *)
(* loader, for images, files and memories of any size and whatever arrives *)
(* over the serial line, with timeouts and BTN0 at any moment; the heap of *)
(* the DOOM port, for every program; its keys, for any keyboard; and the   *)
(* encoding of its pictures, for pictures of any size.  Then the system:   *)
(* that its parts keep their promises in it, that the uploader reports     *)
(* success only when the board holds what was uploaded, and that DOOM      *)
(* reads the lumps of what it holds.                                       *)
(***************************************************************************)
EXTENDS DdrSystem, SequenceTheorems, FiniteSetTheorems, WellFoundedInduction, TLAPS

-----------------------------------------------------------------------------
(***************************************************************************)
(* The WAD format.                                                         *)
(***************************************************************************)

\* As long as nothing larger is subtracted, the 32 bits do not show.
LEMMA MinusFacts ==
  ASSUME NEW a \in Nat, NEW b \in Nat, b <= a, Word \in Nat, a < Word
  PROVE  Minus(a, b) = a - b
<1>1. a + Word - b = (a - b) + Word /\ a - b \in 0..Word - 1
  OBVIOUS
<1>2. ((a - b) + Word) % Word = a - b
  BY <1>1
<1> QED
  BY <1>1, <1>2 DEF Minus

\* Arithmetic: the entries of a directory that ends in the file are in the file.
LEMMA EntryWithin ==
  ASSUME NEW d \in Nat, NEW c \in Nat, NEW i \in Nat, NEW size \in Nat,
         d + c * 3 <= size, i < c
  PROVE  d + i * 3 + 1 \in 1..size /\ d + i * 3 + 2 \in 1..size
<1>1. i + 1 <= c /\ d + i * 3 + 3 <= size
  OBVIOUS
<1>2. i * 3 \in Nat
  OBVIOUS
<1> QED
  BY <1>1, <1>2

\* What valid_wad() accepts, every reader can read without leaving the file:
\* for every file of 32-bit words, also those made to let a sum wrap around.
THEOREM ValidIsReadable ==
  ASSUME Word \in Nat, NEW size \in Nat, size < Word,
         NEW file \in [1..size -> 0..Word - 1],
         ValidWad(file, size)
  PROVE  Readable(file, size)
<1>1. /\ size >= 3 /\ file[1] \in {Iwad, Pwad}
      /\ Directory(file) \in Nat /\ Count(file) \in 0..Word - 1
      /\ Directory(file) <= size
      /\ \A i \in Lumps(file) : ValidLump(file, size, i)
  BY DEF ValidWad, HeaderLen, Directory, Count
<1>2. Minus(size, Directory(file)) = size - Directory(file)
  BY <1>1, MinusFacts
<1>3. Count(file) <= (size - Directory(file)) \div 3
  BY <1>2 DEF ValidWad, EntryLen
<1>4. Directory(file) + Count(file) * 3 <= size
  BY <1>1, <1>3
<1>5. ASSUME NEW i \in Lumps(file), Length(file, i) # 0
      PROVE  /\ Position(file, i) \in Nat /\ Length(file, i) \in Nat
             /\ Position(file, i) + Length(file, i) <= size
             /\ Minus(size, Position(file, i)) = size - Position(file, i)
  <2>1. i \in Nat /\ i < Count(file)
    BY <1>1, <1>5 DEF Lumps
  <2>2. /\ Directory(file) + i * 3 + 1 \in 1..size
        /\ Directory(file) + i * 3 + 2 \in 1..size
    <3>1. Directory(file) \in Nat /\ Count(file) \in Nat /\ size \in Nat
      BY <1>1
    <3> QED
      BY <1>4, <2>1, <3>1, EntryWithin
  <2>3. Position(file, i) \in Nat /\ Length(file, i) \in Nat
    BY <2>2 DEF Position, Length, EntryLen
  <2>4. /\ Position(file, i) <= size
        /\ Length(file, i) <= Minus(size, Position(file, i))
    BY <1>1, <1>5 DEF ValidLump
  <2>5. Minus(size, Position(file, i)) = size - Position(file, i)
    BY <2>3, <2>4, MinusFacts
  <2> QED
    BY <2>3, <2>4, <2>5
<1>6. WellFormed(file, size)
  BY <1>1, <1>4, <1>5 DEF WellFormed, HeaderLen, EntryLen
<1>7. /\ ~(Directory(file) > size)
      /\ ~(Count(file) > Minus(size, Directory(file)) \div EntryLen)
  BY <1>1, <1>2, <1>3 DEF EntryLen
<1>8. ASSUME NEW i \in Lumps(file), Length(file, i) # 0
      PROVE  ~(Position(file, i) > size) /\ ~(Length(file, i) > Minus(size, Position(file, i)))
  <2>1. /\ Position(file, i) \in Nat /\ Length(file, i) \in Nat
        /\ Position(file, i) + Length(file, i) <= size
        /\ Minus(size, Position(file, i)) = size - Position(file, i)
    BY <1>5, <1>8
  <2> QED
    BY <2>1
<1>9. Probe(file, size) = "PASS"
  BY <1>1, <1>7, <1>8 DEF Probe
<1>10. ASSUME NEW name \in LumpName PROVE FindLump(file, size, name).found >= 0
  <2>1. ~(size < HeaderLen)
    BY <1>1 DEF HeaderLen
  <2> QED
    BY <1>1, <1>7, <1>8, <2>1 DEF FindLump
<1> QED
  BY <1>6, <1>9, <1>10 DEF Readable

-----------------------------------------------------------------------------
(***************************************************************************)
(* The loader.                                                             *)
(***************************************************************************)

\* What is on the line as a CRC was computed by an uploader, from a file that
\* somebody meant to load as what it is sent as; no other content of a legal
\* length has it: CRC32 never passes by accident.
CrcDetects ==
  /\ \A n \in 1..AppMax : \A s \in [1..n -> Token] : Crc(s) \in Token => s \in Image
  /\ \A n \in HeaderLen..WadMax : \A s \in [1..n -> Token] : Crc(s) \in Token => s \in Wad

LoaderTypeOK ==
  /\ pc \in {"wait", "idle", "magic", "size", "crc", "data", "verify", "publish", "app"}
  /\ command \in Token
  /\ app \in [1..AppMax -> Token] /\ wad \in [1..WadMax -> Token]
  /\ loadedSize \in 0..AppMax
  /\ handoff \in [magic : BOOLEAN, size : Nat, crc : Token]
  /\ offset \in Nat /\ expectedSize \in Nat /\ expectedCrc \in Token
  /\ rx \in Seq(Token)

\* An upload has begun and neither ended nor failed.
Transferring == pc \in {"magic", "size", "crc", "data", "verify", "publish"}

\* The size has been checked before the first byte is stored.
TransferIsBounded ==
  /\ pc \in {"data", "verify", "publish"} => expectedSize \in LegalSizes
  /\ pc = "data" => offset < expectedSize
  /\ pc \notin {"data", "verify", "publish"} => offset = 0
  /\ pc = "publish" => IsWad

\* The application that may be started: it is not being overwritten.
LoadedIsSound ==
  /\ loadedSize # 0 => Content(app, loadedSize) \in Image /\ ~(Transferring /\ ~IsWad)
  /\ pc = "app" => loadedSize # 0

\* The file at WAD_BASE is whole, valid and the one of the CRC.
Sealed(size, crc) ==
  /\ size \in HeaderLen..WadMax
  /\ Content(wad, size) \in Wad /\ Crc(Content(wad, size)) = crc
  /\ ValidWad(wad, size)

\* The record is valid only between uploads, and seals the file.
HandoffIsSound ==
  /\ handoff.magic => ~Transferring /\ Sealed(handoff.size, handoff.crc)
  /\ pc = "publish" =>
       /\ handoff.size = expectedSize /\ handoff.crc = expectedCrc
       /\ Sealed(expectedSize, expectedCrc)

IInv == LoaderTypeOK /\ TransferIsBounded /\ LoadedIsSound /\ HandoffIsSound

-----------------------------------------------------------------------------
\* Content of a memory is a sequence of tokens; no bytes are no image.
LEMMA ContentFacts ==
  ASSUME NEW max \in Nat, NEW m \in [1..max -> Token], NEW n \in 0..max
  PROVE  /\ Content(m, n) \in [1..n -> Token]
         /\ (Content(m, n) = Absent) <=> (n = 0)
<1>1. Content(m, n) \in [1..n -> Token]
  BY DEF Content
<1>2. ASSUME n = 0 PROVE Content(m, n) = Absent
  <2>1. Content(m, n) \in Seq(Token) /\ Len(Content(m, n)) = 0
    BY <1>1, <1>2
  <2>2. Content(m, n) # <<>> => Len(Content(m, n)) \in Nat \ {0}
    BY <2>1, EmptySeq
  <2> QED
    BY <2>1, <2>2 DEF Absent
<1>3. ASSUME n # 0 PROVE Content(m, n) # Absent
  <2>1. DOMAIN Content(m, n) = 1..n
    BY DEF Content
  <2>2. 1 \in 1..n /\ 1 \notin DOMAIN Absent
    BY <1>3 DEF Absent
  <2> QED
    BY <2>1, <2>2
<1> QED
  BY <1>1, <1>2, <1>3

\* The sizes of what may be uploaded.
LEMMA SizeFacts ==
  /\ AppMax \in Nat /\ WadMax \in Nat /\ HeaderLen = 3
  /\ LegalSizes = IF IsWad THEN 3..WadMax ELSE 1..AppMax
BY TokenAssumption DEF HeaderLen, LegalSizes

\* What the program takes from the queue is a token.
LEMMA ReceivedFacts ==
  ASSUME LoaderTypeOK, Receive
  PROVE  Received \in Token /\ Received \in Nat /\ rx' \in Seq(Token)
<1>1. rx \in Seq(Token) /\ rx # <<>> /\ rx' = Tail(rx)
  BY DEF LoaderTypeOK, Receive
<1>2. Head(rx) \in Token /\ Tail(rx) \in Seq(Token)
  BY <1>1
<1>3. Token \subseteq Nat
  BY TokenAssumption
<1> QED
  BY <1>1, <1>2, <1>3 DEF Received

-----------------------------------------------------------------------------
\* At power-up the invariant holds.
LEMMA InitIInv == LoaderInit /\ LineInit => IInv
<1> SUFFICES ASSUME LoaderInit, LineInit PROVE IInv
  OBVIOUS
<1>1. AppMax \in Nat /\ WadMax \in Nat /\ 0 \in Token /\ Info \in Token
  BY TokenAssumption
<1>2. app \in [1..AppMax -> Token] /\ wad \in [1..WadMax -> Token]
  BY <1>1 DEF LoaderInit
<1>3. handoff \in [magic : BOOLEAN, size : Nat, crc : Token] /\ ~handoff.magic
  BY <1>1 DEF LoaderInit, NoHandoff
<1>4. rx \in Seq(Token)
  BY DEF LineInit
<1>5. pc = "wait" /\ command = Info /\ loadedSize = 0 /\ offset = 0 /\ expectedSize = 0
      /\ expectedCrc = 0
  BY DEF LoaderInit
<1>6. LoaderTypeOK
  BY <1>1, <1>2, <1>3, <1>4, <1>5 DEF LoaderTypeOK
<1> QED
  BY <1>3, <1>5, <1>6
     DEF IInv, TransferIsBounded, LoadedIsSound, HandoffIsSound, Transferring

\* Taking the record out of force.
LEMMA ClearedFacts ==
  ASSUME LoaderTypeOK, handoff' = [handoff EXCEPT !.magic = FALSE]
  PROVE  handoff' \in [magic : BOOLEAN, size : Nat, crc : Token] /\ ~handoff'.magic
BY DEF LoaderTypeOK

\* Steps that store nothing and end outside of the payload.
LEMMA QuietStep ==
  ASSUME IInv, UNCHANGED <<app, wad>>,
         loadedSize' = loadedSize \/ (loadedSize' = 0 /\ pc' # "app"),
         \/ /\ UNCHANGED handoff
            /\ handoff.magic => pc' \in {"wait", "idle", "app"}
         \/ handoff' = [handoff EXCEPT !.magic = FALSE],
         \/ pc' \in {"wait", "idle"}
         \/ pc' = "app" /\ loadedSize # 0
         \/ pc' \in {"magic", "size", "crc"} /\ (loadedSize' # 0 => command' \in {WadUpload, FastWad}),
         command' \in Token, offset' = 0, expectedSize' \in Nat, expectedCrc' \in Token,
         rx' \in Seq(Token)
  PROVE  IInv'
<1>0. LoaderTypeOK /\ TransferIsBounded /\ LoadedIsSound /\ HandoffIsSound /\ AppMax \in Nat
  BY TokenAssumption DEF IInv
<1>1. handoff' \in [magic : BOOLEAN, size : Nat, crc : Token]
  BY <1>0, ClearedFacts DEF LoaderTypeOK
<1>2. LoaderTypeOK'
  BY <1>0, <1>1 DEF LoaderTypeOK
<1>3. TransferIsBounded'
  BY DEF TransferIsBounded
<1>4. LoadedIsSound'
  BY <1>0 DEF LoadedIsSound, Transferring, IsWad
<1>5. HandoffIsSound'
  <2>1. CASE UNCHANGED handoff
    BY <1>0, <2>1, ClearedFacts DEF HandoffIsSound, Transferring, Sealed
  <2>2. CASE handoff' = [handoff EXCEPT !.magic = FALSE]
    BY <1>0, <2>2, ClearedFacts DEF HandoffIsSound
  <2> QED
    BY <2>1, <2>2
<1> QED
  BY <1>2, <1>3, <1>4, <1>5 DEF IInv

\* Every step that stores nothing and ends outside of the payload keeps IInv.
LEMMA QuietSteps ==
  ASSUME IInv,
         \/ MemoryReady \/ BeginUpload \/ BeginWad \/ GoCommand \/ OtherCommand
         \/ ByteTimeOut \/ ReadMagic \/ ReadSize \/ LoaderReset
         \/ (ReadCrc /\ expectedSize \notin LegalSizes)
         \/ (VerifyApp /\ ~Verified(app))
         \/ (VerifyWad /\ (~Verified(wad) \/ ~ValidWad(wad, expectedSize)))
  PROVE  IInv'
<1>0. LoaderTypeOK /\ TransferIsBounded /\ LoadedIsSound /\ HandoffIsSound
  BY DEF IInv
<1>1. 0 \in Token /\ Info \in Token
  BY TokenAssumption
<1>2. Receive => Received \in Token /\ Received \in Nat /\ rx' \in Seq(Token)
  BY <1>0, ReceivedFacts
<1>3. rx \in Seq(Token) /\ command \in Token /\ expectedSize \in Nat /\ expectedCrc \in Token
  BY <1>0 DEF LoaderTypeOK
<1>4. CASE MemoryReady
  <2>1. /\ pc = "wait" /\ pc' = "idle" /\ handoff' = [handoff EXCEPT !.magic = FALSE]
        /\ UNCHANGED <<command, app, wad, loadedSize, offset, expectedSize, expectedCrc, rx>>
    BY <1>4 DEF MemoryReady, Locals, lineVars
  <2> QED
    BY <1>0, <1>3, <2>1, QuietStep DEF TransferIsBounded
<1>5. CASE BeginUpload
  <2>1. /\ pc = "idle" /\ pc' = "magic" /\ handoff' = [handoff EXCEPT !.magic = FALSE]
        /\ loadedSize' = 0 /\ command' \in Token /\ rx' \in Seq(Token)
        /\ UNCHANGED <<app, wad, offset, expectedSize, expectedCrc>>
    BY <1>2, <1>5 DEF BeginUpload, Locals
  <2> QED
    BY <1>0, <1>3, <2>1, QuietStep DEF TransferIsBounded
<1>6. CASE BeginWad
  <2>1. /\ pc = "idle" /\ command' \in Token /\ rx' \in Seq(Token)
        /\ offset' = 0 /\ expectedSize' \in Nat /\ expectedCrc' \in Token
        /\ UNCHANGED <<app, wad, loadedSize>>
    BY <1>0, <1>1, <1>2, <1>3, <1>6
       DEF BeginWad, Fail, BackToIdle, NoTransfer, Locals, TransferIsBounded
  <2>2. \/ pc' = "idle" /\ UNCHANGED handoff
        \/ /\ pc' = "magic" /\ command' \in {WadUpload, FastWad}
           /\ handoff' = [handoff EXCEPT !.magic = FALSE]
    BY <1>6 DEF BeginWad, Fail, BackToIdle
  <2> QED
    BY <2>1, <2>2, QuietStep
<1>7. CASE GoCommand \/ OtherCommand
  <2>1. /\ pc = "idle" /\ (pc' = "idle" \/ (pc' = "app" /\ loadedSize # 0))
        /\ command' \in Token /\ rx' \in Seq(Token)
        /\ offset' = 0 /\ expectedSize' \in Nat /\ expectedCrc' \in Token
        /\ UNCHANGED <<app, wad, loadedSize, handoff>>
    BY <1>0, <1>1, <1>2, <1>3, <1>7
       DEF GoCommand, OtherCommand, Run, Fail, BackToIdle, NoTransfer, TransferIsBounded,
           loaderVars
  <2> QED
    BY <2>1, QuietStep
<1>8. CASE ByteTimeOut
  <2>1. /\ pc' = "idle" /\ command' \in Token /\ rx' \in Seq(Token)
        /\ offset' = 0 /\ expectedSize' \in Nat /\ expectedCrc' \in Token
        /\ UNCHANGED <<app, wad, loadedSize, handoff>>
    BY <1>1, <1>3, <1>8 DEF ByteTimeOut, Fail, BackToIdle, NoTransfer
  <2> QED
    BY <2>1, QuietStep
<1>9. CASE ReadMagic \/ ReadSize \/ (ReadCrc /\ expectedSize \notin LegalSizes)
  <2>1. /\ pc \in {"magic", "size", "crc"} /\ pc' \in {"idle", "size", "crc"}
        /\ pc' # "idle" => command' = command
        /\ command' \in Token /\ rx' \in Seq(Token)
        /\ offset' = 0 /\ expectedSize' \in Nat /\ expectedCrc' \in Token
        /\ UNCHANGED <<app, wad, loadedSize, handoff>>
    BY <1>0, <1>1, <1>2, <1>3, <1>9
       DEF ReadMagic, ReadSize, ReadCrc, Fail, BackToIdle, NoTransfer, Locals, TransferIsBounded
  <2>2. ~handoff.magic /\ (loadedSize # 0 => command \in {WadUpload, FastWad})
    BY <1>0, <2>1 DEF HandoffIsSound, LoadedIsSound, Transferring, IsWad
  <2> QED
    BY <2>1, <2>2, QuietStep
<1>10. CASE \/ VerifyApp /\ ~Verified(app)
            \/ VerifyWad /\ (~Verified(wad) \/ ~ValidWad(wad, expectedSize))
  <2>1. /\ pc' = "idle" /\ command' \in Token /\ rx' \in Seq(Token)
        /\ offset' = 0 /\ expectedSize' \in Nat /\ expectedCrc' \in Token
        /\ UNCHANGED <<app, wad, loadedSize, handoff>>
    BY <1>1, <1>3, <1>10 DEF VerifyApp, VerifyWad, Fail, BackToIdle, NoTransfer
  <2> QED
    BY <2>1, QuietStep
<1>11. CASE LoaderReset
  <2>1. /\ pc' = "wait" /\ command' \in Token /\ rx' \in Seq(Token) /\ loadedSize' = 0
        /\ offset' = 0 /\ expectedSize' \in Nat /\ expectedCrc' \in Token
        /\ UNCHANGED <<app, wad, handoff>>
    BY <1>1, <1>11 DEF LoaderReset, NoTransfer
  <2> QED
    BY <2>1, QuietStep
<1> QED
  BY <1>4, <1>5, <1>6, <1>7, <1>8, <1>9, <1>10, <1>11

\* The header is accepted.
LEMMA HeaderStep ==
  ASSUME IInv, ReadCrc, expectedSize \in LegalSizes
  PROVE  IInv'
<1>0. LoaderTypeOK /\ TransferIsBounded /\ LoadedIsSound /\ HandoffIsSound
  BY DEF IInv
<1>1. /\ pc = "crc" /\ pc' = "data" /\ expectedCrc' = Received
      /\ Received \in Token /\ rx' \in Seq(Token) /\ offset = 0
      /\ UNCHANGED <<command, app, wad, loadedSize, handoff, offset, expectedSize>>
  BY <1>0, ReceivedFacts DEF ReadCrc, TransferIsBounded
<1>2. expectedSize \in Nat /\ expectedSize > 0
  BY SizeFacts
<1>3. LoaderTypeOK'
  BY <1>0, <1>1 DEF LoaderTypeOK
<1>4. TransferIsBounded'
  BY <1>1, <1>2 DEF TransferIsBounded, LegalSizes, IsWad
<1>5. LoadedIsSound' /\ HandoffIsSound'
  BY <1>0, <1>1 DEF LoadedIsSound, HandoffIsSound, Transferring, IsWad
<1> QED
  BY <1>3, <1>4, <1>5 DEF IInv

\* A byte of the payload: it goes into the memory that is not in use.
LEMMA DataStep ==
  ASSUME IInv, ReadData
  PROVE  IInv'
<1>0. LoaderTypeOK /\ TransferIsBounded /\ LoadedIsSound /\ HandoffIsSound
  BY DEF IInv
<1>1. /\ pc = "data" /\ pc' \in {"data", "verify"} /\ offset' = offset + 1
      /\ pc' = "data" => offset + 1 # expectedSize
      /\ Received \in Token /\ rx' \in Seq(Token)
      /\ UNCHANGED <<command, loadedSize, handoff, expectedSize, expectedCrc>>
  BY <1>0, ReceivedFacts DEF ReadData
<1>2. /\ offset \in Nat /\ expectedSize \in LegalSizes /\ offset < expectedSize
      /\ expectedSize \in Nat
  BY <1>0, <1>1, SizeFacts DEF TransferIsBounded, LoaderTypeOK
<1>3. ~handoff.magic
  BY <1>0, <1>1 DEF HandoffIsSound, Transferring
<1>4. /\ IsWad => wad' = [wad EXCEPT ![offset + 1] = Received] /\ UNCHANGED app
      /\ ~IsWad => app' = [app EXCEPT ![offset + 1] = Received] /\ UNCHANGED wad
  BY DEF ReadData
<1>5. app' \in [1..AppMax -> Token] /\ wad' \in [1..WadMax -> Token]
  BY <1>0, <1>1, <1>4 DEF LoaderTypeOK
<1>6. LoaderTypeOK'
  BY <1>0, <1>1, <1>2, <1>5 DEF LoaderTypeOK
<1>7. TransferIsBounded'
  BY <1>1, <1>2 DEF TransferIsBounded, LegalSizes, IsWad
<1>8. LoadedIsSound'
  BY <1>0, <1>1, <1>4 DEF LoadedIsSound, Transferring, IsWad, Content
<1>9. HandoffIsSound'
  BY <1>1, <1>3 DEF HandoffIsSound
<1> QED
  BY <1>6, <1>7, <1>8, <1>9 DEF IInv

\* An application whose CRC is right.
LEMMA AppStep ==
  ASSUME CrcDetects, IInv, VerifyApp, Verified(app)
  PROVE  /\ IInv' /\ UNCHANGED app
         /\ loadedSize' # 0 /\ loadedSize' = expectedSize
<1>0. LoaderTypeOK /\ TransferIsBounded /\ LoadedIsSound /\ HandoffIsSound
  BY DEF IInv
<1>1. /\ pc = "verify" /\ ~IsWad /\ loadedSize' = expectedSize
      /\ pc' \in {"idle", "app"} /\ command' = Info
      /\ offset' = 0 /\ expectedSize' = 0 /\ expectedCrc' = 0
      /\ UNCHANGED <<app, wad, handoff, rx>>
  BY DEF VerifyApp, Run, BackToIdle, NoTransfer
<1>2. expectedSize \in 1..AppMax /\ AppMax \in Nat /\ 0 \in Token /\ Info \in Token
  BY <1>0, <1>1, SizeFacts, TokenAssumption DEF TransferIsBounded
<1>3. Crc(Content(app, expectedSize)) \in Token
  BY <1>0 DEF Verified, LoaderTypeOK
<1>4. Content(app, expectedSize) \in [1..expectedSize -> Token]
  BY <1>0, <1>2, ContentFacts DEF LoaderTypeOK
<1>5. Content(app, expectedSize) \in Image
  BY <1>2, <1>3, <1>4 DEF CrcDetects
<1>6. LoaderTypeOK'
  BY <1>0, <1>1, <1>2 DEF LoaderTypeOK
<1>7. TransferIsBounded'
  BY <1>1 DEF TransferIsBounded
<1>8. LoadedIsSound'
  BY <1>1, <1>2, <1>5 DEF LoadedIsSound, Transferring, Content
<1>9. HandoffIsSound'
  BY <1>0, <1>1 DEF HandoffIsSound, Transferring
<1> QED
  BY <1>1, <1>2, <1>6, <1>7, <1>8, <1>9 DEF IInv

\* A file that passes every check is described by the record, which is put into
\* force one step later.
LEMMA WadStep ==
  ASSUME CrcDetects, IInv, VerifyWad, Verified(wad), ValidWad(wad, expectedSize)
  PROVE  IInv'
<1>0. LoaderTypeOK /\ TransferIsBounded /\ LoadedIsSound /\ HandoffIsSound
  BY DEF IInv
<1>1. /\ pc = "verify" /\ IsWad /\ pc' = "publish"
      /\ handoff' = [handoff EXCEPT !.size = expectedSize, !.crc = expectedCrc]
      /\ UNCHANGED <<command, app, wad, loadedSize, offset, expectedSize, expectedCrc, rx>>
  BY DEF VerifyWad, Locals
<1>2. /\ expectedSize \in HeaderLen..WadMax /\ WadMax \in Nat /\ expectedSize \in 0..WadMax
      /\ expectedCrc \in Token /\ expectedSize \in Nat
  BY <1>0, <1>1, SizeFacts DEF TransferIsBounded, LoaderTypeOK
<1>3. Crc(Content(wad, expectedSize)) = expectedCrc
  BY DEF Verified
<1>4. Content(wad, expectedSize) \in [1..expectedSize -> Token]
  BY <1>0, <1>2, ContentFacts DEF LoaderTypeOK
<1>5. Content(wad, expectedSize) \in Wad
  BY <1>2, <1>3, <1>4 DEF CrcDetects
<1>6. /\ handoff' \in [magic : BOOLEAN, size : Nat, crc : Token]
      /\ handoff'.magic = handoff.magic
      /\ handoff'.size = expectedSize /\ handoff'.crc = expectedCrc
  BY <1>0, <1>1, <1>2 DEF LoaderTypeOK
<1>7. ~handoff.magic
  BY <1>0, <1>1 DEF HandoffIsSound, Transferring
<1>8. LoaderTypeOK'
  BY <1>0, <1>1, <1>6 DEF LoaderTypeOK
<1>9. TransferIsBounded'
  BY <1>0, <1>1 DEF TransferIsBounded, LegalSizes, IsWad
<1>10. LoadedIsSound'
  BY <1>0, <1>1 DEF LoadedIsSound, Transferring, IsWad
<1>11. HandoffIsSound'
  BY <1>1, <1>2, <1>3, <1>5, <1>6, <1>7 DEF HandoffIsSound, Sealed, Content
<1> QED
  BY <1>8, <1>9, <1>10, <1>11 DEF IInv

\* The record is published for a file that has been verified.
LEMMA PublishStep ==
  ASSUME IInv, PublishWad
  PROVE  IInv'
<1>0. LoaderTypeOK /\ TransferIsBounded /\ LoadedIsSound /\ HandoffIsSound
  BY DEF IInv
<1>1. /\ pc = "publish" /\ pc' = "idle" /\ command' = Info
      /\ handoff' = [handoff EXCEPT !.magic = TRUE]
      /\ offset' = 0 /\ expectedSize' = 0 /\ expectedCrc' = 0
      /\ UNCHANGED <<app, wad, loadedSize, rx>>
  BY DEF PublishWad, BackToIdle, NoTransfer
<1>2. 0 \in Token /\ Info \in Token
  BY TokenAssumption
<1>3. /\ handoff' \in [magic : BOOLEAN, size : Nat, crc : Token]
      /\ handoff'.size = handoff.size /\ handoff'.crc = handoff.crc
  BY <1>0, <1>1 DEF LoaderTypeOK
<1>4. LoaderTypeOK'
  BY <1>0, <1>1, <1>2, <1>3 DEF LoaderTypeOK
<1>5. TransferIsBounded'
  BY <1>1 DEF TransferIsBounded
<1>6. LoadedIsSound'
  BY <1>0, <1>1 DEF LoadedIsSound, Transferring
<1>7. Sealed(handoff.size, handoff.crc)
  BY <1>0, <1>1 DEF HandoffIsSound
<1>8. HandoffIsSound'
  BY <1>1, <1>3, <1>7 DEF HandoffIsSound, Transferring, Sealed
<1> QED
  BY <1>4, <1>5, <1>6, <1>8 DEF IInv

\* Every step of the loader keeps the invariant.
LEMMA NextIInv == CrcDetects /\ IInv /\ [LoaderNext]_<<loaderVars, lineVars>> => IInv'
<1> SUFFICES ASSUME CrcDetects, IInv, [LoaderNext]_<<loaderVars, lineVars>> PROVE IInv'
  OBVIOUS
<1>1. CASE \/ MemoryReady \/ BeginUpload \/ BeginWad \/ GoCommand \/ OtherCommand
           \/ ByteTimeOut \/ ReadMagic \/ ReadSize \/ LoaderReset
  BY <1>1, QuietSteps
<1>2. CASE ReadCrc
  BY <1>2, QuietSteps, HeaderStep
<1>3. CASE ReadData
  BY <1>3, DataStep
<1>4. CASE VerifyApp
  BY <1>4, QuietSteps, AppStep
<1>5. CASE VerifyWad
  BY <1>5, QuietSteps, WadStep
<1>6. CASE PublishWad
  BY <1>6, PublishStep
<1>7. CASE Environment \/ UNCHANGED <<loaderVars, lineVars>>
  <2>1. UNCHANGED loaderVars /\ rx' \in Seq(Token)
    BY <1>7 DEF Environment, lineVars, IInv, LoaderTypeOK
  <2> QED
    BY <2>1 DEF loaderVars, IInv, LoaderTypeOK, TransferIsBounded, LoadedIsSound,
       HandoffIsSound, Transferring, Sealed, LegalSizes, IsWad, Content
<1> QED
  BY <1>1, <1>2, <1>3, <1>4, <1>5, <1>6, <1>7 DEF LoaderNext, LoaderStep

\* The inductive invariant of the loader, whatever arrives over the line.
THEOREM LoaderInvariance ==
  ASSUME CrcDetects
  PROVE  LoaderSpec => []IInv
<1>1. IInv /\ [LoaderNext]_<<loaderVars, lineVars>> => IInv'
  BY NextIInv
<1> QED
  BY <1>1, InitIInv, PTL DEF LoaderSpec

-----------------------------------------------------------------------------
\* The checks of valid_wad() look at nothing behind the end of the file.
LEMMA ValidWithin ==
  ASSUME NEW m \in [1..WadMax -> Token], NEW size \in HeaderLen..WadMax,
         ValidWad(m, size),
         Content(m, size) \in [1..size -> 0..Word - 1]
  PROVE  ValidWad(Content(m, size), size)
<1>1. PICK w : w = Content(m, size)
  OBVIOUS
<1>2. /\ size \in Nat /\ size >= 3 /\ HeaderLen = 3 /\ EntryLen = 3
      /\ WadMax \in Nat /\ Word \in Nat /\ size < Word
  BY SizeFacts, FileAssumption DEF EntryLen
<1>3. \A k \in 1..size : w[k] = m[k] /\ w[k] \in 0..Word - 1
  BY <1>1 DEF Content
<1>4. w[1] = m[1] /\ Count(w) = Count(m) /\ Directory(w) = Directory(m)
      /\ Count(m) \in 0..Word - 1 /\ Directory(m) \in 0..Word - 1
  BY <1>2, <1>3 DEF Count, Directory
<1>5. Lumps(w) = Lumps(m)
  BY <1>4 DEF Lumps
<1>6. /\ Directory(m) <= size
      /\ Count(m) <= Minus(size, Directory(m)) \div 3
      /\ \A i \in Lumps(m) : ValidLump(m, size, i)
  BY <1>2 DEF ValidWad
<1>7. Minus(size, Directory(m)) = size - Directory(m)
  BY <1>2, <1>4, <1>6, MinusFacts
<1>8. Directory(m) + Count(m) * 3 <= size
  BY <1>2, <1>4, <1>6, <1>7
<1>9. ASSUME NEW i \in Lumps(m)
      PROVE  ValidLump(w, size, i)
  <2>1. i \in Nat /\ i < Count(m)
    BY <1>2, <1>4, <1>9 DEF Lumps
  <2>2. /\ Directory(m) + i * 3 + 1 \in 1..size
        /\ Directory(m) + i * 3 + 2 \in 1..size
    <3>1. Directory(m) \in Nat /\ Count(m) \in Nat /\ size \in Nat
      BY <1>2, <1>4
    <3> QED
      BY <1>8, <2>1, <3>1, EntryWithin
  <2>3. Position(w, i) = Position(m, i) /\ Length(w, i) = Length(m, i)
    BY <1>2, <1>3, <1>4, <2>2 DEF Position, Length
  <2>4. ValidLump(m, size, i)
    BY <1>6
  <2> QED
    BY <2>3, <2>4 DEF ValidLump
<1>10. ValidWad(w, size)
  BY <1>2, <1>4, <1>5, <1>6, <1>9 DEF ValidWad
<1> QED
  BY <1>1, <1>10

\* What it says of the handoff record.
LEMMA IInvReadable == IInv => HandoffIsReadable
<1> SUFFICES ASSUME IInv, handoff.magic
             PROVE  /\ Published \in Wad /\ Crc(Published) = handoff.crc
                    /\ Readable(Published, handoff.size)
  BY DEF HandoffIsReadable
<1>1. PICK size : size = handoff.size
  OBVIOUS
<1>2. /\ size \in HeaderLen..WadMax /\ Content(wad, size) \in Wad
      /\ Crc(Content(wad, size)) = handoff.crc /\ ValidWad(wad, size)
      /\ wad \in [1..WadMax -> Token]
  BY <1>1 DEF IInv, HandoffIsSound, Sealed, LoaderTypeOK
<1>3. Published = Content(wad, size)
  BY <1>1 DEF Published
<1>4. size \in Nat /\ size \in 0..WadMax /\ Word \in Nat /\ size < Word
  BY <1>2, SizeFacts, FileAssumption
<1>5. Content(wad, size) \in [1..size -> 0..Word - 1]
  <2>1. PICK w : w = Content(wad, size)
    OBVIOUS
  <2>2. w \in Seq(Token \cap 0..Word - 1)
    BY <1>2, <2>1, FileAssumption
  <2>3. DOMAIN w = 1..size /\ w = [k \in 1..size |-> w[k]]
    BY <2>1 DEF Content
  <2>4. \A k \in DOMAIN w : w[k] \in 0..Word - 1
    BY <2>2, LenProperties
  <2> QED
    BY <2>1, <2>3, <2>4
<1>6. ValidWad(Content(wad, size), size)
  BY <1>2, <1>5, ValidWithin
<1>7. Readable(Content(wad, size), size)
  BY <1>4, <1>5, <1>6, ValidIsReadable
<1> QED
  BY <1>1, <1>2, <1>3, <1>7

\* A valid handoff record describes a whole file that somebody meant to load and
\* that every reader can read, after any sequence of uploads, failures, timeouts
\* and resets.
THEOREM HandoffStaysReadable ==
  ASSUME CrcDetects
  PROVE  LoaderSpec => []HandoffIsReadable
BY LoaderInvariance, IInvReadable, PTL

-----------------------------------------------------------------------------
\* What it says of the application at hand.
LEMMA RunnableFacts ==
  ASSUME IInv
  PROVE  /\ (Runnable = Absent) <=> (loadedSize = 0)
         /\ loadedSize # 0 => Runnable \in Image
<1>1. AppMax \in Nat /\ app \in [1..AppMax -> Token] /\ loadedSize \in 0..AppMax
  BY SizeFacts DEF IInv, LoaderTypeOK
<1> QED
  BY <1>1, ContentFacts DEF Runnable, IInv, LoadedIsSound

\* Nothing can be started while nothing is loaded.
LEMMA NoneRunnable ==
  ASSUME NEW m PROVE Content(m, 0) = Absent
<1>1. Content(m, 0) \in [1..0 -> Token]
  BY DEF Content
<1>2. Content(m, 0) \in Seq(Token) /\ Len(Content(m, 0)) = 0
  BY <1>1
<1> QED
  BY <1>2, EmptySeq DEF Absent

\* Every step of the loader is a step of VerifiedImage, or none.
LEMMA StepKeepsPromise ==
  CrcDetects /\ IInv /\ IInv' /\ [LoaderNext]_<<loaderVars, lineVars>>
    => [Promise!Next]_(Promise!vars)
<1> SUFFICES ASSUME CrcDetects, IInv, IInv', [LoaderNext]_<<loaderVars, lineVars>>
             PROVE  [Promise!Next]_(Promise!vars)
  OBVIOUS
<1> USE DEF Promise!vars
<1>0. /\ (Runnable = Absent) <=> (loadedSize = 0)
      /\ pc = "app" => loadedSize # 0
  BY RunnableFacts DEF IInv, LoadedIsSound
<1>1. CASE \/ MemoryReady \/ BeginWad \/ OtherCommand \/ ByteTimeOut \/ ReadMagic \/ ReadSize
           \/ ReadCrc \/ VerifyWad \/ PublishWad \/ (VerifyApp /\ ~Verified(app))
  <2>1. pc # "app" /\ pc' # "app" /\ UNCHANGED <<app, loadedSize>>
    BY <1>1 DEF MemoryReady, BeginWad, OtherCommand, ByteTimeOut, ReadMagic, ReadSize, ReadCrc,
       VerifyApp, VerifyWad, PublishWad, Fail, BackToIdle, loaderVars
  <2> QED
    BY <2>1 DEF Runnable, Content
<1>2. CASE BeginUpload
  <2>1. pc # "app" /\ pc' # "app" /\ loadedSize' = 0
    BY <1>2 DEF BeginUpload
  <2>2. Runnable' = Absent
    BY <2>1, NoneRunnable DEF Runnable
  <2> QED
    BY <2>1, <2>2 DEF Promise!Next, Promise!Drop
<1>3. CASE GoCommand
  <2>1. /\ pc = "idle" /\ pc' \in {"idle", "app"} /\ UNCHANGED <<app, loadedSize>>
        /\ pc' = "app" => loadedSize # 0
    BY <1>3 DEF GoCommand, Run, Fail, BackToIdle
  <2>2. Runnable' = Runnable
    BY <2>1 DEF Runnable, Content
  <2>3. CASE pc' = "app"
    BY <1>0, <2>1, <2>2, <2>3 DEF Promise!Next, Promise!Start
  <2>4. CASE pc' = "idle"
    BY <2>1, <2>2, <2>4
  <2> QED
    BY <2>1, <2>3, <2>4
<1>4. CASE ReadData
  <2>1. pc # "app" /\ pc' # "app" /\ UNCHANGED loadedSize
        /\ (loadedSize = 0 \/ UNCHANGED app)
    BY <1>4 DEF ReadData, IInv, LoadedIsSound, Transferring
  <2>2. Runnable' = Runnable
    BY <2>1 DEF Runnable, Content
  <2> QED
    BY <2>1, <2>2
<1>5. CASE VerifyApp /\ Verified(app)
  <2>1. pc # "app" /\ loadedSize' # 0
    BY <1>5, AppStep DEF VerifyApp
  <2>2. Runnable' \in Image
    <3>1. loadedSize' # 0 => Content(app, loadedSize)' \in Image
      BY DEF IInv, LoadedIsSound
    <3> QED
      BY <2>1, <3>1 DEF Runnable
  <2> QED
    BY <2>1, <2>2 DEF Promise!Next, Promise!Load
<1>6. CASE LoaderReset
  <2>1. pc' # "app" /\ loadedSize' = 0
    BY <1>6 DEF LoaderReset
  <2>2. Runnable' = Absent
    BY <2>1, NoneRunnable DEF Runnable
  <2> QED
    BY <2>1, <2>2 DEF Promise!Next, Promise!Reset
<1>7. CASE Environment \/ UNCHANGED <<loaderVars, lineVars>>
  BY <1>7 DEF Environment, loaderVars, Runnable, Content
<1> QED
  BY <1>1, <1>2, <1>3, <1>4, <1>5, <1>6, <1>7 DEF LoaderNext, LoaderStep

\* The loader implements the abstract loader for applications, WAD uploads,
\* timeouts and resets in between included.
THEOREM LoaderKeepsPromise ==
  ASSUME CrcDetects
  PROVE  LoaderSpec => ImplementsVerifiedImage
<1>1. LoaderInit /\ LineInit => Promise!Init
  <2> SUFFICES ASSUME LoaderInit, LineInit PROVE Promise!Init
    OBVIOUS
  <2>1. pc = "wait" /\ loadedSize = 0
    BY DEF LoaderInit
  <2> QED
    BY <2>1, InitIInv, RunnableFacts DEF Promise!Init
<1>2. IInv /\ IInv' /\ [LoaderNext]_<<loaderVars, lineVars>> => [Promise!Next]_(Promise!vars)
  BY StepKeepsPromise
<1> QED
  BY <1>1, <1>2, LoaderInvariance, PTL
     DEF LoaderSpec, ImplementsVerifiedImage, Promise!Spec

-----------------------------------------------------------------------------
(***************************************************************************)
(* The heap of the DOOM port.                                              *)
(***************************************************************************)

\* Rounding up to 8 never goes below, and stays whole.
LEMMA AlignedFacts ==
  ASSUME NEW n \in Nat
  PROVE  Files!Aligned(n + 7) \in Nat /\ n <= Files!Aligned(n + 7)
BY DEF Files!Aligned

\* _sbrk() keeps the blocks apart: heap_next only moves up, to the end of the
\* new block or beyond, and never past __heap_end.
HeapInv ==
  /\ heap \in Nat /\ HeapStart <= heap
  /\ \A b \in blocks : b.from \in Nat /\ b.size \in Nat
  /\ Files!HeapIsDisjoint

\* A block that is handed out lies behind the ones before it.
LEMMA SbrkFacts ==
  ASSUME Files!HeapAssumption, HeapInv, NEW n \in Request, Files!Sbrk(n)
  PROVE  HeapInv'
<1>1. HeapStart \in Nat /\ HeapEnd \in Nat /\ Word \in Nat /\ HeapEnd + n + 7 < Word
      /\ n \in Nat /\ heap \in Nat /\ heap <= HeapEnd /\ HeapStart <= heap
  BY DEF Files!HeapAssumption, HeapInv, Files!HeapIsDisjoint, Files!Sbrk
<1>2. (heap + n + 7) % Word = heap + n + 7
  BY <1>1
<1>3. heap + n \in Nat /\ heap + n + 7 = (heap + n) + 7
  BY <1>1
<1>4. heap' = Files!Aligned((heap + n) + 7) /\ heap' <= HeapEnd
      /\ blocks' = blocks \cup {[from |-> heap, size |-> n]}
  BY <1>2, <1>3 DEF Files!Sbrk
<1>5. heap' \in Nat /\ heap + n <= heap'
  BY <1>3, <1>4, AlignedFacts
<1>6. \A b \in blocks : /\ b.from \in Nat /\ b.size \in Nat
                         /\ HeapStart <= b.from /\ b.from + b.size <= heap
  BY DEF HeapInv, Files!HeapIsDisjoint
<1>7. \A b \in blocks' : /\ b.from \in Nat /\ b.size \in Nat
                          /\ HeapStart <= b.from /\ b.from + b.size <= heap'
  BY <1>1, <1>4, <1>5, <1>6
<1>8. \A b, c \in blocks' : b # c => b.from + b.size <= c.from \/ c.from + c.size <= b.from
  BY <1>4, <1>6 DEF HeapInv, Files!HeapIsDisjoint
<1> QED
  BY <1>1, <1>4, <1>5, <1>7, <1>8 DEF HeapInv, Files!HeapIsDisjoint

\* For every program, heap and sequence of requests, the blocks never overlap,
\* as long as no request wraps around.
THEOREM HeapCorrect ==
  ASSUME Files!HeapAssumption
  PROVE  Files!HeapSpec => []Files!HeapIsDisjoint
<1>1. Files!FilesOff => HeapInv
  BY DEF Files!FilesOff, HeapInv, Files!HeapIsDisjoint, Files!HeapAssumption
<1>2. HeapInv /\ [Files!DoomMain \/ Files!EngineCalls \/ Files!FilesReset]_Files!fileVars => HeapInv'
  <2> SUFFICES ASSUME HeapInv, [Files!DoomMain \/ Files!EngineCalls \/ Files!FilesReset]_Files!fileVars
               PROVE  HeapInv'
    OBVIOUS
  <2>1. CASE Files!FilesReset
    BY <2>1 DEF Files!FilesReset, HeapInv, Files!HeapIsDisjoint, Files!HeapAssumption
  <2>2. CASE UNCHANGED <<heap, blocks>>
    BY <2>2 DEF HeapInv, Files!HeapIsDisjoint
  <2>3. CASE \E n \in Request : Files!Sbrk(n)
    BY <2>3, SbrkFacts
  <2> QED
    BY <2>1, <2>2, <2>3
       DEF Files!DoomMain, Files!EngineCalls, Files!OpenWad, Files!CloseWad, Files!ReadWad, Files!SeekWad, Files!fileVars
<1>3. HeapInv => Files!HeapIsDisjoint
  BY DEF HeapInv
<1> QED
  BY <1>1, <1>2, <1>3, PTL DEF Files!HeapSpec

-----------------------------------------------------------------------------
(***************************************************************************)
(* The keys of the DOOM port.                                              *)
(***************************************************************************)
KeyToken == Code \cup {Release}
Pressed == {c \in Code : counts[c] > 0}

\* The counts are those of the keysyms that are pressed, and every timer that is known
\* of runs.
KeyTyped ==
  /\ held \subseteq Key /\ focus \in BOOLEAN
  /\ sources \subseteq Keysym /\ IsFiniteSet(sources) /\ IsFiniteSet(Pressed)
  /\ counts = [c \in Code |-> Cardinality({s \in sources : KeyCode[s] = c})]
  /\ ~focus => sources = {}
  /\ pending \subseteq Keysym /\ timers \in [Keysym -> Nat]
  /\ \A s \in pending : timers[s] > 0
  /\ prefix \in BOOLEAN /\ down \subseteq Code
  /\ rx \in Seq(KeyToken) /\ Len(rx) <= Depth /\ overflow \in BOOLEAN

\* Token i of q comes after a release prefix; p tells it of the first token.
Releases(p, q, i) == IF i = 1 THEN p ELSE q[i - 1] = Release

\* A release prefix is followed by a code.
Paired(p, q) ==
  /\ p => q # <<>>
  /\ \A i \in 1 .. Len(q) : q[i] = Release => i < Len(q) /\ ~Releases(p, q, i)

\* The last word about c, on its way in q or heard already, is whether it is pressed.
LastWord(p, q, d, c, pressed) ==
  /\ \A i \in 1 .. Len(q) :
       q[i] = c /\ (\A j \in i + 1 .. Len(q) : q[j] # c) => (pressed <=> ~Releases(p, q, i))
  /\ (\A i \in 1 .. Len(q) : q[i] # c) => (pressed <=> c \in d)

KeysOnTheWay ==
  ~overflow =>
    /\ Paired(prefix, rx)
    /\ \A c \in Code : LastWord(prefix, rx, down, c, counts[c] > 0)

KeyInv == KeyTyped /\ KeysOnTheWay

\* The release prefix is no key.
LEMMA CodeFacts == /\ Release \notin Code /\ \A s \in Keysym : KeyCode[s] \in Code
                   /\ \A k \in Key : Keyname(k) \in Keysym
<1>1. \A k \in Key : Reported[k] \in [BOOLEAN -> Keysym]
  BY KeyAssumption
<1>2. (Shift \in held) \in BOOLEAN
  OBVIOUS
<1> QED
  BY <1>1, <1>2, KeyAssumption DEF Code, Keyname

\* More tokens are sent: codes, each with a release prefix or without one.
LEMMA SendFacts ==
  ASSUME NEW p \in BOOLEAN, NEW q \in Seq(KeyToken), NEW m \in Seq(KeyToken), Paired(p, q),
         \A k \in 1 .. Len(m) : m[k] = Release => k < Len(m) /\ (k > 1 => m[k - 1] # Release)
  PROVE  /\ Paired(p, q \o m)
         /\ \A d, old, new : \A c \in Code :
              /\ LastWord(p, q, d, c, old)
              /\ \A k \in 1 .. Len(m) : m[k] = c => (new <=> ~(k > 1 /\ m[k - 1] = Release))
              /\ (\A k \in 1 .. Len(m) : m[k] # c) => (new <=> old)
              => LastWord(p, q \o m, d, c, new)
<1> DEFINE r == q \o m
<1>1. /\ r \in Seq(KeyToken) /\ Len(r) = Len(q) + Len(m) /\ Len(q) \in Nat /\ Len(m) \in Nat
      /\ \A i \in 1 .. Len(r) : r[i] = IF i <= Len(q) THEN q[i] ELSE m[i - Len(q)]
  BY ConcatProperties
<1>2. /\ p => Len(q) > 0
      /\ \A i \in 1 .. Len(q) : q[i] = Release => i < Len(q) /\ ~Releases(p, q, i)
  BY DEF Paired
<1>3. ASSUME NEW i \in 1 .. Len(q) PROVE Releases(p, r, i) <=> Releases(p, q, i)
  BY <1>1 DEF Releases
<1>4. ASSUME NEW k \in 1 .. Len(m)
      PROVE  Releases(p, r, Len(q) + k) <=> k > 1 /\ m[k - 1] = Release
  <2>1. CASE k > 1
    <3>1. Len(q) + k # 1 /\ (Len(q) + k) - 1 \in 1 .. Len(r) /\ ~((Len(q) + k) - 1 <= Len(q))
          /\ ((Len(q) + k) - 1) - Len(q) = k - 1
      BY <1>1, <2>1
    <3> QED
      BY <1>1, <2>1, <3>1 DEF Releases
  <2>2. CASE k = 1 /\ Len(q) = 0
    BY <1>2, <2>2 DEF Releases
  <2>3. CASE k = 1 /\ Len(q) > 0
    <3>1. Len(q) + k # 1 /\ (Len(q) + k) - 1 = Len(q) /\ Len(q) \in 1 .. Len(r)
      BY <1>1, <2>3
    <3>2. r[Len(q)] = q[Len(q)] /\ q[Len(q)] # Release
      BY <1>1, <1>2, <2>3, <3>1
    <3> QED
      BY <2>3, <3>1, <3>2 DEF Releases
  <2> QED
    BY <1>1, <2>1, <2>2, <2>3
<1>5. ASSUME NEW i \in 1 .. Len(r), i > Len(q)
      PROVE  \E k \in 1 .. Len(m) : i = Len(q) + k /\ r[i] = m[k]
  <2>1. i - Len(q) \in 1 .. Len(m) /\ i = Len(q) + (i - Len(q)) /\ ~(i <= Len(q))
    BY <1>1, <1>5
  <2> QED
    BY <1>1, <2>1
<1>6. Len(r) >= Len(q) /\ (\A i \in 1 .. Len(q) : i \in 1 .. Len(r) /\ r[i] = q[i])
      /\ (\A k \in 1 .. Len(m) : Len(q) + k \in 1 .. Len(r) /\ r[Len(q) + k] = m[k])
  <2>1. \A k \in 1 .. Len(m) : /\ Len(q) + k \in 1 .. Len(r) /\ ~(Len(q) + k <= Len(q))
                               /\ (Len(q) + k) - Len(q) = k
    BY <1>1
  <2> QED
    BY <1>1, <2>1
<1> HIDE DEF r
<1>7. Paired(p, r)
  <2>1. ASSUME NEW i \in 1 .. Len(r), r[i] = Release PROVE i < Len(r) /\ ~Releases(p, r, i)
    <3>1. CASE i <= Len(q)
      <4>1. i \in 1 .. Len(q)
        BY <1>1, <3>1
      <4>2. q[i] = Release
        BY <1>6, <2>1, <4>1
      <4>3. i < Len(q) /\ ~Releases(p, q, i)
        BY <1>2, <4>1, <4>2
      <4> QED
        BY <1>1, <1>3, <1>6, <4>1, <4>3
    <3>2. CASE i > Len(q)
      <4>1. PICK k \in 1 .. Len(m) : i = Len(q) + k /\ r[i] = m[k]
        BY <1>5, <3>2
      <4>2. k < Len(m) /\ ~(k > 1 /\ m[k - 1] = Release)
        BY <2>1, <4>1
      <4>3. ~Releases(p, r, i)
        BY <1>4, <4>1, <4>2
      <4> QED
        BY <1>1, <4>1, <4>2, <4>3
    <3> QED
      BY <1>1, <3>1, <3>2
  <2>2. p => r # <<>>
    BY <1>1, <1>2
  <2> QED
    BY <2>1, <2>2 DEF Paired
<1>8. ASSUME NEW c \in Code, NEW d, NEW old, NEW new, LastWord(p, q, d, c, old),
             \A k \in 1 .. Len(m) : m[k] = c => (new <=> ~(k > 1 /\ m[k - 1] = Release)),
             (\A k \in 1 .. Len(m) : m[k] # c) => (new <=> old)
      PROVE  LastWord(p, r, d, c, new)
  <2>1. ASSUME NEW i \in 1 .. Len(r), r[i] = c, \A j \in i + 1 .. Len(r) : r[j] # c
        PROVE  new <=> ~Releases(p, r, i)
    <3>1. CASE i > Len(q)
      <4>1. PICK k \in 1 .. Len(m) : i = Len(q) + k /\ r[i] = m[k]
        BY <1>5, <3>1
      <4> QED
        BY <1>4, <1>8, <2>1, <4>1
    <3>2. CASE i <= Len(q)
      <4>1. \A k \in 1 .. Len(m) : m[k] # c
        <5>1. \A k \in 1 .. Len(m) : Len(q) + k \in i + 1 .. Len(r)
          BY <1>1, <3>2
        <5> QED
          BY <1>6, <2>1, <5>1
      <4>2. i \in 1 .. Len(q) /\ q[i] = c /\ \A j \in i + 1 .. Len(q) : q[j] # c
        <5>1. \A j \in i + 1 .. Len(q) : j \in i + 1 .. Len(r) /\ j \in 1 .. Len(q)
          BY <1>1
        <5> QED
          BY <1>1, <1>6, <2>1, <3>2, <5>1
      <4> QED
        BY <1>3, <1>8, <4>1, <4>2 DEF LastWord
    <3> QED
      BY <1>1, <3>1, <3>2
  <2>2. ASSUME \A i \in 1 .. Len(r) : r[i] # c PROVE new <=> c \in d
    BY <1>6, <1>8, <2>2 DEF LastWord
  <2> QED
    BY <2>1, <2>2 DEF LastWord
<1> QED
  BY <1>7, <1>8 DEF r

\* The engine takes the first token.
LEMMA TakeFacts ==
  ASSUME NEW p \in BOOLEAN, NEW q \in Seq(KeyToken), q # <<>>, NEW d, Paired(p, q),
         NEW p2, NEW d2,
         IF Head(q) = Release /\ ~p THEN p2 = TRUE /\ d2 = d
         ELSE p2 = FALSE /\ d2 = IF p THEN d \ {Head(q)} ELSE d \cup {Head(q)}
  PROVE  /\ Paired(p2, Tail(q))
         /\ \A c \in Code, pressed \in BOOLEAN :
              LastWord(p, q, d, c, pressed) => LastWord(p2, Tail(q), d2, c, pressed)
<1> DEFINE r == Tail(q)
<1>1. /\ r \in Seq(KeyToken) /\ Len(r) = Len(q) - 1 /\ Len(q) \in Nat /\ Len(q) > 0
      /\ \A i \in 1 .. Len(r) : r[i] = q[i + 1] /\ i + 1 \in 1 .. Len(q)
      /\ Head(q) = q[1] /\ 1 \in 1 .. Len(q)
  <2>1. Len(q) \in Nat /\ Len(q) > 0
    OBVIOUS
  <2>2. /\ r \in Seq(KeyToken) /\ Len(r) = Len(q) - 1
        /\ \A i \in 1 .. Len(r) : r[i] = q[i + 1]
    BY HeadTailProperties
  <2>3. \A i \in 1 .. Len(r) : i + 1 \in 1 .. Len(q)
    BY <2>1, <2>2
  <2> QED
    BY <2>1, <2>2, <2>3
<1> HIDE DEF r
<1>2. \A i \in 1 .. Len(q) : q[i] = Release => i < Len(q) /\ ~Releases(p, q, i)
  BY DEF Paired
<1>3. p2 \in BOOLEAN /\ (p2 <=> q[1] = Release)
  BY <1>1, <1>2 DEF Releases
<1>4. ASSUME NEW i \in 1 .. Len(r) PROVE Releases(p2, r, i) <=> Releases(p, q, i + 1)
  <2>1. CASE i = 1
    BY <1>1, <1>3, <2>1 DEF Releases
  <2>2. CASE i # 1
    <3>1. i - 1 \in 1 .. Len(r) /\ (i - 1) + 1 = i /\ (i + 1) - 1 = i /\ i + 1 # 1
      BY <1>1, <2>2
    <3> QED
      BY <1>1, <2>2, <3>1 DEF Releases
  <2> QED
    BY <2>1, <2>2
<1>5. Paired(p2, r)
  <2>1. p2 => r # <<>>
    <3>1. p2 => 1 < Len(q)
      BY <1>1, <1>2, <1>3
    <3> QED
      BY <1>1, <3>1
  <2>2. \A i \in 1 .. Len(r) : r[i] = Release => i < Len(r) /\ ~Releases(p2, r, i)
    BY <1>1, <1>2, <1>4
  <2> QED
    BY <2>1, <2>2 DEF Paired
<1>6. ASSUME NEW c \in Code, NEW pressed \in BOOLEAN, LastWord(p, q, d, c, pressed)
      PROVE  LastWord(p2, r, d2, c, pressed)
  <2>1. ASSUME NEW i \in 1 .. Len(r), r[i] = c, \A j \in i + 1 .. Len(r) : r[j] # c
        PROVE  pressed <=> ~Releases(p2, r, i)
    <3>1. ASSUME NEW j \in (i + 1) + 1 .. Len(q) PROVE q[j] # c
      <4>1. j - 1 \in i + 1 .. Len(r) /\ j - 1 \in 1 .. Len(r) /\ (j - 1) + 1 = j
        BY <1>1
      <4> QED
        BY <1>1, <2>1, <4>1
    <3>2. i + 1 \in 1 .. Len(q) /\ q[i + 1] = c
      BY <1>1, <2>1
    <3> QED
      BY <1>4, <1>6, <3>1, <3>2 DEF LastWord
  <2>2. ASSUME \A i \in 1 .. Len(r) : r[i] # c PROVE pressed <=> c \in d2
    <3>1. ASSUME NEW j \in 2 .. Len(q) PROVE q[j] # c
      <4>1. j - 1 \in 1 .. Len(r) /\ (j - 1) + 1 = j
        BY <1>1
      <4> QED
        BY <1>1, <2>2, <4>1
    <3>2. c # Release
      BY CodeFacts
    <3>3. CASE q[1] = c
      <4>1. pressed <=> ~p
        <5>1. \A j \in 1 + 1 .. Len(q) : q[j] # c
          BY <3>1
        <5> QED
          BY <1>1, <1>6, <3>3, <5>1 DEF LastWord, Releases
      <4> QED
        BY <1>1, <3>2, <3>3, <4>1
    <3>4. CASE q[1] # c
      <4>1. \A j \in 1 .. Len(q) : q[j] # c
        BY <1>1, <3>1, <3>4
      <4>2. pressed <=> c \in d
        BY <1>6, <4>1 DEF LastWord
      <4> QED
        BY <1>1, <3>2, <3>4, <4>2
    <3> QED
      BY <3>3, <3>4
  <2> QED
    BY <2>1, <2>2 DEF LastWord
<1> QED
  BY <1>5, <1>6 DEF r

\* How many keysyms stand for a code, as one more is pressed or one less.
Holders(S, c) == {s \in S : KeyCode[s] = c}

\* A code has a holder among the keys that count for it.
LEMMA HolderFacts ==
  ASSUME NEW S, IsFiniteSet(S), NEW s, NEW c
  PROVE  /\ IsFiniteSet(Holders(S, c)) /\ Cardinality(Holders(S, c)) \in Nat
         /\ Cardinality(Holders(S, c)) = 0 <=> Holders(S, c) = {}
         /\ Cardinality(Holders(S \cup {s}, c)) =
              IF KeyCode[s] = c /\ s \notin S THEN Cardinality(Holders(S, c)) + 1
              ELSE Cardinality(Holders(S, c))
         /\ Cardinality(Holders(S \ {s}, c)) =
              IF KeyCode[s] = c /\ s \in S THEN Cardinality(Holders(S, c)) - 1
              ELSE Cardinality(Holders(S, c))
<1>1. IsFiniteSet(Holders(S, c))
  <2>1. Holders(S, c) \in SUBSET S
    BY DEF Holders
  <2> QED
    BY <2>1, FS_Subset
<1>2. Cardinality(Holders(S, c)) \in Nat /\ (Cardinality(Holders(S, c)) = 0 <=> Holders(S, c) = {})
  BY <1>1, FS_CardinalityType, FS_EmptySet
<1>3. CASE KeyCode[s] = c
  <2>1. /\ Holders(S \cup {s}, c) = Holders(S, c) \cup {s}
        /\ Holders(S \ {s}, c) = Holders(S, c) \ {s}
        /\ s \in Holders(S, c) <=> s \in S
    BY <1>3 DEF Holders
  <2>2. Cardinality(Holders(S \cup {s}, c)) =
          IF s \in Holders(S, c) THEN Cardinality(Holders(S, c)) ELSE Cardinality(Holders(S, c)) + 1
    BY <1>1, <2>1, FS_AddElement, Zenon
  <2>3. Cardinality(Holders(S \ {s}, c)) =
          IF s \in Holders(S, c) THEN Cardinality(Holders(S, c)) - 1 ELSE Cardinality(Holders(S, c))
    BY <1>1, <2>1, FS_RemoveElement, Zenon
  <2>4. CASE s \in S
    <3>1. s \in Holders(S, c) /\ ~(s \notin S)
      BY <2>1, <2>4
    <3> QED
      BY <1>1, <1>2, <1>3, <2>2, <2>3, <2>4, <3>1, Zenon
  <2>5. CASE s \notin S
    <3>1. s \notin Holders(S, c)
      BY <2>1, <2>5
    <3> QED
      BY <1>1, <1>2, <1>3, <2>2, <2>3, <2>5, <3>1, Zenon
  <2> QED
    BY <2>4, <2>5
<1>4. CASE KeyCode[s] # c
  <2>1. Holders(S \cup {s}, c) = Holders(S, c) /\ Holders(S \ {s}, c) = Holders(S, c)
    BY <1>4 DEF Holders
  <2>2. /\ Cardinality(Holders(S \cup {s}, c)) = Cardinality(Holders(S, c))
        /\ Cardinality(Holders(S \ {s}, c)) = Cardinality(Holders(S, c))
    BY <2>1, Zenon
  <2>3. ~(KeyCode[s] = c /\ s \notin S) /\ ~(KeyCode[s] = c /\ s \in S)
    BY <1>4
  <2> QED
    BY <1>1, <1>2, <2>2, <2>3, Zenon
<1> QED
  BY <1>3, <1>4

\* Tokens that all find room are appended; if not, that shows.
LEMMA ArriveFacts ==
  ASSUME rx \in Seq(KeyToken), Len(rx) <= Depth, overflow \in BOOLEAN,
         NEW m \in Seq(KeyToken), ArriveAll(m)
  PROVE  /\ rx' \in Seq(KeyToken) /\ Len(rx') <= Depth /\ overflow' \in BOOLEAN
         /\ ~overflow' => ~overflow /\ rx' = rx \o m
<1> DEFINE room == IF Len(m) < Depth - Len(rx) THEN Len(m) ELSE Depth - Len(rx)
<1>1. rx' = rx \o SubSeq(m, 1, room) /\ overflow' = (overflow \/ room < Len(m))
  BY DEF ArriveAll
<1>2. Depth \in Nat /\ Len(rx) \in Nat /\ Len(m) \in Nat /\ room \in Nat /\ room <= Len(m)
      /\ room <= Depth - Len(rx)
  BY DepthAssumption
<1> HIDE DEF room
<1>3. SubSeq(m, 1, room) \in Seq(KeyToken) /\ Len(SubSeq(m, 1, room)) = room
  <2>1. 1 \in Int /\ room \in Int /\ \A i \in 1 .. room : m[i] \in KeyToken
    BY <1>2
  <2>2. /\ SubSeq(m, 1, room) \in Seq(KeyToken)
        /\ Len(SubSeq(m, 1, room)) = IF 1 <= room THEN room - 1 + 1 ELSE 0
    BY <2>1, SubSeqProperties
  <2> QED
    BY <1>2, <2>2
<1>4. room = Len(m) => SubSeq(m, 1, room) = m
  BY <1>2
<1>5. /\ rx \o SubSeq(m, 1, room) \in Seq(KeyToken)
      /\ Len(rx \o SubSeq(m, 1, room)) = Len(rx) + room
  BY <1>3, ConcatProperties
<1>6. /\ Len(rx) + room <= Depth
      /\ ~(room < Len(m)) => room = Len(m)
  BY <1>2, DepthAssumption
<1>7. ~overflow' => ~overflow /\ rx' = rx \o m
  BY <1>1, <1>4, <1>6, Zenon
<1>8. overflow' \in BOOLEAN
  BY <1>1
<1> QED
  BY <1>1, <1>5, <1>6, <1>7, <1>8

\* What the engine will have heard keeps up with the counts when a message says what they
\* have become.
LEMMA ToldStep ==
  ASSUME KeyInv, NEW m \in Seq(KeyToken), ArriveAll(m), UNCHANGED <<prefix, down>>,
         \A k \in 1 .. Len(m) : m[k] = Release => k < Len(m) /\ (k > 1 => m[k - 1] # Release),
         \A c \in Code :
           /\ \A k \in 1 .. Len(m) :
                m[k] = c => (counts[c]' > 0 <=> ~(k > 1 /\ m[k - 1] = Release))
           /\ (\A k \in 1 .. Len(m) : m[k] # c) => (counts[c]' > 0 <=> counts[c] > 0)
  PROVE  /\ rx' \in Seq(KeyToken) /\ Len(rx') <= Depth /\ overflow' \in BOOLEAN
         /\ KeysOnTheWay'
<1> USE DEF KeyInv
<1>1. /\ rx' \in Seq(KeyToken) /\ Len(rx') <= Depth /\ overflow' \in BOOLEAN
      /\ ~overflow' => ~overflow /\ rx' = rx \o m
  BY ArriveFacts DEF KeyTyped
<1>2. ASSUME ~overflow'
      PROVE  /\ Paired(prefix, rx \o m)
             /\ \A c \in Code : LastWord(prefix, rx \o m, down, c, counts[c]' > 0)
  <2>1. /\ Paired(prefix, rx) /\ prefix \in BOOLEAN /\ rx \in Seq(KeyToken)
        /\ \A c \in Code : LastWord(prefix, rx, down, c, counts[c] > 0)
    BY <1>1, <1>2 DEF KeysOnTheWay, KeyTyped
  <2>2. Paired(prefix, rx \o m)
    BY <2>1, SendFacts
  <2>3. ASSUME NEW c \in Code PROVE LastWord(prefix, rx \o m, down, c, counts[c]' > 0)
    BY <2>1, SendFacts
  <2> QED
    BY <2>2, <2>3
<1>3. KeysOnTheWay'
  BY <1>1, <1>2 DEF KeysOnTheWay
<1> QED
  BY <1>1, <1>3

\* Nothing is sent, and no code changes between pressed and not pressed.
LEMMA UntoldStep ==
  ASSUME KeyInv, UNCHANGED <<rx, overflow, prefix, down>>,
         \A c \in Code : counts[c]' > 0 <=> counts[c] > 0
  PROVE  /\ rx' \in Seq(KeyToken) /\ Len(rx') <= Depth /\ overflow' \in BOOLEAN
         /\ KeysOnTheWay'
<1>1. rx' \in Seq(KeyToken) /\ Len(rx') <= Depth /\ overflow' \in BOOLEAN
  BY DEF KeyInv, KeyTyped
<1>2. ASSUME ~overflow', NEW c \in Code PROVE LastWord(prefix, rx, down, c, counts[c]' > 0)
  BY <1>2 DEF KeyInv, KeysOnTheWay, LastWord
<1>3. KeysOnTheWay'
  BY <1>2 DEF KeyInv, KeysOnTheWay
<1> QED
  BY <1>1, <1>3

\* One more keysym is pressed.
LEMMA CountUp ==
  ASSUME KeyTyped, NEW s \in Keysym, s \notin sources, sources' = sources \cup {s},
         counts' = [counts EXCEPT ![KeyCode[s]] = @ + 1]
  PROVE  /\ sources' \subseteq Keysym /\ IsFiniteSet(sources') /\ IsFiniteSet(Pressed')
         /\ counts' = [c \in Code |-> Cardinality({x \in sources' : KeyCode[x] = c})]
         /\ \A c \in Code : /\ counts[c] \in Nat
                            /\ counts[c]' = IF c = KeyCode[s] THEN counts[c] + 1 ELSE counts[c]
<1>1. /\ sources \subseteq Keysym /\ IsFiniteSet(sources) /\ IsFiniteSet(Pressed)
      /\ counts = [c \in Code |-> Cardinality(Holders(sources, c))]
      /\ KeyCode[s] \in Code
  BY CodeFacts DEF KeyTyped, Holders
<1>2. \A c \in Code : /\ Cardinality(Holders(sources, c)) \in Nat
                      /\ Cardinality(Holders(sources \cup {s}, c)) =
                           IF KeyCode[s] = c THEN Cardinality(Holders(sources, c)) + 1
                           ELSE Cardinality(Holders(sources, c))
  BY <1>1, HolderFacts
<1>3. \A c \in Code : /\ counts[c] \in Nat
                      /\ counts[c]' = IF c = KeyCode[s] THEN counts[c] + 1 ELSE counts[c]
  BY <1>1, <1>2
<1>4. counts' = [c \in Code |-> Cardinality(Holders(sources', c))]
  BY <1>1, <1>2
<1>5. Pressed' = Pressed \cup {KeyCode[s]}
  BY <1>1, <1>3 DEF Pressed
<1>6. IsFiniteSet(sources') /\ IsFiniteSet(Pressed')
  BY <1>1, <1>5, FS_AddElement
<1> QED
  BY <1>1, <1>3, <1>4, <1>6 DEF Holders

\* One less.
LEMMA CountDown ==
  ASSUME KeyTyped, NEW s \in Keysym, s \in sources, sources' = sources \ {s},
         counts' = [counts EXCEPT ![KeyCode[s]] = @ - 1]
  PROVE  /\ sources' \subseteq Keysym /\ IsFiniteSet(sources') /\ IsFiniteSet(Pressed')
         /\ counts' = [c \in Code |-> Cardinality({x \in sources' : KeyCode[x] = c})]
         /\ \A c \in Code : /\ counts[c] \in Nat
                            /\ counts[c]' = IF c = KeyCode[s] THEN counts[c] - 1 ELSE counts[c]
         /\ counts[KeyCode[s]] > 0
<1>1. /\ sources \subseteq Keysym /\ IsFiniteSet(sources) /\ IsFiniteSet(Pressed)
      /\ counts = [c \in Code |-> Cardinality(Holders(sources, c))]
      /\ KeyCode[s] \in Code /\ s \in Holders(sources, KeyCode[s])
  BY CodeFacts DEF KeyTyped, Holders
<1>2. \A c \in Code : /\ Cardinality(Holders(sources, c)) \in Nat
                      /\ Cardinality(Holders(sources, c)) = 0 <=> Holders(sources, c) = {}
                      /\ Cardinality(Holders(sources \ {s}, c)) =
                           IF KeyCode[s] = c THEN Cardinality(Holders(sources, c)) - 1
                           ELSE Cardinality(Holders(sources, c))
  BY <1>1, HolderFacts
<1>3. \A c \in Code : /\ counts[c] \in Nat
                      /\ counts[c]' = IF c = KeyCode[s] THEN counts[c] - 1 ELSE counts[c]
  BY <1>1, <1>2
<1>4. counts' = [c \in Code |-> Cardinality(Holders(sources', c))]
  BY <1>1, <1>2
<1>5. Pressed' \in SUBSET Pressed
  BY <1>1, <1>3 DEF Pressed
<1>6. IsFiniteSet(sources') /\ IsFiniteSet(Pressed')
  BY <1>1, <1>5, FS_RemoveElement, FS_Subset
<1>7. counts[KeyCode[s]] > 0
  <2>1. Cardinality(Holders(sources, KeyCode[s])) \in Nat \ {0}
    BY <1>1, <1>2
  <2> QED
    BY <1>1, <2>1
<1> QED
  BY <1>1, <1>3, <1>4, <1>6, <1>7 DEF Holders

\* A press keeps the two ends together.
LEMMA KeyDownInv ==
  ASSUME KeyInv, NEW s \in Keysym, KeyDown(s), focus, UNCHANGED <<focus, prefix, down>>,
         held' \subseteq Key
  PROVE  KeyInv'
<1>1. KeyTyped
  BY DEF KeyInv
<1>2. CASE s \in pending
  <2>1. /\ pending' = pending \ {s} /\ timers' = [timers EXCEPT ![s] = @ - 1]
        /\ UNCHANGED <<sources, counts, rx, overflow>>
    BY <1>2 DEF KeyDown, Unsent
  <2>2. timers' \in [Keysym -> Nat] /\ \A x \in pending' : timers'[x] > 0
    BY <1>1, <1>2, <2>1 DEF KeyTyped
  <2>3. KeysOnTheWay'
    BY <2>1, UntoldStep
  <2> QED
    BY <1>1, <2>1, <2>2, <2>3 DEF KeyInv, KeyTyped, Pressed
<1>3. CASE s \notin pending /\ s \in sources
  <2>1. UNCHANGED <<sources, counts, pending, timers, rx, overflow>>
    BY <1>3 DEF KeyDown, Unsent, viewerVars
  <2>2. KeysOnTheWay'
    BY <2>1, UntoldStep
  <2> QED
    BY <1>1, <2>1, <2>2 DEF KeyInv, KeyTyped, Pressed
<1>4. CASE s \notin pending /\ s \notin sources
  <2>1. /\ sources' = sources \cup {s} /\ counts' = [counts EXCEPT ![KeyCode[s]] = @ + 1]
        /\ IF counts[KeyCode[s]] = 0 THEN ArriveAll(<<KeyCode[s]>>) ELSE Unsent
        /\ UNCHANGED <<pending, timers>>
    BY <1>4 DEF KeyDown
  <2>2. /\ sources' \subseteq Keysym /\ IsFiniteSet(sources') /\ IsFiniteSet(Pressed')
        /\ counts' = [c \in Code |-> Cardinality({x \in sources' : KeyCode[x] = c})]
        /\ \A c \in Code : /\ counts[c] \in Nat
                           /\ counts[c]' = IF c = KeyCode[s] THEN counts[c] + 1 ELSE counts[c]
    BY <1>1, <1>4, <2>1, CountUp
  <2>3. KeyCode[s] \in Code /\ Release \notin Code
    BY CodeFacts
  <2>4. rx' \in Seq(KeyToken) /\ Len(rx') <= Depth /\ overflow' \in BOOLEAN /\ KeysOnTheWay'
    <3>1. CASE counts[KeyCode[s]] = 0
      <4> DEFINE m == <<KeyCode[s]>>
      <4>1. /\ m \in Seq(KeyToken) /\ Len(m) = 1 /\ m[1] = KeyCode[s]
        BY <2>3 DEF KeyToken
      <4>2. \A k \in 1 .. Len(m) : k = 1 /\ m[k] = KeyCode[s]
        BY <4>1
      <4>3. ArriveAll(m)
        BY <2>1, <3>1
      <4> HIDE DEF m
      <4>4. \A k \in 1 .. Len(m) : m[k] = Release => k < Len(m) /\ (k > 1 => m[k - 1] # Release)
        BY <2>3, <4>2
      <4>5. ASSUME NEW c \in Code
            PROVE  /\ \A k \in 1 .. Len(m) :
                        m[k] = c => (counts[c]' > 0 <=> ~(k > 1 /\ m[k - 1] = Release))
                   /\ (\A k \in 1 .. Len(m) : m[k] # c) => (counts[c]' > 0 <=> counts[c] > 0)
        BY <2>2, <4>1, <4>2
      <4> QED
        BY <4>1, <4>3, <4>4, <4>5, ToldStep
    <3>2. CASE counts[KeyCode[s]] # 0
      <4>1. UNCHANGED <<rx, overflow>>
        BY <2>1, <3>2 DEF Unsent
      <4>2. \A c \in Code : counts[c]' > 0 <=> counts[c] > 0
        BY <2>2, <2>3, <3>2
      <4> QED
        BY <4>1, <4>2, UntoldStep
    <3> QED
      BY <3>1, <3>2
  <2> QED
    BY <1>1, <2>1, <2>2, <2>4 DEF KeyInv, KeyTyped
<1> QED
  BY <1>2, <1>3, <1>4

\* So does a release, at once or after its timer.
LEMMA FinishInv ==
  ASSUME KeyInv, NEW s \in Keysym, FinishRelease(s)
  PROVE  KeyInv'
<1>1. KeyTyped
  BY DEF KeyInv
<1>2. /\ UNCHANGED <<held, focus, prefix, down>>
      /\ timers' \in [Keysym -> Nat] /\ pending' = pending \ {s}
      /\ \A x \in pending' : timers'[x] > 0
  BY <1>1 DEF FinishRelease, KeyTyped
<1>3. CASE s \notin sources
  <2>1. UNCHANGED <<sources, counts, rx, overflow>>
    BY <1>3 DEF FinishRelease, Unsent
  <2>2. KeysOnTheWay'
    BY <1>2, <2>1, UntoldStep
  <2> QED
    BY <1>1, <1>2, <2>1, <2>2 DEF KeyInv, KeyTyped, Pressed
<1>4. CASE s \in sources
  <2>1. /\ sources' = sources \ {s} /\ counts' = [counts EXCEPT ![KeyCode[s]] = @ - 1]
        /\ IF counts[KeyCode[s]] = 1 THEN ArriveAll(<<Release, KeyCode[s]>>) ELSE Unsent
    BY <1>4 DEF FinishRelease
  <2>2. /\ sources' \subseteq Keysym /\ IsFiniteSet(sources') /\ IsFiniteSet(Pressed')
        /\ counts' = [c \in Code |-> Cardinality({x \in sources' : KeyCode[x] = c})]
        /\ \A c \in Code : /\ counts[c] \in Nat
                           /\ counts[c]' = IF c = KeyCode[s] THEN counts[c] - 1 ELSE counts[c]
        /\ counts[KeyCode[s]] > 0
    BY <1>1, <1>4, <2>1, CountDown
  <2>3. KeyCode[s] \in Code /\ Release \notin Code
    BY CodeFacts
  <2>4. rx' \in Seq(KeyToken) /\ Len(rx') <= Depth /\ overflow' \in BOOLEAN /\ KeysOnTheWay'
    <3>1. CASE counts[KeyCode[s]] = 1
      <4> DEFINE m == <<Release, KeyCode[s]>>
      <4>1. m \in Seq(KeyToken) /\ Len(m) = 2 /\ m[1] = Release /\ m[2] = KeyCode[s]
        BY <2>3 DEF KeyToken
      <4>2. ArriveAll(m)
        BY <2>1, <3>1
      <4> HIDE DEF m
      <4>3. \A k \in 1 .. Len(m) : k = 1 \/ (k = 2 /\ k > 1 /\ k - 1 = 1)
        BY <4>1
      <4>4. \A k \in 1 .. Len(m) : m[k] = Release => k < Len(m) /\ (k > 1 => m[k - 1] # Release)
        BY <2>3, <4>1, <4>3
      <4>5. ASSUME NEW c \in Code
            PROVE  /\ \A k \in 1 .. Len(m) :
                        m[k] = c => (counts[c]' > 0 <=> ~(k > 1 /\ m[k - 1] = Release))
                   /\ (\A k \in 1 .. Len(m) : m[k] # c) => (counts[c]' > 0 <=> counts[c] > 0)
        <5>1. CASE c = KeyCode[s]
          <6>1. ~(counts[c]' > 0)
            BY <2>2, <3>1, <5>1
          <6>2. 2 \in 1 .. Len(m) /\ m[2] = c
            BY <4>1, <5>1
          <6> QED
            BY <2>3, <4>1, <4>3, <6>1, <6>2
        <5>2. CASE c # KeyCode[s]
          <6>1. counts[c]' = counts[c]
            BY <2>2, <5>2
          <6>2. \A k \in 1 .. Len(m) : m[k] # c
            BY <2>3, <4>1, <4>3, <5>2
          <6> QED
            BY <6>1, <6>2
        <5> QED
          BY <5>1, <5>2
      <4> QED
        BY <1>2, <4>1, <4>2, <4>4, <4>5, ToldStep
    <3>2. CASE counts[KeyCode[s]] # 1
      <4>1. UNCHANGED <<rx, overflow>>
        BY <2>1, <3>2 DEF Unsent
      <4>2. \A c \in Code : counts[c]' > 0 <=> counts[c] > 0
        BY <2>2, <2>3, <3>2
      <4> QED
        BY <1>2, <4>1, <4>2, UntoldStep
    <3> QED
      BY <3>1, <3>2
  <2> QED
    BY <1>1, <1>2, <2>1, <2>2, <2>4 DEF KeyInv, KeyTyped
<1> QED
  BY <1>3, <1>4

\* Every code that is pressed is released, whatever the order.
LEMMA LoseFocusInv ==
  ASSUME KeyInv, LoseFocus
  PROVE  KeyInv'
<1>1. KeyTyped /\ Release \notin Code /\ UNCHANGED <<held, prefix, down>>
  BY CodeFacts DEF KeyInv, LoseFocus
<1>2. PICK order \in [1 .. Cardinality(Pressed) -> Pressed] :
        /\ {order[i] : i \in DOMAIN order} = Pressed
        /\ ArriveAll([i \in 1 .. 2 * Len(order) |->
                        IF i % 2 = 1 THEN Release ELSE order[i \div 2]])
  BY DEF LoseFocus, Pressed
<1> DEFINE n == Cardinality(Pressed)
           m == [i \in 1 .. 2 * n |-> IF i % 2 = 1 THEN Release ELSE order[i \div 2]]
<1>3. n \in Nat /\ Pressed \subseteq Code
  BY <1>1, FS_CardinalityType DEF KeyTyped, Pressed
<1> HIDE DEF n
<1>4. order \in [1 .. n -> Pressed] /\ DOMAIN order = 1 .. n /\ Len(order) = n
  <2>1. order \in [1 .. n -> Pressed]
    BY <1>2 DEF n
  <2> QED
    BY <1>3, <2>1
<1>5. ArriveAll(m)
  BY <1>2, <1>4
<1>6. /\ m \in Seq(KeyToken) /\ Len(m) = 2 * n
      /\ \A k \in 1 .. 2 * n :
           \/ k % 2 = 1 /\ m[k] = Release
           \/ k % 2 = 0 /\ m[k] = order[k \div 2] /\ m[k] \in Pressed
  <2>1. \A k \in 1 .. 2 * n : k % 2 = 1 \/ (k % 2 = 0 /\ k \div 2 \in 1 .. n)
    BY <1>3
  <2>2. \A k \in 1 .. 2 * n : m[k] \in KeyToken
    BY <1>3, <1>4, <2>1 DEF KeyToken
  <2>3. m \in Seq(KeyToken) /\ Len(m) = 2 * n
    BY <1>3, <2>2
  <2> QED
    BY <1>4, <2>1, <2>3
<1>7. \A i \in 1 .. n : 2 * i \in 1 .. 2 * n /\ m[2 * i] = order[i]
  <2>1. \A i \in 1 .. n : 2 * i \in 1 .. 2 * n /\ (2 * i) % 2 # 1 /\ (2 * i) \div 2 = i
    BY <1>3
  <2> QED
    BY <2>1
<1> HIDE DEF m
<1>8. ASSUME NEW k \in 1 .. Len(m), m[k] = Release
      PROVE  k < Len(m) /\ (k > 1 => m[k - 1] # Release)
  <2>1. k \in 1 .. 2 * n /\ k % 2 = 1
    BY <1>1, <1>3, <1>6, <1>8
  <2>2. k < 2 * n /\ (k - 1) % 2 # 1
    BY <1>3, <2>1
  <2>3. k > 1 => k - 1 \in 1 .. 2 * n
    BY <1>3, <2>1
  <2> QED
    BY <1>1, <1>3, <1>6, <2>2, <2>3
<1>9. counts' = [c \in Code |-> 0] /\ sources' = {} /\ pending' = {} /\ focus' = FALSE
  BY DEF LoseFocus, NoKeys
<1>10. ASSUME NEW c \in Code
       PROVE  /\ \A k \in 1 .. Len(m) :
                   m[k] = c => (counts[c]' > 0 <=> ~(k > 1 /\ m[k - 1] = Release))
              /\ (\A k \in 1 .. Len(m) : m[k] # c) => (counts[c]' > 0 <=> counts[c] > 0)
  <2>1. ~(counts[c]' > 0)
    BY <1>9
  <2>2. ASSUME NEW k \in 1 .. Len(m), m[k] = c PROVE k > 1 /\ m[k - 1] = Release
    <3>1. k \in 1 .. 2 * n /\ k % 2 = 0
      BY <1>1, <1>6, <2>2
    <3>2. k > 1 /\ k - 1 \in 1 .. 2 * n /\ (k - 1) % 2 # 0
      BY <1>3, <3>1
    <3> QED
      BY <1>6, <3>2
  <2>3. ASSUME counts[c] > 0 PROVE \E k \in 1 .. Len(m) : m[k] = c
    <3>1. PICK i \in 1 .. n : order[i] = c
      BY <1>2, <1>4, <2>3 DEF Pressed
    <3> QED
      BY <1>6, <1>7, <3>1
  <2> QED
    BY <2>1, <2>2, <2>3
<1>11. rx' \in Seq(KeyToken) /\ Len(rx') <= Depth /\ overflow' \in BOOLEAN /\ KeysOnTheWay'
  BY <1>1, <1>5, <1>6, <1>8, <1>10, ToldStep
<1>12. timers' \in [Keysym -> Nat]
  <2>1. timers' = [s \in Keysym |-> IF s \in pending THEN timers[s] - 1 ELSE timers[s]]
    BY DEF LoseFocus
  <2> QED
    BY <1>1, <2>1 DEF KeyTyped
<1>13. /\ IsFiniteSet(sources') /\ IsFiniteSet(Pressed')
       /\ counts' = [c \in Code |-> Cardinality({s \in sources' : KeyCode[s] = c})]
  <2>1. Pressed' = {} /\ \A c \in Code : {s \in sources' : KeyCode[s] = c} = {}
    BY <1>9 DEF Pressed
  <2> QED
    BY <1>9, <2>1, FS_EmptySet
<1> QED
  BY <1>1, <1>9, <1>11, <1>12, <1>13 DEF KeyInv, KeyTyped

\* So does the engine's reading of a code or a prefix.
LEMMA GetKeyInv ==
  ASSUME KeyInv, GetKey
  PROVE  KeyInv'
<1>1. KeyTyped /\ Release \notin Code
  BY CodeFacts DEF KeyInv
<1>2. /\ rx # <<>> /\ rx' = Tail(rx) /\ UNCHANGED <<overflow, held, focus, viewerVars>>
      /\ IF Head(rx) = Release /\ ~prefix THEN prefix' = TRUE /\ down' = down
         ELSE prefix' = FALSE /\ down' = IF prefix THEN down \ {Head(rx)} ELSE down \cup {Head(rx)}
  BY DEF GetKey, Receive, Received
<1>3. prefix \in BOOLEAN /\ rx \in Seq(KeyToken) /\ Len(rx) <= Depth /\ Head(rx) \in KeyToken
  BY <1>1, <1>2 DEF KeyTyped
<1>4. rx' \in Seq(KeyToken) /\ Len(rx') <= Depth
  <2>1. Tail(rx) \in Seq(KeyToken) /\ Len(Tail(rx)) = Len(rx) - 1
    BY <1>2, <1>3, HeadTailProperties
  <2> QED
    BY <1>2, <1>3, <2>1, DepthAssumption
<1>5. prefix' \in BOOLEAN /\ down' \subseteq Code
  BY <1>1, <1>2, <1>3 DEF KeyTyped, KeyToken
<1>6. KeysOnTheWay'
  <2> SUFFICES ASSUME ~overflow
               PROVE  /\ Paired(prefix', rx')
                      /\ \A c \in Code : LastWord(prefix', rx', down', c, counts[c] > 0)
    BY <1>2 DEF KeysOnTheWay, viewerVars
  <2>1. /\ Paired(prefix, rx)
        /\ \A c \in Code : LastWord(prefix, rx, down, c, counts[c] > 0)
    BY DEF KeyInv, KeysOnTheWay
  <2>2. /\ Paired(prefix', Tail(rx))
        /\ \A c \in Code, pressed \in BOOLEAN :
             LastWord(prefix, rx, down, c, pressed) => LastWord(prefix', Tail(rx), down', c, pressed)
    <3>1. /\ prefix \in BOOLEAN /\ rx \in Seq(KeyToken) /\ rx # <<>> /\ Paired(prefix, rx)
          /\ IF Head(rx) = Release /\ ~prefix THEN prefix' = TRUE /\ down' = down
             ELSE prefix' = FALSE /\ down' = IF prefix THEN down \ {Head(rx)} ELSE down \cup {Head(rx)}
      BY <1>2, <1>3, <2>1
    <3>2. \A p2, d2 :
            (IF Head(rx) = Release /\ ~prefix THEN p2 = TRUE /\ d2 = down
             ELSE p2 = FALSE /\ d2 = IF prefix THEN down \ {Head(rx)} ELSE down \cup {Head(rx)})
            => /\ Paired(p2, Tail(rx))
               /\ \A c \in Code, pressed \in BOOLEAN :
                    LastWord(prefix, rx, down, c, pressed) => LastWord(p2, Tail(rx), d2, c, pressed)
      BY <3>1, TakeFacts
    <3> QED
      BY <3>1, <3>2, Zenon
  <2>3. ASSUME NEW c \in Code PROVE LastWord(prefix', Tail(rx), down', c, counts[c] > 0)
    <3>1. (counts[c] > 0) \in BOOLEAN
      OBVIOUS
    <3> QED
      BY <2>1, <2>2, <3>1, Zenon
  <2> QED
    BY <1>2, <2>2, <2>3, Zenon
<1> QED
  BY <1>1, <1>2, <1>4, <1>5, <1>6 DEF KeyInv, KeyTyped, Pressed, viewerVars

-----------------------------------------------------------------------------
\* At the start nothing is down and nothing is sent.
LEMMA InitKeyInv == KeysOff /\ LineInit => KeyInv
<1> SUFFICES ASSUME KeysOff, LineInit PROVE KeyInv
  OBVIOUS
<1>1. Pressed = {} /\ \A c \in Code : {s \in sources : KeyCode[s] = c} = {}
  BY DEF KeysOff, NoKeys, Pressed
<1>2. counts = [c \in Code |-> Cardinality({s \in sources : KeyCode[s] = c})]
  BY <1>1, FS_EmptySet DEF KeysOff, NoKeys
<1>3. rx = <<>> /\ rx \in Seq(KeyToken) /\ Len(rx) = 0 /\ overflow = FALSE
  BY DEF LineInit
<1>4. KeyTyped
  <2>1. IsFiniteSet(sources) /\ IsFiniteSet(Pressed)
    BY <1>1, FS_EmptySet DEF KeysOff
  <2>2. timers \in [Keysym -> Nat]
    BY DEF KeysOff, NoTimers
  <2>3. /\ held \subseteq Key /\ focus \in BOOLEAN /\ sources = {}
        /\ pending = {} /\ prefix \in BOOLEAN /\ down \subseteq Code
    BY DEF KeysOff
  <2>4. Len(rx) <= Depth /\ overflow \in BOOLEAN
    <3>1. Len(rx) = 0 /\ overflow = FALSE
      BY <1>3
    <3>2. 0 <= Depth
      BY DepthAssumption
    <3> QED
      BY <3>1, <3>2, Zenon
  <2>5. sources \subseteq Keysym /\ (~focus => sources = {}) /\ pending \subseteq Keysym
        /\ \A s \in pending : timers[s] > 0
    BY <2>3
  <2> QED
    BY <1>2, <1>3, <2>1, <2>2, <2>3, <2>4, <2>5, Zenon DEF KeyTyped
<1>5. KeysOnTheWay
  <2>1. ~prefix /\ down = {} /\ \A c \in Code : ~(counts[c] > 0)
    BY DEF KeysOff, NoKeys
  <2>2. Paired(prefix, rx)
    BY <1>3, <2>1 DEF Paired
  <2>3. ASSUME NEW c \in Code PROVE LastWord(prefix, rx, down, c, counts[c] > 0)
    BY <1>3, <2>1 DEF LastWord
  <2> QED
    BY <2>2, <2>3 DEF KeysOnTheWay
<1> QED
  BY <1>4, <1>5 DEF KeyInv

\* Every step keeps the two ends together.
LEMMA NextKeyInv == KeyInv /\ [KeyStep]_<<keyVars, lineVars>> => KeyInv'
<1> SUFFICES ASSUME KeyInv, [KeyStep]_<<keyVars, lineVars>> PROVE KeyInv'
  OBVIOUS
<1>0. KeyTyped
  BY DEF KeyInv
<1>1. CASE UNCHANGED <<keyVars, lineVars>>
  <2>1. UNCHANGED <<held, focus, sources, counts, pending, timers, prefix, down, rx, overflow>>
    BY <1>1 DEF keyVars, lineVars
  <2>2. KeysOnTheWay'
    BY <2>1, UntoldStep
  <2> QED
    BY <1>0, <2>1, <2>2 DEF KeyInv, KeyTyped, Pressed
<1>2. ASSUME NEW k \in Key, PressKey(k) \/ RepeatKey(k) \/ ReleaseKey(k) PROVE KeyInv'
  <2>1. held' \subseteq Key /\ UNCHANGED <<focus, prefix, down>> /\ Keyname(k) \in Keysym
    BY <1>0, <1>2, CodeFacts DEF PressKey, RepeatKey, ReleaseKey, KeyTyped
  <2>2. CASE KeyDown(Keyname(k)) /\ focus
    BY <2>1, <2>2, KeyDownInv
  <2>3. CASE KeyUp(Keyname(k)) \/ (UNCHANGED viewerVars /\ Unsent)
    <3>1. /\ UNCHANGED <<sources, counts, rx, overflow>>
          /\ timers' \in [Keysym -> Nat] /\ pending' \subseteq Keysym
          /\ \A s \in pending' : timers'[s] > 0
      BY <1>0, <2>1, <2>3 DEF KeyUp, Unsent, viewerVars, KeyTyped
    <3>2. KeysOnTheWay'
      BY <2>1, <3>1, UntoldStep
    <3> QED
      BY <1>0, <2>1, <3>1, <3>2 DEF KeyInv, KeyTyped, Pressed
  <2> QED
    BY <1>2, <2>2, <2>3 DEF PressKey, RepeatKey, ReleaseKey
<1>3. CASE \E s \in Keysym : FinishRelease(s)
  BY <1>3, FinishInv
<1>4. CASE LoseFocus
  BY <1>4, LoseFocusInv
<1>5. CASE GainFocus
  <2>1. /\ focus' = TRUE
        /\ UNCHANGED <<held, sources, counts, pending, timers, prefix, down, rx, overflow>>
    BY <1>5 DEF GainFocus, viewerVars, lineVars
  <2>2. KeysOnTheWay'
    BY <2>1, UntoldStep
  <2> QED
    BY <1>0, <2>1, <2>2 DEF KeyInv, KeyTyped, Pressed
<1>6. CASE GetKey
  BY <1>6, GetKeyInv
<1> QED
  BY <1>1, <1>2, <1>3, <1>4, <1>5, <1>6 DEF KeyStep

\* When everything has been read, the engine and the viewer agree.
LEMMA KeysInStep == KeyInv => KeysAgree
<1> SUFFICES ASSUME KeyInv, rx = <<>>, ~overflow
             PROVE  /\ ~prefix /\ down = {c \in Code : counts[c] > 0}
                    /\ ~focus => down = {}
  BY DEF KeysAgree
<1>1. KeyTyped /\ Len(rx) = 0
  BY DEF KeyInv
<1>2. Paired(prefix, rx) /\ \A c \in Code : LastWord(prefix, rx, down, c, counts[c] > 0)
  BY DEF KeyInv, KeysOnTheWay
<1>3. ~prefix
  BY <1>2 DEF Paired
<1>4. \A c \in Code : counts[c] > 0 <=> c \in down
  BY <1>1, <1>2 DEF LastWord
<1>5. down = {c \in Code : counts[c] > 0}
  BY <1>1, <1>4 DEF KeyTyped
<1>6. ~focus => down = {}
  <2>1. ~focus => \A c \in Code : {s \in sources : KeyCode[s] = c} = {}
    BY <1>1 DEF KeyTyped
  <2>2. ~focus => \A c \in Code : counts[c] = 0
    BY <1>1, <2>1, FS_EmptySet DEF KeyTyped
  <2> QED
    BY <1>5, <2>2
<1> QED
  BY <1>3, <1>5, <1>6

\* For every keyboard, whatever keys share a code, and every queue: unless the queue has
\* overflowed, the engine takes for pressed what the viewer does, as soon as it has read
\* everything; and nothing once the window has lost the focus.
THEOREM KeysStayAgreed == KeySpec => []KeysAgree
BY InitKeyInv, NextKeyInv, KeysInStep, PTL DEF KeySpec

-----------------------------------------------------------------------------
(***************************************************************************)
(* The encoding of the pictures.                                           *)
(***************************************************************************)

\* Induction over the natural numbers, for a set in place of a predicate.
LEMMA SetInduction ==
  ASSUME NEW S, 0 \in S, \A n \in Nat : n \in S => n + 1 \in S
  PROVE  \A n \in Nat : n \in S
<1> SUFFICES ASSUME NEW m \in Nat, m \notin S PROVE FALSE
  OBVIOUS
<1> DEFINE T == {n \in Nat : n \notin S}
           R == OpToRel(<, Nat)
<1>1. T \subseteq Nat /\ T # {}
  OBVIOUS
<1>2. IsWellFoundedOn(R, Nat)
  BY NatLessThanWellFounded
<1> HIDE DEF R
<1>3. PICK n \in T : \A k \in T : ~(<<k, n>> \in R)
  BY <1>1, <1>2, WFMin
<1>4. CASE n = 0
  BY <1>4
<1>5. CASE n # 0
  <2>1. n - 1 \in Nat /\ n - 1 + 1 = n /\ n - 1 < n
    BY <1>5
  <2>2. n - 1 \in T
    BY <2>1
  <2>3. <<n - 1, n>> \in R
    BY <2>1 DEF R, OpToRel
  <2> QED
    BY <1>3, <2>2, <2>3
<1> QED
  BY <1>4, <1>5

\* The largest of a bounded set of numbers that has one.
LEMMA MaxFacts ==
  ASSUME NEW N \in Nat, NEW S, S \subseteq 0..N, S # {}
  PROVE  Max(S) \in S /\ \A x \in S : Max(S) >= x
<1> DEFINE Has == {n \in Nat : \A T \in SUBSET (0..n) :
                     T # {} => \E x \in T : \A y \in T : x >= y}
<1>1. 0 \in Has
  <2> SUFFICES ASSUME NEW T \in SUBSET (0..0), T # {} PROVE \E x \in T : \A y \in T : x >= y
    OBVIOUS
  <2>1. PICK x \in T : TRUE
    OBVIOUS
  <2>2. \A y \in T : x >= y
    BY <2>1
  <2> QED
    BY <2>2
<1>2. ASSUME NEW n \in Nat, n \in Has PROVE n + 1 \in Has
  <2> SUFFICES ASSUME NEW T \in SUBSET (0..n + 1), T # {}
               PROVE  \E x \in T : \A y \in T : x >= y
    OBVIOUS
  <2>1. CASE n + 1 \in T
    BY <2>1
  <2>2. CASE n + 1 \notin T
    <3>1. T \subseteq 0..n
      BY <2>2
    <3> QED
      BY <1>2, <3>1
  <2> QED
    BY <2>1, <2>2
<1> HIDE DEF Has
<1>3. N \in Has
  BY <1>1, <1>2, SetInduction
<1>4. \E x \in S : \A y \in S : x >= y
  BY <1>3 DEF Has
<1> QED
  BY <1>4 DEF Max

\* The smallest of a set of numbers that has one.
LEMMA MinFacts ==
  ASSUME NEW S, S \subseteq Nat, S # {}
  PROVE  Min(S) \in S /\ \A x \in S : Min(S) <= x
<1> DEFINE R == OpToRel(<, Nat)
<1>1. IsWellFoundedOn(R, Nat)
  BY NatLessThanWellFounded
<1> HIDE DEF R
<1>2. PICK m \in S : \A k \in S : ~(<<k, m>> \in R)
  BY <1>1, WFMin
<1>3. \A k \in S : m <= k
  <2> SUFFICES ASSUME NEW k \in S, ~(m <= k) PROVE <<k, m>> \in R
    BY <1>2
  <2>1. k \in Nat /\ m \in Nat /\ k < m
    OBVIOUS
  <2> QED
    BY <2>1 DEF R, OpToRel
<1> QED
  BY <1>3 DEF Min

\* A function that is defined at i by its value at a later place, up to the
\* end.
GoesOn(n, next) == next \in [1..n -> 1..n + 1] /\ \A i \in 1..n : next[i] > i
Recurs(f, n, S, base, next, op) ==
  /\ f \in [1..n + 1 -> S] /\ f[n + 1] = base
  /\ \A i \in 1..n : f[i] = op[i][f[next[i]]]

\* There is such a function: each value refers to a later place only.
LEMMA BackwardRecursion ==
  ASSUME NEW n \in Nat, NEW S, NEW base \in S, NEW next, GoesOn(n, next),
         NEW op \in [1..n -> [S -> S]]
  PROVE  \E f : Recurs(f, n, S, base, next, op)
<1>0. next \in [1..n -> 1..n + 1] /\ \A i \in 1..n : next[i] > i
  BY DEF GoesOn
<1> DEFINE Upto(k, f) == /\ f \in [n + 1 - k..n + 1 -> S] /\ f[n + 1] = base
                         /\ \A i \in n + 1 - k..n : f[i] = op[i][f[next[i]]]
           Has == {k \in Nat : k <= n => \E f : Upto(k, f)}
<1>1. 0 \in Has
  <2>1. Upto(0, [i \in n + 1..n + 1 |-> base])
    OBVIOUS
  <2> QED
    BY <2>1
<1>2. ASSUME NEW k \in Nat, k \in Has PROVE k + 1 \in Has
  <2> SUFFICES ASSUME k + 1 <= n PROVE \E f : Upto(k + 1, f)
    OBVIOUS
  <2>1. PICK f : Upto(k, f)
    BY <1>2
  <2> DEFINE j == n - k
             g == [i \in j..n + 1 |-> IF i = j THEN op[j][f[next[j]]] ELSE f[i]]
  <2>2. j \in 1..n /\ n + 1 - (k + 1) = j /\ n + 1 - k = j + 1
    OBVIOUS
  <2>3. next[j] \in j + 1..n + 1
    BY <1>0, <2>2
  <2>4. f[next[j]] \in S /\ op[j] \in [S -> S]
    BY <2>1, <2>2, <2>3
  <2>5. op[j][f[next[j]]] \in S
    BY <2>4
  <2>6. g \in [j..n + 1 -> S] /\ g[n + 1] = base
    BY <2>1, <2>2, <2>5
  <2>7. ASSUME NEW i \in j..n PROVE g[i] = op[i][g[next[i]]]
    <3>1. i \in 1..n /\ next[i] \in i + 1..n + 1
      BY <1>0, <2>2
    <3>2. g[next[i]] = f[next[i]]
      BY <2>2, <3>1
    <3>3. CASE i = j
      BY <2>2, <3>2, <3>3
    <3>4. CASE i # j
      <4>1. i \in n + 1 - k..n /\ g[i] = f[i]
        BY <2>2, <3>4
      <4> QED
        BY <2>1, <3>2, <4>1
    <3> QED
      BY <3>3, <3>4
  <2> HIDE DEF g
  <2>8. Upto(k + 1, g)
    BY <2>2, <2>6, <2>7
  <2> QED
    BY <2>8
<1> HIDE DEF Has
<1>3. n \in Has
  BY <1>1, <1>2, SetInduction
<1>4. PICK f : Upto(n, f)
  BY <1>3 DEF Has
<1>5. n + 1 - n = 1
  OBVIOUS
<1> QED
  BY <1>4, <1>5 DEF Recurs

\* What holds at the end, and at every place from which the next one has it,
\* holds everywhere.
LEMMA BackwardInduction ==
  ASSUME NEW n \in Nat, NEW next, GoesOn(n, next),
         NEW Q, n + 1 \in Q, \A i \in 1..n : next[i] \in Q => i \in Q
  PROVE  \A i \in 1..n + 1 : i \in Q
<1> DEFINE Has == {k \in Nat : \A i \in 1..n + 1 : n + 1 - k <= i => i \in Q}
<1>1. 0 \in Has
  OBVIOUS
<1>2. ASSUME NEW k \in Nat, k \in Has PROVE k + 1 \in Has
  <2> SUFFICES ASSUME NEW i \in 1..n + 1, n + 1 - (k + 1) <= i PROVE i \in Q
    OBVIOUS
  <2>1. CASE n + 1 - k <= i
    BY <1>2, <2>1
  <2>2. CASE ~(n + 1 - k <= i)
    <3>1. i \in 1..n /\ next[i] \in 1..n + 1 /\ n + 1 - k <= next[i]
      BY <2>2 DEF GoesOn
    <3>2. next[i] \in Q
      BY <1>2, <3>1
    <3> QED
      BY <3>1, <3>2
  <2> QED
    BY <2>1, <2>2
<1> HIDE DEF Has
<1>3. n + 1 \in Has
  BY <1>1, <1>2, SetInduction
<1> QED
  BY <1>3 DEF Has

-----------------------------------------------------------------------------
\* A run stays in the data, and is one.
LEMMA RunFacts ==
  ASSUME NEW data \in Seq(Nat), NEW i \in 1..Len(data)
  PROVE  /\ RunAt(data, i) \in 1..MaxRun /\ i + RunAt(data, i) <= Len(data) + 1
         /\ \A k \in i..i + RunAt(data, i) - 1 : data[k] = data[i]
<1> DEFINE S == {n \in 1..MaxRun :
                   i + n - 1 <= Len(data) /\ \A k \in i..i + n - 1 : data[k] = data[i]}
<1>1. MaxRun \in Nat /\ MaxRun >= 3 /\ Len(data) \in Nat
  BY StreamAssumption
<1>2. S \subseteq 0..MaxRun /\ 1 \in S
  BY <1>1
<1> HIDE DEF S
<1>3. Max(S) \in S
  BY <1>1, <1>2, MaxFacts
<1>4. RunAt(data, i) = Max(S)
  BY DEF RunAt, S
<1>5. RunAt(data, i) \in S
  BY <1>3, <1>4
<1> QED
  BY <1>1, <1>5 DEF S

\* A literal stays in the data, and is not empty.
LEMMA LiteralFacts ==
  ASSUME NEW data \in Seq(Nat), NEW i \in 1..Len(data)
  PROVE  /\ LiteralEnd(data, i) \in i + 1..i + MaxRun
         /\ LiteralEnd(data, i) <= Len(data) + 1
<1> DEFINE S == {j \in i + 1..i + MaxRun :
                   j = i + MaxRun \/ j > Len(data) \/ RunAt(data, j) >= 3}
           e == IF Len(data) + 1 <= i + MaxRun THEN Len(data) + 1 ELSE i + MaxRun
<1>1. MaxRun \in Nat /\ MaxRun >= 3 /\ Len(data) \in Nat
  BY StreamAssumption
<1>2. S \subseteq Nat /\ e \in S /\ e <= Len(data) + 1
  BY <1>1
<1> HIDE DEF S
<1>3. Min(S) \in S /\ Min(S) <= e
  BY <1>2, MinFacts
<1>4. LiteralEnd(data, i) = Min(S)
  BY DEF LiteralEnd, S
<1> HIDE DEF e
<1>5. Min(S) \in i + 1..i + MaxRun
  BY <1>3 DEF S
<1>6. e \in Int
  BY <1>1 DEF e
<1> QED
  BY <1>1, <1>2, <1>3, <1>4, <1>5, <1>6

\* Where the walk of the encoder goes from i.
After(data, i) == IF RunAt(data, i) >= 3 THEN i + RunAt(data, i) ELSE LiteralEnd(data, i)

\* The walk moves on, to the end at most.
LEMMA AfterFacts ==
  ASSUME NEW data \in Seq(Nat), NEW i \in 1..Len(data)
  PROVE  After(data, i) \in 1..Len(data) + 1 /\ After(data, i) > i
<1>1. MaxRun \in Nat /\ Len(data) \in Nat
  BY StreamAssumption
<1>2. /\ RunAt(data, i) \in 1..MaxRun /\ i + RunAt(data, i) <= Len(data) + 1
  BY RunFacts
<1>3. LiteralEnd(data, i) \in i + 1..i + MaxRun /\ LiteralEnd(data, i) <= Len(data) + 1
  BY LiteralFacts
<1> QED
  BY <1>1, <1>2, <1>3, SMTT(40) DEF After

\* What the encoder makes of the run or the literal at i, and how much it
\* counts for it.
PartSize(data, i) ==
  IF RunAt(data, i) >= 3 THEN 2 ELSE 1 + (LiteralEnd(data, i) - i)
Part(data, i) ==
  IF RunAt(data, i) >= 3 THEN <<RunControl(RunAt(data, i)), data[i]>>
  ELSE <<LiteralControl(LiteralEnd(data, i) - i)>> \o SubSeq(data, i, LiteralEnd(data, i) - 1)

\* What is sent for a part is as long as what is counted for it.
LEMMA PartFacts ==
  ASSUME NEW data \in Seq(Nat), NEW i \in 1..Len(data)
  PROVE  /\ Part(data, i) \in Seq(Nat) /\ PartSize(data, i) \in Nat
         /\ Len(Part(data, i)) = PartSize(data, i)
<1>1. MaxRun \in Nat /\ MaxRun >= 3 /\ Len(data) \in Nat
  BY StreamAssumption
<1>2. CASE RunAt(data, i) >= 3
  <2>1. RunAt(data, i) \in 1..MaxRun /\ data[i] \in Nat
    BY RunFacts
  <2>2. RunControl(RunAt(data, i)) \in Nat
    BY <1>1, <2>1 DEF RunControl
  <2> QED
    BY <1>2, <2>1, <2>2 DEF Part, PartSize
<1>3. CASE ~(RunAt(data, i) >= 3)
  <2> DEFINE e == LiteralEnd(data, i)
             literal == SubSeq(data, i, e - 1)
  <2>1. e \in i + 1..i + MaxRun /\ e <= Len(data) + 1
    BY LiteralFacts
  <2> HIDE DEF e
  <2>2. literal \in Seq(Nat) /\ Len(literal) = e - i
    BY <1>1, <2>1, SubSeqProperties
  <2>3. LiteralControl(e - i) \in Nat
    BY <1>1, <2>1 DEF LiteralControl
  <2> HIDE DEF literal
  <2>4. <<LiteralControl(e - i)>> \o literal \in Seq(Nat)
    BY <2>2, <2>3
  <2>5. Len(<<LiteralControl(e - i)>> \o literal) = 1 + (e - i)
    BY <2>2
  <2>6. /\ Part(data, i) = <<LiteralControl(e - i)>> \o literal
        /\ PartSize(data, i) = 1 + (e - i)
    BY <1>3 DEF Part, PartSize, literal, e
  <2>7. 1 + (e - i) \in Nat
    BY <1>1, <2>1
  <2> QED
    BY <2>4, <2>5, <2>6, <2>7
<1> QED
  BY <1>2, <1>3

\* The walk of rle_size().
IsSize(data, f) ==
  /\ f \in [1..Len(data) + 1 -> Nat] /\ f[Len(data) + 1] = 0
  /\ \A i \in 1..Len(data) : f[i] = PartSize(data, i) + f[After(data, i)]

\* rle_size() is the sum of the sizes of the parts.
LEMMA RleSizeFacts ==
  ASSUME NEW data \in Seq(Nat)
  PROVE  \E f : IsSize(data, f) /\ RleSize(data) = f[1]
<1> DEFINE n == Len(data)
           Body(f, i) == IF i > n THEN 0
                         ELSE IF RunAt(data, i) >= 3 THEN 2 + f[i + RunAt(data, i)]
                         ELSE 1 + (LiteralEnd(data, i) - i) + f[LiteralEnd(data, i)]
           Rec(f) == f = [i \in 1..n + 1 |-> Body(f, i)]
           part(i) == PartSize(data, i)
           next == [i \in 1..n |-> After(data, i)]
           op == [i \in 1..n |-> [x \in Nat |-> part(i) + x]]
<1>1. n \in Nat /\ next \in [1..n -> 1..n + 1] /\ \A i \in 1..n : next[i] > i
  BY AfterFacts
<1>2. \A i \in 1..n : part(i) \in Nat
  BY PartFacts
<1>3. 0 \in Nat
  OBVIOUS
<1> HIDE DEF part
<1>4. op \in [1..n -> [Nat -> Nat]]
  BY <1>2
<1> HIDE DEF n
<1>5. GoesOn(n, next)
  BY <1>1 DEF GoesOn
<1> HIDE DEF next, op
<1>6. PICK g : Recurs(g, n, Nat, 0, next, op)
  BY <1>1, <1>3, <1>4, <1>5, BackwardRecursion
<1> USE DEF next, op
<1>7. g \in [1..n + 1 -> Nat] /\ g[n + 1] = 0 /\ n \in Nat
  BY <1>1, <1>6 DEF Recurs
<1>8. ASSUME NEW i \in 1..n PROVE g[i] = part(i) + g[After(data, i)]
  <2>1. After(data, i) \in 1..n + 1 /\ g[After(data, i)] \in Nat
    BY <1>1, <1>7
  <2> QED
    BY <2>1, <1>6 DEF Recurs
<1>9. \A i \in 1..n + 1 : g[i] = Body(g, i)
  <2> SUFFICES ASSUME NEW i \in 1..n + 1 PROVE g[i] = Body(g, i)
    OBVIOUS
  <2>1. CASE i = n + 1
    BY <1>7, <2>1
  <2>2. CASE i \in 1..n
    <3>1. i \in Nat /\ ~(i > n) /\ g[i] = part(i) + g[After(data, i)]
      BY <1>7, <1>8, <2>2
    <3>2. CASE RunAt(data, i) >= 3
      BY <3>1, <3>2 DEF part, PartSize, After
    <3>3. CASE ~(RunAt(data, i) >= 3)
      BY <3>1, <3>3 DEF part, PartSize, After
    <3> QED
      BY <3>2, <3>3
  <2>3. i = n + 1 \/ i \in 1..n
    BY <1>7
  <2> HIDE DEF Body
  <2> QED
    BY <2>1, <2>2, <2>3
<1>10. Rec(g)
  BY <1>7, <1>9
<1> DEFINE h == CHOOSE f : Rec(f)
<1>11. Rec(h)
  BY <1>10
<1>12. RleSize(data) = h[1]
  BY DEF RleSize, n
<1> HIDE DEF h
<1>13. h[n + 1] = 0 /\ \A i \in 1..n : h[i] = Body(h, i)
  <2>1. ASSUME NEW i \in 1..n + 1 PROVE h[i] = Body(h, i)
    BY <1>11
  <2>2. n + 1 \in 1..n + 1 /\ \A i \in 1..n : i \in 1..n + 1
    BY <1>7
  <2>3. h[n + 1] = Body(h, n + 1)
    BY <2>1, <2>2
  <2>4. h[n + 1] = 0
    BY <1>7, <2>3
  <2> HIDE DEF Body
  <2> QED
    BY <2>1, <2>2, <2>4
<1>14. ASSUME NEW i \in 1..n PROVE h[i] = part(i) + h[After(data, i)]
  <2>1. i \in Nat /\ ~(i > n) /\ h[i] = Body(h, i)
    BY <1>7, <1>13
  <2>2. CASE RunAt(data, i) >= 3
    BY <2>1, <2>2 DEF part, PartSize, After
  <2>3. CASE ~(RunAt(data, i) >= 3)
    BY <2>1, <2>3 DEF part, PartSize, After
  <2> QED
    BY <2>2, <2>3
<1> DEFINE Q == {i \in 1..n + 1 : h[i] \in Nat}
<1> HIDE DEF Body
<1>15. n + 1 \in Q /\ \A i \in 1..n : next[i] \in Q => i \in Q
  <2>1. n + 1 \in Q
    BY <1>3, <1>7, <1>13
  <2>2. ASSUME NEW i \in 1..n, next[i] \in Q PROVE i \in Q
    <3>1. h[After(data, i)] \in Nat /\ part(i) \in Nat
      BY <1>2, <2>2
    <3>2. h[i] \in Nat
      BY <1>14, <3>1
    <3> QED
      BY <1>7, <3>2
  <2> QED
    BY <2>1, <2>2
<1> HIDE DEF next, Q
<1>16. \A i \in 1..n + 1 : i \in Q
  BY <1>1, <1>5, <1>15, BackwardInduction
<1>17. h \in [1..n + 1 -> Nat]
  BY <1>11, <1>16 DEF Q
<1>18. IsSize(data, h)
  BY <1>13, <1>14, <1>17 DEF IsSize, n, part
<1> QED
  BY <1>12, <1>18

\* The walk of send_rle().
IsSent(data, f) ==
  /\ f \in [1..Len(data) + 1 -> Seq(Nat)] /\ f[Len(data) + 1] = <<>>
  /\ \A i \in 1..Len(data) : f[i] = Part(data, i) \o f[After(data, i)]

\* send_rle() sends one part after the other.
LEMMA SendRleFacts ==
  ASSUME NEW data \in Seq(Nat)
  PROVE  \E f : IsSent(data, f) /\ SendRle(data) = f[1]
<1> DEFINE n == Len(data)
           Body(f, i) == IF i > n THEN <<>>
                         ELSE IF RunAt(data, i) >= 3
                         THEN <<RunControl(RunAt(data, i)), data[i]>> \o f[i + RunAt(data, i)]
                         ELSE LET end == LiteralEnd(data, i)
                              IN <<LiteralControl(end - i)>> \o SubSeq(data, i, end - 1)
                                   \o f[end]
           Rec(f) == f = [i \in 1..n + 1 |-> Body(f, i)]
           part(i) == Part(data, i)
           next == [i \in 1..n |-> After(data, i)]
           op == [i \in 1..n |-> [x \in Seq(Nat) |-> part(i) \o x]]
<1>1. n \in Nat /\ next \in [1..n -> 1..n + 1] /\ \A i \in 1..n : next[i] > i
  BY AfterFacts
<1>2. \A i \in 1..n : part(i) \in Seq(Nat)
  BY PartFacts
<1>3. <<>> \in Seq(Nat)
  OBVIOUS
<1> HIDE DEF part
<1>4. op \in [1..n -> [Seq(Nat) -> Seq(Nat)]]
  BY <1>2
<1> HIDE DEF n
<1>5. GoesOn(n, next)
  BY <1>1 DEF GoesOn
<1> HIDE DEF next, op
<1>6. PICK g : Recurs(g, n, Seq(Nat), <<>>, next, op)
  BY <1>1, <1>3, <1>4, <1>5, BackwardRecursion
<1> USE DEF next, op
<1>7. g \in [1..n + 1 -> Seq(Nat)] /\ g[n + 1] = <<>> /\ n \in Nat
  BY <1>1, <1>6 DEF Recurs
<1>8. ASSUME NEW i \in 1..n PROVE g[i] = part(i) \o g[After(data, i)]
  <2>1. After(data, i) \in 1..n + 1 /\ g[After(data, i)] \in Seq(Nat)
    BY <1>1, <1>7
  <2> QED
    BY <2>1, <1>6 DEF Recurs
<1>9. \A i \in 1..n + 1 : g[i] = Body(g, i)
  <2> SUFFICES ASSUME NEW i \in 1..n + 1 PROVE g[i] = Body(g, i)
    OBVIOUS
  <2>1. CASE i = n + 1
    BY <1>7, <2>1
  <2>2. CASE i \in 1..n
    <3>1. i \in Nat /\ ~(i > n) /\ g[i] = part(i) \o g[After(data, i)]
      BY <1>7, <1>8, <2>2
    <3>2. CASE RunAt(data, i) >= 3
      BY <3>1, <3>2 DEF part, Part, After
    <3>3. CASE ~(RunAt(data, i) >= 3)
      BY <3>1, <3>3 DEF part, Part, After
    <3> QED
      BY <3>2, <3>3
  <2>3. i = n + 1 \/ i \in 1..n
    BY <1>7
  <2> HIDE DEF Body
  <2> QED
    BY <2>1, <2>2, <2>3
<1>10. Rec(g)
  BY <1>7, <1>9
<1> DEFINE h == CHOOSE f : Rec(f)
<1>11. Rec(h)
  BY <1>10
<1>12. SendRle(data) = h[1]
  BY DEF SendRle, n
<1> HIDE DEF h
<1>13. h[n + 1] = <<>> /\ \A i \in 1..n : h[i] = Body(h, i)
  <2>1. ASSUME NEW i \in 1..n + 1 PROVE h[i] = Body(h, i)
    BY <1>11
  <2>2. n + 1 \in 1..n + 1 /\ \A i \in 1..n : i \in 1..n + 1
    BY <1>7
  <2>3. h[n + 1] = Body(h, n + 1)
    BY <2>1, <2>2
  <2>4. h[n + 1] = <<>>
    BY <1>7, <2>3
  <2> HIDE DEF Body
  <2> QED
    BY <2>1, <2>2, <2>4
<1>14. ASSUME NEW i \in 1..n PROVE h[i] = part(i) \o h[After(data, i)]
  <2>1. i \in Nat /\ ~(i > n) /\ h[i] = Body(h, i)
    <3>1. i \in Nat /\ ~(i > n)
      BY <1>7
    <3> HIDE DEF Body
    <3>2. h[i] = Body(h, i)
      BY <1>13
    <3> QED
      BY <3>1, <3>2
  <2> DEFINE long == RunAt(data, i) >= 3
  <2>2. CASE long
    BY <2>1, <2>2 DEF part, Part, After
  <2>3. CASE ~long
    BY <2>1, <2>3 DEF part, Part, After
  <2> HIDE DEF Body, long
  <2> QED
    BY <2>2, <2>3
<1> DEFINE Q == {i \in 1..n + 1 : h[i] \in Seq(Nat)}
<1> HIDE DEF Body
<1>15. n + 1 \in Q /\ \A i \in 1..n : next[i] \in Q => i \in Q
  <2>1. n + 1 \in Q
    BY <1>3, <1>7, <1>13
  <2>2. ASSUME NEW i \in 1..n, next[i] \in Q PROVE i \in Q
    <3>1. h[After(data, i)] \in Seq(Nat) /\ part(i) \in Seq(Nat)
      BY <1>2, <2>2
    <3>2. h[i] \in Seq(Nat)
      <4>1. part(i) \o h[After(data, i)] \in Seq(Nat)
        BY <3>1, ConcatProperties
      <4> QED
        BY <1>14, <4>1
    <3> QED
      BY <1>7, <3>2
  <2> QED
    BY <2>1, <2>2
<1> HIDE DEF next, Q
<1>16. \A i \in 1..n + 1 : i \in Q
  BY <1>1, <1>5, <1>15, BackwardInduction
<1>17. h \in [1..n + 1 -> Seq(Nat)]
  BY <1>11, <1>16 DEF Q
<1>18. IsSent(data, h)
  BY <1>13, <1>14, <1>17 DEF IsSent, n, part
<1> QED
  BY <1>12, <1>18

-----------------------------------------------------------------------------
\* Where the decoder goes from a control byte, and what it makes of the bytes
\* up to there.
CountAt(bytes, at) == (bytes[at] % MaxRun) + 1
NextAt(bytes, at) == IF bytes[at] >= MaxRun THEN at + 2 ELSE at + CountAt(bytes, at) + 1
PartAt(bytes, at) ==
  IF bytes[at] >= MaxRun THEN [k \in 1..CountAt(bytes, at) |-> bytes[at + 1]]
  ELSE SubSeq(bytes, at + 1, at + CountAt(bytes, at))

\* The walk of the decoder.
IsDecoded(bytes, f) ==
  /\ f[Len(bytes) + 1] = {<<>>}
  /\ \A at \in 1..Len(bytes) : NextAt(bytes, at) <= Len(bytes) + 1 =>
       f[at] = {PartAt(bytes, at) \o rest : rest \in f[NextAt(bytes, at)]}

\* Where the parts stay in the bytes, the decoder joins them.
LEMMA DecodeFacts ==
  ASSUME NEW bytes \in Seq(Nat)
  PROVE  \E f : IsDecoded(bytes, f) /\ Decode(bytes) = f[1]
<1> DEFINE n == Len(bytes)
           Step(f, at) == IF NextAt(bytes, at) > n + 1 THEN {}
                          ELSE {PartAt(bytes, at) \o rest : rest \in f[NextAt(bytes, at)]}
           Body(f, at) == IF at > n THEN {<<>>} ELSE Step(f, at)
           Rec(f) == f = [at \in 1..n + 1 |-> Body(f, at)]
           next == [at \in 1..n |-> IF NextAt(bytes, at) > n + 1 THEN n + 1 ELSE NextAt(bytes, at)]
           S == {d : d \in SUBSET Seq(Nat)}
           image(at, x) == IF NextAt(bytes, at) > n + 1 THEN {}
                           ELSE {PartAt(bytes, at) \o rest : rest \in x}
           op == [at \in 1..n |-> [x \in S |-> image(at, x)]]
<1>1. n \in Nat
  OBVIOUS
<1>2. ASSUME NEW at \in 1..n
      PROVE  /\ CountAt(bytes, at) \in 1..MaxRun
             /\ NextAt(bytes, at) \in Nat /\ NextAt(bytes, at) > at
  <2>1. MaxRun \in Nat \ {0} /\ bytes[at] \in Nat
    BY StreamAssumption
  <2>2. CountAt(bytes, at) \in 1..MaxRun
    BY <2>1 DEF CountAt
  <2> QED
    BY <2>1, <2>2 DEF NextAt
<1>3. ASSUME NEW at \in 1..n, NextAt(bytes, at) <= n + 1
      PROVE  PartAt(bytes, at) \in Seq(Nat)
  <2>1. MaxRun \in Nat \ {0} /\ bytes[at] \in Nat /\ CountAt(bytes, at) \in 1..MaxRun
    BY <1>2, StreamAssumption
  <2>2. CASE bytes[at] >= MaxRun
    <3>1. bytes[at + 1] \in Nat
      BY <1>3, <2>2 DEF NextAt
    <3> QED
      BY <2>1, <2>2, <3>1 DEF PartAt
  <2>3. CASE ~(bytes[at] >= MaxRun)
    <3>1. at + CountAt(bytes, at) <= n
      BY <1>3, <2>1, <2>3 DEF NextAt
    <3>2. SubSeq(bytes, at + 1, at + CountAt(bytes, at)) \in Seq(Nat)
      BY <2>1, <3>1, SubSeqProperties, SMTT(40)
    <3> QED
      BY <2>3, <3>2 DEF PartAt
  <2> QED
    BY <2>2, <2>3
<1>4. \A x : x \in S <=> x \subseteq Seq(Nat)
  OBVIOUS
<1> HIDE DEF S
<1>5. op \in [1..n -> [S -> S]]
  <2>1. ASSUME NEW at \in 1..n, NEW x \in S PROVE image(at, x) \in S
    <3>1. CASE NextAt(bytes, at) > n + 1
      BY <1>4, <3>1
    <3>2. CASE ~(NextAt(bytes, at) > n + 1)
      <4>1. PartAt(bytes, at) \in Seq(Nat) /\ x \subseteq Seq(Nat)
        BY <1>1, <1>2, <1>3, <1>4, <3>2
      <4>2. \A rest \in x : PartAt(bytes, at) \o rest \in Seq(Nat)
        BY <4>1, ConcatProperties
      <4>3. image(at, x) = {PartAt(bytes, at) \o rest : rest \in x}
        BY <3>2
      <4>4. image(at, x) \subseteq Seq(Nat)
        BY <4>2, <4>3
      <4> QED
        BY <1>4, <4>4
    <3> QED
      BY <3>1, <3>2
  <2> HIDE DEF image
  <2> QED
    BY <2>1
<1>6. {<<>>} \in S
  <2>1. <<>> \in Seq(Nat)
    OBVIOUS
  <2>2. {<<>>} \subseteq Seq(Nat)
    BY <2>1
  <2> HIDE DEF S
  <2> QED
    BY <1>4, <2>2
<1>7. GoesOn(n, next)
  BY <1>1, <1>2 DEF GoesOn
<1> HIDE DEF n, next, op
<1>8. PICK g : Recurs(g, n, S, {<<>>}, next, op)
  BY <1>1, <1>5, <1>6, <1>7, BackwardRecursion
<1>9. g \in [1..n + 1 -> S] /\ g[n + 1] = {<<>>}
  BY <1>8 DEF Recurs
<1>10. ASSUME NEW at \in 1..n PROVE g[at] = Step(g, at)
  <2>1. next[at] \in 1..n + 1 /\ g[next[at]] \in S /\ g[at] = op[at][g[next[at]]]
    BY <1>1, <1>7, <1>8, <1>9 DEF GoesOn, Recurs
  <2>2. CASE NextAt(bytes, at) > n + 1
    BY <2>1, <2>2 DEF op
  <2>3. CASE ~(NextAt(bytes, at) > n + 1)
    BY <2>1, <2>3 DEF op, next
  <2> QED
    BY <2>2, <2>3
<1> HIDE DEF Step
<1>11. \A at \in 1..n + 1 : g[at] = Body(g, at)
  BY <1>1, <1>9, <1>10
<1>12. Rec(g)
  BY <1>9, <1>11
<1> DEFINE h == CHOOSE f : Rec(f)
<1>13. Rec(h)
  BY <1>12
<1>14. Decode(bytes) = h[1]
  BY DEF Decode, n, Step, NextAt, PartAt, CountAt
<1> HIDE DEF h
<1>15. \A at \in 1..n + 1 : h[at] = Body(h, at)
  BY <1>13
<1>16. h[n + 1] = {<<>>} /\ \A at \in 1..n : h[at] = Step(h, at)
  BY <1>1, <1>15
<1>17. \A at \in 1..n : NextAt(bytes, at) <= n + 1 => ~(NextAt(bytes, at) > n + 1)
  BY <1>1, <1>2
<1>18. IsDecoded(bytes, h)
  BY <1>16, <1>17 DEF IsDecoded, Step, n
<1> QED
  BY <1>14, <1>18

-----------------------------------------------------------------------------
\* The control byte: its low bits, with and without the top one.
LEMMA ControlFacts ==
  ASSUME NEW c \in Nat, c < MaxRun
  PROVE  c % MaxRun = c /\ (MaxRun + c) % MaxRun = c
<1>1. MaxRun \in Nat \ {0}
  BY StreamAssumption
<1>2. ASSUME NEW n \in Nat, NEW k \in {0, 1}, n = MaxRun * k + c PROVE n % MaxRun = c
  <2> DEFINE p == n \div MaxRun
             s == n % MaxRun
  <2>1. p \in Nat /\ s \in 0..MaxRun - 1 /\ n = MaxRun * p + s
    BY <1>1
  <2> HIDE DEF p, s
  <2>2. ~(p < k)
    <3> SUFFICES ASSUME p < k PROVE FALSE
      OBVIOUS
    <3>1. p = 0 /\ k = 1
      BY <2>1
    <3> QED
      BY <1>1, <1>2, <2>1, <3>1
  <2>3. ~(k < p)
    <3> SUFFICES ASSUME k < p PROVE FALSE
      OBVIOUS
    <3>1. PICK j \in Nat : p = k + 1 + j
      BY <2>1
    <3>2. MaxRun * p = MaxRun * k + MaxRun + MaxRun * j /\ MaxRun * j \in Nat
      BY <1>1, <3>1
    <3>3. MaxRun * k \in Nat
      BY <1>1
    <3> QED
      BY <1>1, <1>2, <2>1, <3>2, <3>3
  <2>4. p = k
    BY <2>1, <2>2, <2>3
  <2>5. s = c
    BY <1>1, <1>2, <2>1, <2>4
  <2> QED
    BY <2>5 DEF s
<1>3. c = MaxRun * 0 + c /\ MaxRun + c = MaxRun * 1 + c /\ MaxRun + c \in Nat
  BY <1>1
<1> QED
  BY <1>2, <1>3

\* Two sequences have the same elements from at on, the one to its end.
Fits(bytes, at, s) ==
  /\ at + Len(s) <= Len(bytes) + 1
  /\ \A k \in 1..Len(s) : bytes[at + k - 1] = s[k]

\* A run of three bytes or more, and a literal, are decoded to what they were,
\* wherever they stand.
LEMMA PartDecodes ==
  ASSUME NEW data \in Seq(Nat), NEW i \in 1..Len(data),
         NEW bytes \in Seq(Nat), NEW at \in Nat \ {0},
         Fits(bytes, at, Part(data, i))
  PROVE  /\ at \in 1..Len(bytes)
         /\ NextAt(bytes, at) = at + Len(Part(data, i))
         /\ PartAt(bytes, at) = SubSeq(data, i, After(data, i) - 1)
<1> DEFINE part == Part(data, i)
<1>1. MaxRun \in Nat /\ MaxRun >= 3 /\ Len(data) \in Nat /\ Len(bytes) \in Nat
  BY StreamAssumption
<1>2. part \in Seq(Nat) /\ Len(part) \in Nat
  BY PartFacts
<1>3. at + Len(part) <= Len(bytes) + 1
  BY DEF Fits
<1>4. \A k \in 1..Len(part) : bytes[at + k - 1] = part[k]
  BY DEF Fits
<1> HIDE DEF part
<1>5. CASE RunAt(data, i) >= 3
  <2> DEFINE r == RunAt(data, i)
  <2>1. r \in 1..MaxRun /\ i + r <= Len(data) + 1 /\ \A k \in i..i + r - 1 : data[k] = data[i]
    BY RunFacts
  <2>2. part = <<RunControl(r), data[i]>>
    BY <1>5 DEF Part, part
  <2>12. After(data, i) = i + r
    BY <1>5 DEF After
  <2> HIDE DEF r
  <2>3. Len(part) = 2 /\ part[1] = RunControl(r) /\ part[2] = data[i]
    BY <2>2
  <2>4. bytes[at] = MaxRun + (r - 1) /\ bytes[at + 1] = data[i]
    <3>1. bytes[at + 1 - 1] = part[1] /\ bytes[at + 2 - 1] = part[2]
      BY <1>4, <2>3
    <3>2. at + 1 - 1 = at /\ at + 2 - 1 = at + 1
      OBVIOUS
    <3> QED
      BY <1>1, <2>1, <2>3, <3>1, <3>2 DEF RunControl
  <2>5. (MaxRun + (r - 1)) % MaxRun = r - 1
    <3>1. r - 1 \in Nat /\ r - 1 < MaxRun
      BY <1>1, <2>1
    <3> QED
      BY <3>1, ControlFacts
  <2>6. CountAt(bytes, at) = r /\ bytes[at] >= MaxRun
    BY <1>1, <2>1, <2>4, <2>5 DEF CountAt
  <2>7. PartAt(bytes, at) = [k \in 1..r |-> data[i]]
    BY <2>4, <2>6 DEF PartAt
  <2>8. SubSeq(data, i, i + r - 1) = [k \in 1..r |-> data[i]]
    <3> DEFINE s == SubSeq(data, i, i + r - 1)
               t == [k \in 1..r |-> data[i]]
    <3>1. \A k \in i..i + r - 1 : data[k] \in Nat
      BY <2>1
    <3>2. i \in Int /\ i + r - 1 \in Int /\ i <= i + r - 1 /\ (i + r - 1) - i + 1 = r
      BY <2>1
    <3>3. s \in Seq(Nat) /\ Len(s) = r /\ \A k \in 1..r : s[k] = data[i + k - 1]
      BY <3>1, <3>2, SubSeqProperties, SMTT(40)
    <3>4. t \in Seq(Nat) /\ Len(t) = r /\ \A k \in 1..r : t[k] = data[i]
      BY <2>1, <3>1
    <3> HIDE DEF s, t
    <3>5. ASSUME NEW k \in 1..r PROVE s[k] = t[k]
      <4>1. i + k - 1 \in i..i + r - 1
        BY <2>1
      <4>2. data[i + k - 1] = data[i]
        BY <2>1, <4>1
      <4> QED
        BY <3>3, <3>4, <4>2
    <3>6. s = t
      BY <3>3, <3>4, <3>5, SeqEqual
    <3> QED
      BY <3>6 DEF s, t
  <2>9. NextAt(bytes, at) = at + 2
    BY <2>6 DEF NextAt
  <2>10. at \in 1..Len(bytes)
    BY <1>1, <1>3, <2>3
  <2>11. PartAt(bytes, at) = SubSeq(data, i, After(data, i) - 1)
    <3>1. After(data, i) - 1 = i + r - 1
      BY <2>1, <2>12
    <3> HIDE DEF r
    <3> QED
      BY <2>7, <2>8, <3>1, Zenon
  <2> QED
    BY <2>3, <2>9, <2>10, <2>11 DEF part
<1>6. CASE ~(RunAt(data, i) >= 3)
  <2> DEFINE e == LiteralEnd(data, i)
             literal == SubSeq(data, i, e - 1)
             c == LiteralControl(e - i)
  <2>1. e \in i + 1..i + MaxRun /\ e <= Len(data) + 1
    BY LiteralFacts
  <2>2. After(data, i) = e /\ part = <<c>> \o literal
    BY <1>6 DEF After, Part, part
  <2> HIDE DEF e
  <2>3. literal \in Seq(Nat) /\ Len(literal) = e - i
    <3>1. \A k \in i..e - 1 : k \in 1..Len(data)
      BY <1>1, <2>1
    <3>2. \A k \in i..e - 1 : data[k] \in Nat
      BY <3>1
    <3>3. i \in Int /\ e - 1 \in Int /\ i <= e - 1 /\ (e - 1) - i + 1 = e - i
      BY <2>1
    <3>4. literal \in Seq(Nat) /\ Len(literal) = (e - 1) - i + 1
      BY <3>2, <3>3, SubSeqProperties
    <3> QED
      BY <3>3, <3>4
  <2>4. c = e - i - 1 /\ c \in Nat /\ c < MaxRun /\ e - i \in Nat /\ e - i >= 1
        /\ e \in Nat /\ i \in Nat
    BY <1>1, <2>1 DEF LiteralControl
  <2>5. PartAt(bytes, at) = literal => PartAt(bytes, at) = SubSeq(data, i, After(data, i) - 1)
    BY <2>2
  <2> HIDE DEF literal, c
  <2>6. Len(part) = 1 + (e - i) /\ part[1] = c /\ \A k \in 1..e - i : part[k + 1] = literal[k]
    <3>1. <<c>> \in Seq(Nat) /\ Len(<<c>>) = 1 /\ <<c>>[1] = c
      BY <2>4
    <3>2. /\ Len(part) = Len(<<c>>) + Len(literal)
          /\ \A k \in 1..Len(<<c>>) + Len(literal) :
               part[k] = IF k <= Len(<<c>>) THEN <<c>>[k] ELSE literal[k - Len(<<c>>)]
      BY <2>2, <2>3, <3>1, ConcatProperties
    <3>3. Len(part) = 1 + (e - i) /\ \A k \in 1..1 + (e - i) :
               part[k] = IF k <= 1 THEN <<c>>[k] ELSE literal[k - 1]
      BY <2>3, <3>1, <3>2
    <3>4. part[1] = c
      BY <2>4, <3>1, <3>3
    <3>5. ASSUME NEW k \in 1..e - i PROVE part[k + 1] = literal[k]
      <4>1. k + 1 \in 1..1 + (e - i) /\ ~(k + 1 <= 1) /\ k + 1 - 1 = k
        BY <2>4
      <4> QED
        BY <3>3, <4>1
    <3> QED
      BY <3>3, <3>4, <3>5
  <2>7. bytes[at] = c
    <3>1. 1 \in 1..Len(part) /\ at + 1 - 1 = at
      BY <2>4, <2>6
    <3>2. bytes[at + 1 - 1] = part[1]
      BY <1>4, <3>1
    <3> QED
      BY <2>6, <3>1, <3>2
  <2>8. c % MaxRun = c
    BY <2>4, ControlFacts
  <2>9. CountAt(bytes, at) = e - i
    BY <2>4, <2>7, <2>8 DEF CountAt
  <2>10. ~(bytes[at] >= MaxRun)
    BY <1>1, <2>4, <2>7
  <2>11. PartAt(bytes, at) = SubSeq(bytes, at + 1, at + (e - i))
    BY <2>9, <2>10 DEF PartAt
  <2>12. SubSeq(bytes, at + 1, at + (e - i)) = literal
    <3> DEFINE s == SubSeq(bytes, at + 1, at + (e - i))
    <3>1. at + (e - i) <= Len(bytes)
      BY <1>1, <1>3, <2>4, <2>6
    <3>2. \A k \in at + 1..at + (e - i) : bytes[k] \in Nat
      <4>1. \A k \in at + 1..at + (e - i) : k \in 1..Len(bytes)
        BY <1>1, <2>4, <3>1
      <4> QED
        BY <4>1
    <3>3. at + 1 \in Int /\ at + (e - i) \in Int /\ at + 1 <= at + (e - i)
          /\ (at + (e - i)) - (at + 1) + 1 = e - i
      BY <2>4
    <3>4. s \in Seq(Nat) /\ Len(s) = e - i
          /\ \A k \in 1..e - i : s[k] = bytes[at + 1 + k - 1]
      BY <3>2, <3>3, SubSeqProperties
    <3> HIDE DEF s
    <3>5. ASSUME NEW k \in 1..e - i PROVE s[k] = literal[k]
      <4>1. k + 1 \in 1..Len(part) /\ at + (k + 1) - 1 = at + 1 + k - 1
        BY <2>4, <2>6
      <4>2. bytes[at + (k + 1) - 1] = part[k + 1]
        BY <1>4, <4>1
      <4> QED
        BY <2>6, <3>4, <4>1, <4>2
    <3>6. s = literal
      BY <2>3, <3>4, <3>5, SeqEqual
    <3> QED
      BY <3>6 DEF s
  <2>13. NextAt(bytes, at) = at + Len(part)
    <3>1. at + (e - i) + 1 = at + (1 + (e - i))
      BY <2>4
    <3> QED
      BY <2>6, <2>9, <2>10, <3>1 DEF NextAt
  <2>14. at \in 1..Len(bytes)
    BY <1>1, <1>3, <2>4, <2>6
  <2> QED
    BY <2>5, <2>11, <2>12, <2>13, <2>14 DEF part
<1> QED
  BY <1>5, <1>6

\* The same, and both end there.
EndsWith(bytes, at, s) == Fits(bytes, at, s) /\ at + Len(s) = Len(bytes) + 1

\* Two sequences at the end of another follow each other there.
LEMMA EndsWithSum ==
  ASSUME NEW bytes \in Seq(Nat), NEW at \in Nat \ {0}, NEW s \in Seq(Nat), NEW t \in Seq(Nat),
         EndsWith(bytes, at, s \o t)
  PROVE  Fits(bytes, at, s) /\ EndsWith(bytes, at + Len(s), t)
<1>1. Len(s) \in Nat /\ Len(t) \in Nat /\ Len(bytes) \in Nat
  OBVIOUS
<1>2. Len(s \o t) = Len(s) + Len(t)
  BY ConcatProperties
<1>3. \A k \in 1..Len(s) + Len(t) :
        (s \o t)[k] = IF k <= Len(s) THEN s[k] ELSE t[k - Len(s)]
  BY ConcatProperties
<1>4. at + (Len(s) + Len(t)) = Len(bytes) + 1
      /\ \A k \in 1..Len(s) + Len(t) : bytes[at + k - 1] = (s \o t)[k]
  BY <1>2 DEF EndsWith, Fits
<1>5. ASSUME NEW k \in 1..Len(s) PROVE bytes[at + k - 1] = s[k]
  <2>1. k \in 1..Len(s) + Len(t) /\ k <= Len(s)
    BY <1>1
  <2> QED
    BY <1>3, <1>4, <2>1
<1>6. ASSUME NEW k \in 1..Len(t) PROVE bytes[at + Len(s) + k - 1] = t[k]
  <2>1. /\ Len(s) + k \in 1..Len(s) + Len(t) /\ ~(Len(s) + k <= Len(s))
        /\ Len(s) + k - Len(s) = k /\ at + (Len(s) + k) - 1 = at + Len(s) + k - 1
    BY <1>1
  <2>2. bytes[at + (Len(s) + k) - 1] = (s \o t)[Len(s) + k]
    BY <1>4, <2>1
  <2>3. (s \o t)[Len(s) + k] = t[Len(s) + k - Len(s)]
    <3>1. PICK m \in 1..Len(s) + Len(t) : m = Len(s) + k /\ ~(m <= Len(s))
      BY <2>1
    <3>2. (s \o t)[m] = t[m - Len(s)]
      BY <1>3, <3>1, Zenon
    <3> QED
      BY <3>1, <3>2
  <2> QED
    BY <2>1, <2>2, <2>3
<1>7. at + Len(s) <= Len(bytes) + 1 /\ at + Len(s) + Len(t) = Len(bytes) + 1
  BY <1>1, <1>4
<1> QED
  BY <1>5, <1>6, <1>7 DEF EndsWith, Fits

\* The two walks of the encoder count alike.
LEMMA WalksAgree ==
  ASSUME NEW data \in Seq(Nat), NEW f, IsSize(data, f), NEW g, IsSent(data, g)
  PROVE  Len(g[1]) = f[1]
<1> DEFINE n == Len(data)
           next == [i \in 1..n |-> After(data, i)]
           Q == {i \in 1..n + 1 : Len(g[i]) = f[i]}
<1>1. n \in Nat
  OBVIOUS
<1>2. GoesOn(n, next)
  BY AfterFacts DEF GoesOn
<1>3. n + 1 \in Q
  <2>1. f[n + 1] = 0 /\ g[n + 1] = <<>> /\ n + 1 \in 1..n + 1
    BY DEF IsSize, IsSent
  <2> QED
    BY <2>1
<1>4. ASSUME NEW i \in 1..n, next[i] \in Q PROVE i \in Q
  <2>1. After(data, i) \in 1..n + 1 /\ Len(g[After(data, i)]) = f[After(data, i)]
    BY <1>4
  <2>2. f[i] = PartSize(data, i) + f[After(data, i)] /\ g[i] = Part(data, i) \o g[After(data, i)]
        /\ g[After(data, i)] \in Seq(Nat)
    BY <2>1 DEF IsSize, IsSent
  <2>3. Part(data, i) \in Seq(Nat) /\ Len(Part(data, i)) = PartSize(data, i)
    BY PartFacts
  <2>4. Len(g[i]) = Len(Part(data, i)) + Len(g[After(data, i)])
    <3> DEFINE s == Part(data, i)
               rest == g[After(data, i)]
    <3>1. s \in Seq(Nat) /\ rest \in Seq(Nat) /\ g[i] = s \o rest
      BY <2>2, <2>3
    <3> HIDE DEF s, rest
    <3>2. Len(g[i]) = Len(s) + Len(rest)
      BY <3>1, ConcatProperties
    <3> QED
      BY <3>2 DEF s, rest
  <2>5. Len(g[i]) = f[i]
    BY <2>1, <2>2, <2>3, <2>4
  <2>6. i \in 1..n + 1
    BY <1>1
  <2> QED
    BY <2>5, <2>6
<1> HIDE DEF n, next, Q
<1>5. \A i \in 1..n + 1 : i \in Q
  BY <1>1, <1>2, <1>3, <1>4, BackwardInduction
<1>6. 1 \in 1..n + 1
  BY <1>1
<1> QED
  BY <1>5, <1>6 DEF Q

\* The decoder undoes the encoder, from every control byte on.
LEMMA DecoderUndoes ==
  ASSUME NEW data \in Seq(Nat), NEW g, IsSent(data, g),
         NEW bytes \in Seq(Nat), bytes = g[1], NEW h, IsDecoded(bytes, h)
  PROVE  h[1] = {data}
<1> DEFINE n == Len(data)
           next == [i \in 1..n |-> After(data, i)]
           tail(i) == SubSeq(data, i, n)
           Q == {i \in 1..n + 1 : \A at \in Nat \ {0} :
                   EndsWith(bytes, at, g[i]) => h[at] = {tail(i)}}
<1>1. n \in Nat /\ Len(bytes) \in Nat
  OBVIOUS
<1>2. GoesOn(n, next)
  BY AfterFacts DEF GoesOn
<1>3. n + 1 \in Q
  <2>1. g[n + 1] = <<>> /\ n + 1 \in 1..n + 1
    BY DEF IsSent
  <2>2. tail(n + 1) = <<>>
    BY <1>1, SubSeqEmpty
  <2> SUFFICES ASSUME NEW at \in Nat \ {0}, EndsWith(bytes, at, g[n + 1])
               PROVE  h[at] = {tail(n + 1)}
    BY <2>1
  <2>3. at = Len(bytes) + 1
    BY <1>1, <2>1 DEF EndsWith, Fits
  <2> HIDE DEF tail
  <2> QED
    BY <2>2, <2>3 DEF IsDecoded
<1>4. ASSUME NEW i \in 1..n, next[i] \in Q PROVE i \in Q
  <2> DEFINE j == After(data, i)
             part == Part(data, i)
             rest == g[j]
  <2>1. j \in 1..n + 1 /\ j > i
    BY AfterFacts
  <2>2. g[i] = part \o rest /\ rest \in Seq(Nat)
    BY <2>1 DEF IsSent
  <2>3. part \in Seq(Nat)
    BY PartFacts
  <2>4. j \in Q
    BY <1>4
  <2> SUFFICES ASSUME NEW at \in Nat \ {0}, EndsWith(bytes, at, g[i])
               PROVE  h[at] = {tail(i)}
    <3>1. i \in 1..n + 1
      BY <1>1
    <3> QED
      BY <3>1
  <2> HIDE DEF j, part, rest, tail
  <2>5. Fits(bytes, at, part) /\ EndsWith(bytes, at + Len(part), rest)
    <3>1. EndsWith(bytes, at, part \o rest)
      BY <2>2
    <3> QED
      BY <2>2, <2>3, <3>1, EndsWithSum
  <2>6. /\ at \in 1..Len(bytes) /\ NextAt(bytes, at) = at + Len(part)
        /\ PartAt(bytes, at) = SubSeq(data, i, j - 1)
    <3>1. Fits(bytes, at, Part(data, i))
      BY <2>5 DEF part
    <3>2. /\ at \in 1..Len(bytes)
          /\ NextAt(bytes, at) = at + Len(Part(data, i))
          /\ PartAt(bytes, at) = SubSeq(data, i, After(data, i) - 1)
      BY <3>1, PartDecodes
    <3> QED
      BY <3>2 DEF part, j
  <2>7. h[at + Len(part)] = {tail(j)}
    <3>1. at + Len(part) \in Nat \ {0}
      BY <2>3
    <3> QED
      BY <2>4, <2>5, <3>1 DEF rest
  <2>8. h[at] = {PartAt(bytes, at) \o r : r \in h[NextAt(bytes, at)]}
    <3>1. NextAt(bytes, at) <= Len(bytes) + 1
      BY <2>5, <2>6 DEF Fits
    <3>2. \A k \in 1..Len(bytes) : NextAt(bytes, k) <= Len(bytes) + 1 =>
            h[k] = {PartAt(bytes, k) \o r : r \in h[NextAt(bytes, k)]}
      BY DEF IsDecoded
    <3> QED
      BY <2>6, <3>1, <3>2
  <2>9. h[at] = {SubSeq(data, i, j - 1) \o tail(j)}
    <3> DEFINE first == SubSeq(data, i, j - 1)
           image(p, x) == {p \o r : r \in x}
    <3>1. NextAt(bytes, at) = at + Len(part) /\ PartAt(bytes, at) = first
      BY <2>6
    <3>2. h[at] = image(PartAt(bytes, at), h[NextAt(bytes, at)])
      BY <2>8
    <3> HIDE DEF first, image
    <3>3. h[at] = image(first, {tail(j)})
      BY <2>7, <3>1, <3>2
    <3>4. h[at] = {first \o tail(j)}
      BY <3>3 DEF image
    <3> QED
      BY <3>4 DEF first
  <2>10. SubSeq(data, i, j - 1) \o tail(j) = tail(i)
    <3>1. i \in 1..n + 1 /\ j - 1 \in i - 1..n /\ (j - 1) + 1 = j
          /\ n \in j - 1..n
      BY <1>1, <2>1
    <3>2. SubSeq(data, i, j - 1) \o SubSeq(data, (j - 1) + 1, n) = SubSeq(data, i, n)
      BY <3>1, ConcatAdjacentSubSeq
    <3> QED
      BY <3>1, <3>2 DEF tail
  <2> QED
    BY <2>9, <2>10
<1> HIDE DEF next, Q
<1>5. \A i \in 1..n + 1 : i \in Q
  <2> HIDE DEF n
  <2> QED
    BY <1>1, <1>2, <1>3, <1>4, BackwardInduction
<1>6. h[1] = {tail(1)}
  <2>1. EndsWith(bytes, 1, g[1])
    BY <1>1 DEF EndsWith, Fits
  <2>2. 1 \in Q
    BY <1>1, <1>5
  <2> HIDE DEF tail
  <2> QED
    BY <2>1, <2>2 DEF Q
<1>7. tail(1) = data
  BY SubSeqFull
<1> QED
  BY <1>6, <1>7

\* What the encoder makes of a picture of any size is as long as it has
\* announced, and the viewer makes the picture of it again.
THEOREM EncodingIsLossless ==
  ASSUME NEW data \in Seq(Nat)
  PROVE  Len(SendRle(data)) = RleSize(data) /\ Decode(SendRle(data)) = {data}
<1>1. PICK f : IsSize(data, f) /\ RleSize(data) = f[1]
  BY RleSizeFacts
<1>2. PICK g : IsSent(data, g) /\ SendRle(data) = g[1]
  BY SendRleFacts
<1>3. SendRle(data) \in Seq(Nat)
  BY <1>2 DEF IsSent
<1>4. PICK h : IsDecoded(SendRle(data), h) /\ Decode(SendRle(data)) = h[1]
  BY <1>3, DecodeFacts
<1>5. Len(g[1]) = f[1]
  BY <1>1, <1>2, WalksAgree
<1>6. h[1] = {data}
  BY <1>2, <1>3, <1>4, DecoderUndoes
<1> QED
  BY <1>1, <1>2, <1>4, <1>5, <1>6

\* The same, for the pictures of DOOM.
LEMMA LosslessAlways == Lossless
<1> SUFFICES ASSUME NEW data \in Bitmap
             PROVE  Len(Encoded[data]) = SizeOf[data] /\ Decode(Encoded[data]) = {data}
  BY DEF Lossless
<1>1. Pixels \in Nat
  BY StreamAssumption
<1>2. data \in Seq(Nat)
  BY <1>1 DEF Bitmap
<1>3. Encoded[data] = SendRle(data) /\ SizeOf[data] = RleSize(data)
  BY DEF Encoded, SizeOf
<1> QED
  BY <1>2, <1>3, EncodingIsLossless

\* Every picture of every size: whenever a packet is sent, rle_size() has counted what
\* send_rle() sends, and decode_rle() makes of it what was encoded.
THEOREM PicturesAreLossless == Spec => []RleIsLossless
<1>1. RleIsLossless
  BY LosslessAlways DEF RleIsLossless
<1> QED
  BY <1>1, PTL
-----------------------------------------------------------------------------
(***************************************************************************)
(* The script of the uploader.                                             *)
(***************************************************************************)
LineName == {"READY", "HEADER_OK", "NEXT", "OK", "ERR", "GO", "INFO", "CAPS",
             "WAD_READY", "WAD_HEADER_OK", "WAD_NEXT", "WAD_OK", "WAD_INFO"}
HostLine == [of : LineName, n : Nat]
ScriptStep ==
  [do : {"send"}, token : Token] \cup [do : {"wait"}, line : HostLine, prefix : BOOLEAN]

\* An upload of the script: of the application or of the WAD.
Kind == {"app", "wad"}
Named(k, inApp, inWad) == IF k = "app" THEN inApp ELSE inWad
File(j, k) == Named(k, j.image, j.wad)
Total(j, k) == Len(File(j, k))
BlockOf(k, fast) == IF k = "wad" /\ fast THEN FastBlock ELSE Block
CommandOf(j, k, fast) ==
  IF k = "app" THEN IF j.run /\ j.wad = Absent THEN UploadRun ELSE Upload
  ELSE IF fast THEN FastWad ELSE WadUpload
MagicOf(k) == Named(k, AppMagic, WadMagic)
Ready(k) == Line(Named(k, "READY", "WAD_READY"))
Headed(k) == Line(Named(k, "HEADER_OK", "WAD_HEADER_OK"))
Acked(j, k) == [of |-> Named(k, "NEXT", "WAD_NEXT"), n |-> Total(j, k)]
Okay(k) == Line(Named(k, "OK", "WAD_OK"))

\* The steps of an upload.
Pay(j, k, fast) == Payload(Named(k, "NEXT", "WAD_NEXT"), File(j, k), BlockOf(k, fast))
Uploading(j, k, fast) ==
  Send(<<CommandOf(j, k, fast)>>) \o Wait(Ready(k)) \o Send(<<MagicOf(k), Total(j, k), Crc(File(j, k))>>)
    \o Wait(Headed(k)) \o Pay(j, k, fast) \o Wait(Okay(k))

\* How many steps the payload has, and how many of its tokens are sent before
\* step i.
PayloadSteps(j, k, fast) ==
  Total(j, k) + (Total(j, k) + BlockOf(k, fast) - 1) \div BlockOf(k, fast)
SentBefore(b, i) == i - 1 - (i - 1) \div (b + 1)
LastStep(j, k, fast) == 7 + PayloadSteps(j, k, fast)

\* The tokens of the header and of the payload have places: -2, -1 and 0, and
\* the payload from 1.  What is sent for each, and how far the script has come
\* before step r of an upload.
Stream(j, k, i) ==
  CASE i = -2 -> MagicOf(k) [] i = -1 -> Total(j, k) [] i = 0 -> Crc(File(j, k))
    [] OTHER -> File(j, k)[i]
SentAt(j, k, fast, r) ==
  IF r <= 6 THEN r - 6
  ELSE IF r <= 6 + PayloadSteps(j, k, fast) THEN SentBefore(BlockOf(k, fast), r - 6)
  ELSE Total(j, k)

\* The parts of the script: what the loader is able to do, the two uploads,
\* and what is there.  The fast protocol is part of what comes after "ask".
ScriptPart == {"ask", "app", "wad", "info", "end"}
HasPart(j, p) == p \in {"ask", "wad", "info"} => j.wad # Absent
InfoLine(j) == [of |-> "WAD_INFO", n |-> Len(j.wad)]
EndLine(j) == IF j.run THEN Line("GO") ELSE [of |-> "INFO", n |-> Len(j.image)]
InfoSteps(j) == Send(<<WadInfo>>) \o Wait(InfoLine(j))
Steps(j, p, fast) ==
  CASE p = "ask" -> WholeScript(j)
    [] p \in Kind -> Uploading(j, p, fast)
    [] p = "info" -> InfoSteps(j)
    [] OTHER -> EndScript(j)
Following(j, p) == IF p = "app" THEN IF j.wad = Absent THEN "end" ELSE "wad"
                   ELSE IF p = "wad" THEN "info" ELSE "end"
RestAfter(j, p, fast) ==
  CASE p = "app" /\ j.wad # Absent -> Uploading(j, "wad", fast) \o (InfoSteps(j) \o EndScript(j))
    [] p = "app" /\ j.wad = Absent -> EndScript(j)
    [] p = "wad" -> InfoSteps(j) \o EndScript(j)
    [] p = "info" -> EndScript(j)
    [] OTHER -> <<>>

\* Before step r of a part.
Place(j, t, p, fast, r) ==
  /\ p \in ScriptPart /\ fast \in BOOLEAN /\ HasPart(j, p)
  /\ r \in 1..Len(Steps(j, p, fast))
  /\ t = SubSeq(Steps(j, p, fast), r, Len(Steps(j, p, fast))) \o RestAfter(j, p, fast)
At(p, fast, r) == Place(job, todo, p, fast, r)
\* Quotient and remainder.
LEMMA Division ==
  ASSUME NEW d \in Nat \ {0}, NEW n \in Nat
  PROVE  n \div d \in Nat /\ n % d \in 0..d - 1 /\ n = d * (n \div d) + (n % d)
<1>1. n = d * (n \div d) + (n % d)
  OBVIOUS
<1>2. n % d \in 0..d - 1
  OBVIOUS
<1>3. n \div d \in Nat
  OBVIOUS
<1> QED
  BY <1>1, <1>2, <1>3

\* They are unique.
LEMMA DivisionIsUnique ==
  ASSUME NEW d \in Nat \ {0}, NEW q \in Nat, NEW r \in 0..d - 1, NEW n \in Nat,
         n = d * q + r
  PROVE  n \div d = q /\ n % d = r
<1> DEFINE p == n \div d
           s == n % d
<1>1. p \in Nat /\ s \in 0..d - 1 /\ n = d * p + s
  OBVIOUS
<1> HIDE DEF p, s
<1>2. ~(p < q)
  <2> SUFFICES ASSUME p < q PROVE FALSE
    OBVIOUS
  <2>1. PICK k \in Nat : q = p + 1 + k
    BY <1>1
  <2>2. d * q = d * p + d + d * k /\ d * k \in Nat
    BY <1>1, <2>1
  <2> QED
    BY <1>1, <2>2
<1>3. ~(q < p)
  <2> SUFFICES ASSUME q < p PROVE FALSE
    OBVIOUS
  <2>1. PICK k \in Nat : p = q + 1 + k
    BY <1>1
  <2>2. d * p = d * q + d + d * k /\ d * k \in Nat /\ d * q \in Nat
    BY <1>1, <2>1
  <2> QED
    BY <1>1, <2>2
<1>4. p = q
  BY <1>1, <1>2, <1>3
<1>5. d * p = d * q /\ d * q \in Nat
  BY <1>4
<1>6. s = r
  BY <1>1, <1>5
<1> QED
  BY <1>4, <1>6 DEF p, s

\* How the count goes on from one step of a payload to the next.
LEMMA SentStep ==
  ASSUME NEW b \in Nat \ {0}, NEW i \in Nat \ {0}
  PROVE  /\ SentBefore(b, 1) = 0 /\ SentBefore(b, i) \in Nat
         /\ SentBefore(b, i + 1) = IF i % (b + 1) = 0 THEN SentBefore(b, i) ELSE SentBefore(b, i) + 1
<1> DEFINE d == b + 1
           q == (i - 1) \div d
           r == (i - 1) % d
<1>1. d \in Nat \ {0} /\ b \in Nat \ {0}
  OBVIOUS
<1>2. q \in Nat /\ r \in 0..d - 1 /\ i - 1 = d * q + r
  <2>1. i - 1 \in Nat
    OBVIOUS
  <2> QED
    BY <1>1, <2>1, Division
<1>0. 0 \div d = 0
  BY <1>1, DivisionIsUnique
<1> HIDE DEF d, q, r
<1>3. d * q \in Nat /\ d * q >= q
  <2>1. d * q = b * q + q /\ b * q \in Nat
    BY <1>1, <1>2 DEF d
  <2> QED
    BY <1>1, <1>2, <2>1
<1>4. SentBefore(b, 1) = 0
  BY <1>0 DEF SentBefore, d
<1>5. SentBefore(b, i) = i - 1 - q /\ SentBefore(b, i) \in Nat
  BY <1>2, <1>3 DEF SentBefore, d, q
<1>6. CASE r + 1 = d
  <2>1. d * (q + 1) = d * q + d
    BY <1>1, <1>2
  <2>2. i \div d = q + 1 /\ i % d = 0
    BY <1>1, <1>2, <1>3, <1>6, <2>1, DivisionIsUnique
  <2> QED
    BY <1>2, <1>4, <1>5, <2>2 DEF SentBefore, d
<1>7. CASE r + 1 # d
  <2>1. i \div d = q /\ i % d = r + 1
    BY <1>1, <1>2, <1>3, <1>7, DivisionIsUnique
  <2> QED
    BY <1>2, <1>4, <1>5, <2>1 DEF SentBefore, d
<1> QED
  BY <1>6, <1>7

\* The last step of a payload waits for the line that acknowledges all of it,
\* and no step before sends more than there is.
LEMMA PayloadEnds ==
  ASSUME NEW b \in Nat \ {0}, NEW n \in Nat \ {0}, NEW steps, steps = n + (n + b - 1) \div b
  PROVE  /\ steps \in Nat \ {0} /\ SentBefore(b, steps) = n
         /\ \A i \in 1..steps - 1 : i % (b + 1) # 0 => SentBefore(b, i) < n
         /\ \A i \in 1..steps : SentBefore(b, i) <= n
<1> DEFINE d == b + 1
           c == (n + b - 1) \div b
           s == (n + b - 1) % b
<1>1. b \in Nat \ {0} /\ d \in Nat \ {0}
  OBVIOUS
<1>2. c \in Nat /\ s \in 0..b - 1 /\ n + b - 1 = b * c + s
  BY <1>1
<1>2a. steps = n + c
  OBVIOUS
<1> HIDE DEF d, c, s
<1>3. c # 0
  <2> SUFFICES ASSUME c = 0 PROVE FALSE
    OBVIOUS
  <2>1. b * c = 0
    BY <1>1
  <2> QED
    BY <1>1, <1>2, <2>1
<1>4. PICK e \in Nat : c = e + 1
  BY <1>2, <1>3
<1>5. b * c = b * e + b /\ b * e \in Nat
  BY <1>1, <1>4
<1>6. n = b * e + 1 + s
  BY <1>1, <1>2, <1>5
<1>7. steps - 1 = d * e + (1 + s) /\ 1 + s \in 0..d - 1
  <2>1. d * e = b * e + e
    BY <1>1, <1>4 DEF d
  <2> QED
    BY <1>1, <1>2, <1>2a, <1>4, <1>5, <1>6, <2>1 DEF d
<1>8. steps \in Nat \ {0} /\ steps - 1 \in Nat
  BY <1>2, <1>2a
<1>9. (steps - 1) \div d = e
  BY <1>1, <1>4, <1>7, <1>8, DivisionIsUnique
<1>10. SentBefore(b, steps) = n
  BY <1>2a, <1>4, <1>9 DEF SentBefore, d
<1>11. ASSUME NEW i \in 1..steps - 1, i % d # 0
       PROVE  SentBefore(b, i) < n
  <2> DEFINE q == (i - 1) \div d
             r == (i - 1) % d
  <2>1. q \in Nat /\ r \in 0..d - 1 /\ i - 1 = d * q + r /\ SentBefore(b, i) = i - 1 - q
    <3>1. i - 1 \in Nat
      BY <1>8
    <3>2. q \in Nat /\ r \in 0..d - 1 /\ i - 1 = d * q + r
      BY <1>1, <3>1, Division
    <3>3. SentBefore(b, i) = i - 1 - q
      BY DEF SentBefore, d
    <3> QED
      BY <3>2, <3>3
  <2> HIDE DEF q, r
  <2>2. d * q = b * q + q /\ b * q \in Nat
    BY <1>1, <2>1 DEF d
  <2>3. r + 1 # d
    <3> SUFFICES ASSUME r + 1 = d PROVE FALSE
      OBVIOUS
    <3>1. d * (q + 1) = d * q + d
      BY <1>1, <2>1
    <3>2. i = d * (q + 1) + 0 /\ i \in Nat /\ q + 1 \in Nat /\ 0 \in 0..d - 1
      BY <1>1, <1>8, <2>1, <2>2, <3>1
    <3>3. i % d = 0
      BY <1>1, <3>2, DivisionIsUnique
    <3> QED
      BY <1>11, <3>3
  <2> SUFFICES ASSUME ~(SentBefore(b, i) < n) PROVE FALSE
    OBVIOUS
  <2>4. b * q + r >= n
    BY <2>1, <2>2, <1>2, <1>6
  <2>5. ~(q < e)
    <3> SUFFICES ASSUME q < e PROVE FALSE
      OBVIOUS
    <3>1. PICK k \in Nat : e = q + 1 + k
      BY <1>4, <2>1
    <3>2. b * e = b * q + b + b * k /\ b * k \in Nat
      BY <1>1, <2>1, <3>1
    <3> QED
      BY <1>1, <1>2, <1>6, <2>1, <2>2, <2>3, <2>4, <3>2 DEF d
  <2> QED
    BY <1>2, <1>2a, <1>4, <1>8, <2>1, <2>2, <2>4, <2>5
<1>12. ASSUME NEW i \in 1..steps
       PROVE  SentBefore(b, i) <= n
  <2>1. CASE i = steps
    BY <1>10, <2>1
  <2>2. CASE i # steps /\ i % d # 0
    <3>1. i \in 1..steps - 1 /\ i \in Nat
      BY <1>8, <2>2
    <3>2. SentBefore(b, i) \in Nat
      BY <3>1, SentStep
    <3> QED
      BY <1>11, <2>2, <3>1, <3>2
  <2>3. CASE i # steps /\ i % d = 0
    <3> DEFINE k == i \div d
    <3>1. k \in Nat /\ i = d * k /\ i \in Nat
      <4>1. i \in Nat
        BY <1>8
      <4>2. k \in Nat /\ i = d * k + (i % d)
        BY <1>1, <4>1, Division
      <4>3. d * k \in Nat
        BY <1>1, <4>2
      <4> QED
        BY <2>3, <4>1, <4>2, <4>3
    <3> HIDE DEF k
    <3>2. k # 0
      <4> SUFFICES ASSUME k = 0 PROVE FALSE
        OBVIOUS
      <4>1. d * k = 0
        BY <1>1
      <4> QED
        BY <3>1, <4>1
    <3>3. PICK l \in Nat : k = l + 1
      BY <3>1, <3>2
    <3>4. i - 1 = d * l + b /\ d * l \in Nat /\ i - 1 \in Nat \ {0} /\ b \in 0..d - 1
      <4>1. d * k = d * l + d /\ d * l \in Nat
        BY <1>1, <3>3
      <4> QED
        BY <1>1, <3>1, <4>1 DEF d
    <3>5. (i - 1) % d = b
      BY <1>1, <3>3, <3>4, DivisionIsUnique
    <3>6. PICK h \in Nat \ {0} : h = i - 1
      BY <3>4
    <3>7. SentBefore(b, h + 1) = SentBefore(b, h) + 1 /\ SentBefore(b, h) \in Nat
      BY <1>1, <3>5, <3>6, SentStep DEF d
    <3>8. h + 1 = i /\ h \in 1..steps - 1
      BY <1>8, <2>3, <3>1, <3>6
    <3>9. SentBefore(b, h) < n
      BY <1>1, <1>11, <3>5, <3>6, <3>8
    <3> QED
      BY <3>7, <3>8, <3>9
  <2> QED
    BY <2>1, <2>2, <2>3
<1> QED
  BY <1>8, <1>10, <1>11, <1>12 DEF d

\* The file of an upload.
LEMMA FileFacts ==
  ASSUME NEW j \in Job, NEW k \in Kind, k = "wad" => j.wad # Absent
  PROVE  /\ Total(j, k) \in Nat \ {0} /\ Total(j, k) \in Token /\ Crc(File(j, k)) \in Token
         /\ File(j, k) \in [1..Total(j, k) -> Token] /\ File(j, k) \in Seq(Token)
         /\ File(j, k) \in IF k = "app" THEN Image ELSE Wad
<1>1. /\ j.image \in Image /\ (j.wad # Absent => j.wad \in Wad)
      /\ \A s \in Image \cup Wad : Len(s) \in Token /\ Crc(s) \in Token
  BY JobAssumption, LineAssumption
<1>2. CASE k = "app"
  <2>1. File(j, k) = j.image /\ j.image \in Seq(Token) /\ Len(j.image) \in 1..AppMax
    BY <1>1, <1>2, FileAssumption DEF File, Named
  <2>2. Len(j.image) \in Nat \ {0} /\ j.image \in [1..Len(j.image) -> Token]
    BY <2>1, SizeFacts
  <2> QED
    BY <1>1, <1>2, <2>1, <2>2 DEF Total
<1>3. CASE k # "app"
  <2>1. k = "wad"
    BY <1>3 DEF Kind
  <2>2. File(j, k) = j.wad /\ j.wad \in Wad /\ j.wad # <<>>
    BY <1>1, <2>1 DEF File, Named, Absent
  <2>3. j.wad \in Seq(Token \cap 0..Word - 1)
    BY <2>2, FileAssumption
  <2>4. j.wad \in Seq(Token) /\ Len(j.wad) # 0
    BY <2>2, <2>3
  <2>5. Len(j.wad) \in Nat \ {0} /\ j.wad \in [1..Len(j.wad) -> Token]
    BY <2>4
  <2> QED
    BY <1>1, <1>3, <2>2, <2>4, <2>5 DEF Total
<1> QED
  BY <1>2, <1>3

\* The lines an uploader waits for are lines of the board.
LEMMA LineFacts ==
  /\ \A of \in LineName : Line(of) \in HostLine
  /\ \A of \in LineName, n \in Nat : [of |-> of, n |-> n] \in HostLine
  /\ \A j \in Job, k \in Kind : Ready(k) \in HostLine /\ Headed(k) \in HostLine /\ Okay(k) \in HostLine
<1>1. \A of \in LineName, n \in Nat : [of |-> of, n |-> n] \in HostLine
  BY DEF HostLine
<1>2. \A of \in LineName : Line(of) \in HostLine
  BY <1>1 DEF Line
<1> QED
  BY <1>1, <1>2 DEF Ready, Headed, Okay, Named, LineName

\* Steps that send, and a step that waits.
LEMMA SendingFacts ==
  ASSUME NEW tokens \in Seq(Token)
  PROVE  /\ Send(tokens) \in Seq(ScriptStep) /\ Len(Send(tokens)) = Len(tokens)
         /\ \A i \in 1..Len(tokens) :
              Send(tokens)[i].do = "send" /\ Send(tokens)[i].token = tokens[i]
<1>1. PICK n \in Nat : n = Len(tokens)
  OBVIOUS
<1>2. ASSUME NEW i \in 1..n
      PROVE  /\ [do |-> "send", token |-> tokens[i]] \in ScriptStep
             /\ Send(tokens)[i].do = "send" /\ Send(tokens)[i].token = tokens[i]
  <2>1. tokens[i] \in Token
    BY <1>1
  <2>2. Send(tokens)[i] = [do |-> "send", token |-> tokens[i]]
    BY <1>1 DEF Send
  <2>3. [do |-> "send", token |-> tokens[i]] \in ScriptStep
    BY <2>1 DEF ScriptStep
  <2> QED
    BY <2>2, <2>3
<1>3. Send(tokens) \in [1..n -> ScriptStep]
  BY <1>1, <1>2 DEF Send
<1>4. Send(tokens) \in Seq(ScriptStep) /\ Len(Send(tokens)) = n
  BY <1>1, <1>3
<1> QED
  BY <1>1, <1>2, <1>4

\* A script that waits for one line has one step.
LEMMA WaitingFacts ==
  ASSUME NEW line \in HostLine
  PROVE  /\ Wait(line) \in Seq(ScriptStep) /\ Len(Wait(line)) = 1
         /\ Wait(line)[1].do = "wait" /\ Wait(line)[1].line = line /\ Wait(line)[1].prefix = FALSE
<1>1. PICK s : s = [do |-> "wait", line |-> line, prefix |-> FALSE]
  OBVIOUS
<1>2. s \in ScriptStep /\ s.do = "wait" /\ s.line = line /\ s.prefix = FALSE
  BY <1>1 DEF ScriptStep
<1>3. Wait(line) = <<s>>
  BY <1>1 DEF Wait
<1> QED
  BY <1>2, <1>3

\* Step i of a payload: it sends the next token, or waits.
PayStep(j, k, fast, i) ==
  LET b == BlockOf(k, fast)
      steps == PayloadSteps(j, k, fast)
      s == Pay(j, k, fast)[i]
  IN /\ SentBefore(b, i) \in 0..Total(j, k)
     /\ s.do = "send" =>
          /\ i < steps /\ SentBefore(b, i) < Total(j, k)
          /\ SentBefore(b, i + 1) = SentBefore(b, i) + 1
          /\ s.token = File(j, k)[SentBefore(b, i) + 1]
     /\ s.do = "wait" => s.prefix = FALSE
     /\ s.do = "wait" /\ i < steps => SentBefore(b, i + 1) = SentBefore(b, i)
     /\ i = steps => s.do = "wait" /\ s.line = Acked(j, k)

\* The payload: each token of the file once, in order, and a wait for the
\* acknowledgement after each block and at the end.
LEMMA PayloadFacts ==
  ASSUME NEW j \in Job, NEW k \in Kind, k = "wad" => j.wad # Absent, NEW fast \in BOOLEAN
  PROVE  /\ Pay(j, k, fast) \in Seq(ScriptStep)
         /\ Len(Pay(j, k, fast)) = PayloadSteps(j, k, fast)
         /\ BlockOf(k, fast) \in Nat \ {0} /\ PayloadSteps(j, k, fast) \in Nat \ {0}
         /\ SentBefore(BlockOf(k, fast), PayloadSteps(j, k, fast)) = Total(j, k)
         /\ SentBefore(BlockOf(k, fast), 1) = 0
         /\ \A i \in 1..PayloadSteps(j, k, fast) : PayStep(j, k, fast, i)
<1> DEFINE b == BlockOf(k, fast)
           steps == PayloadSteps(j, k, fast)
           P == Pay(j, k, fast)
           L == Total(j, k)
           of == Named(k, "NEXT", "WAD_NEXT")
           sends(i) == [do |-> "send", token |-> File(j, k)[SentBefore(b, i) + 1]]
           waits(i) == [do |-> "wait", line |-> [of |-> of, n |-> SentBefore(b, i)], prefix |-> FALSE]
<1>0. b \in Nat \ {0}
  BY TokenAssumption DEF BlockOf
<1>1. L \in Nat \ {0} /\ File(j, k) \in [1..L -> Token]
  BY FileFacts
<1>2. /\ steps \in Nat \ {0} /\ SentBefore(b, steps) = L
      /\ \A i \in 1..steps - 1 : i % (b + 1) # 0 => SentBefore(b, i) < L
  <2>1. steps = L + (L + b - 1) \div b
    BY DEF PayloadSteps
  <2> HIDE DEF L
  <2> QED
    BY <1>0, <1>1, <2>1, PayloadEnds, Zenon
<1>s. \A i \in Nat \ {0} :
        /\ SentBefore(b, 1) = 0 /\ SentBefore(b, i) \in Nat
        /\ SentBefore(b, i + 1) = IF i % (b + 1) = 0 THEN SentBefore(b, i) ELSE SentBefore(b, i) + 1
  BY <1>0, SentStep, Zenon
<1>3. P = [i \in 1..steps |-> IF i = steps \/ i % (b + 1) = 0 THEN waits(i) ELSE sends(i)]
  BY Zenon DEF Pay, Payload, PayloadSteps, Total, SentBefore
<1>x. of \in LineName /\ Acked(j, k) = [of |-> of, n |-> L]
  BY DEF Named, LineName, Acked
<1>y. \A i \in 1..steps : SentBefore(b, i) <= L
  BY <1>0, <1>1, PayloadEnds DEF PayloadSteps
<1> HIDE DEF of, P, L, b, steps
<1>4. \A i \in 1..steps : SentBefore(b, i) \in Nat /\ SentBefore(b, i) \in 0..L
  <2>2. \A i \in 1..steps : SentBefore(b, i) \in Nat
    BY <1>s, <1>2
  <2> QED
    BY <1>1, <1>y, <2>2
<1>5. ASSUME NEW i \in 1..steps, i = steps \/ i % (b + 1) = 0
      PROVE  /\ P[i] = waits(i) /\ waits(i) \in ScriptStep /\ waits(i).do = "wait"
             /\ waits(i).line = [of |-> of, n |-> SentBefore(b, i)] /\ waits(i).prefix = FALSE
             /\ i < steps => SentBefore(b, i + 1) = SentBefore(b, i)
  <2>1. P[i] = waits(i)
    BY <1>3, <1>5
  <2>2. waits(i) \in ScriptStep
    <3>1. [of |-> of, n |-> SentBefore(b, i)] \in HostLine
      BY <1>4, <1>x, LineFacts
    <3> QED
      BY <3>1 DEF ScriptStep
  <2>3. i < steps => SentBefore(b, i + 1) = SentBefore(b, i)
    BY <1>s, <1>2, <1>5
  <2> QED
    BY <2>1, <2>2, <2>3
<1>6. ASSUME NEW i \in 1..steps, i # steps, i % (b + 1) # 0
      PROVE  /\ P[i] = sends(i) /\ sends(i) \in ScriptStep /\ sends(i).do = "send"
             /\ i < steps /\ SentBefore(b, i) < L /\ SentBefore(b, i + 1) = SentBefore(b, i) + 1
             /\ sends(i).token = File(j, k)[SentBefore(b, i) + 1]
  <2>1. P[i] = sends(i)
    BY <1>3, <1>6
  <2>2. i < steps /\ SentBefore(b, i) < L
    BY <1>2, <1>6
  <2>3. SentBefore(b, i) + 1 \in 1..L
    BY <1>1, <1>4, <2>2
  <2>4. sends(i) \in ScriptStep
    BY <1>1, <2>3 DEF ScriptStep
  <2>5. SentBefore(b, i + 1) = SentBefore(b, i) + 1
    BY <1>s, <1>2, <1>6
  <2> QED
    BY <2>1, <2>2, <2>4, <2>5
<1> HIDE DEF sends, waits
<1>7. \A i \in 1..steps : P[i] \in ScriptStep
  BY <1>5, <1>6
<1>8. P \in Seq(ScriptStep) /\ Len(P) = steps
  <2>1. P \in [1..steps -> ScriptStep]
    BY <1>3, <1>7
  <2> QED
    BY <1>2, <2>1
<1>9. \A i \in 1..steps :
        /\ P[i].do = "send" =>
             /\ i < steps /\ SentBefore(b, i) < L
             /\ SentBefore(b, i + 1) = SentBefore(b, i) + 1
             /\ P[i].token = File(j, k)[SentBefore(b, i) + 1]
        /\ P[i].do = "wait" => P[i].prefix = FALSE
        /\ P[i].do = "wait" /\ i < steps => SentBefore(b, i + 1) = SentBefore(b, i)
        /\ i = steps => P[i].do = "wait" /\ P[i].line = Acked(j, k)
  <2> TAKE i \in 1..steps
  <2>1. CASE i = steps \/ i % (b + 1) = 0
    BY <1>2, <1>5, <1>x, <2>1
  <2>2. CASE i # steps /\ i % (b + 1) # 0
    BY <1>6, <2>2
  <2> QED
    BY <2>1, <2>2
<1>10. SentBefore(b, 1) = 0
  BY <1>s, <1>2
<1>11. \A i \in 1..steps : PayStep(j, k, fast, i)
  <2> TAKE i \in 1..steps
  <2> QED
    BY <1>4, <1>9 DEF PayStep, P, L, b, steps
<1> QED
  BY <1>0, <1>2, <1>8, <1>10, <1>11 DEF P, L, b, steps

\* The parts of a sequence that is put together.
LEMMA JoinFacts ==
  ASSUME NEW S, NEW s \in Seq(S), NEW t \in Seq(S)
  PROVE  /\ s \o t \in Seq(S) /\ Len(s \o t) = Len(s) + Len(t)
         /\ \A i \in 1..Len(s) : (s \o t)[i] = s[i]
         /\ \A i \in 1..Len(t) : (s \o t)[Len(s) + i] = t[i]
OBVIOUS

\* What is left of a sequence.
LEMMA RestFacts ==
  ASSUME NEW S, NEW s \in Seq(S), s # <<>>
  PROVE  /\ Head(s) = s[1] /\ Head(s) \in S /\ Tail(s) \in Seq(S)
         /\ Len(s) \in Nat \ {0} /\ Len(Tail(s)) = Len(s) - 1
         /\ \A i \in 1..Len(s) - 1 : Tail(s)[i] = s[i + 1]
OBVIOUS

\* The steps of an upload one by one.
LEMMA UploadParts ==
  ASSUME NEW j \in Job, NEW k \in Kind, k = "wad" => j.wad # Absent, NEW fast \in BOOLEAN
  PROVE  /\ Uploading(j, k, fast) \in Seq(ScriptStep) /\ Len(Uploading(j, k, fast)) = LastStep(j, k, fast)
         /\ Uploading(j, k, fast)[1].do = "send"
         /\ Uploading(j, k, fast)[2].do = "wait" /\ Uploading(j, k, fast)[2].line = Ready(k) /\ Uploading(j, k, fast)[2].prefix = FALSE
         /\ \A i \in 1..3 :
              /\ Uploading(j, k, fast)[2 + i].do = "send"
              /\ Uploading(j, k, fast)[2 + i].token = <<MagicOf(k), Total(j, k), Crc(File(j, k))>>[i]
         /\ Uploading(j, k, fast)[6].do = "wait" /\ Uploading(j, k, fast)[6].prefix = FALSE
         /\ \A i \in 1..PayloadSteps(j, k, fast) : Uploading(j, k, fast)[6 + i] = Pay(j, k, fast)[i]
         /\ Uploading(j, k, fast)[LastStep(j, k, fast)].do = "wait" /\ Uploading(j, k, fast)[LastStep(j, k, fast)].line = Okay(k)
         /\ Uploading(j, k, fast)[LastStep(j, k, fast)].prefix = FALSE
<1> DEFINE U == Uploading(j, k, fast)
           P == PayloadSteps(j, k, fast)
           a1 == Send(<<CommandOf(j, k, fast)>>)
           a2 == Wait(Ready(k))
           h == <<MagicOf(k), Total(j, k), Crc(File(j, k))>>
           a3 == Send(h)
           a4 == Wait(Headed(k))
           a5 == Pay(j, k, fast)
           a6 == Wait(Okay(k))
           S == ScriptStep
<1>1. /\ MagicOf(k) \in Token /\ Total(j, k) \in Token /\ Crc(File(j, k)) \in Token
      /\ CommandOf(j, k, fast) \in Token
  BY FileFacts, TokenAssumption DEF MagicOf, CommandOf, Named
<1>2. a1 \in Seq(S) /\ Len(a1) = 1 /\ a1[1].do = "send"
  <2>1. PICK c \in Token : c = CommandOf(j, k, fast)
    BY <1>1
  <2>2. <<c>> \in Seq(Token) /\ Len(<<c>>) = 1
    OBVIOUS
  <2>3. /\ Send(<<c>>) \in Seq(S) /\ Len(Send(<<c>>)) = Len(<<c>>)
        /\ \A i \in 1..Len(<<c>>) : Send(<<c>>)[i].do = "send"
    BY <2>2, SendingFacts, Zenon
  <2>4. 1 \in 1..Len(<<c>>)
    BY <2>2
  <2> QED
    BY <2>1, <2>2, <2>3, <2>4
<1>3. /\ a3 \in Seq(S) /\ Len(a3) = 3
      /\ \A i \in 1..3 : a3[i].do = "send" /\ a3[i].token = h[i]
  <2>1. h \in Seq(Token) /\ Len(h) = 3
    BY <1>1
  <2> HIDE DEF h
  <2> QED
    BY <2>1, SendingFacts
<1>5. /\ a2 \in Seq(S) /\ Len(a2) = 1 /\ a2[1].do = "wait" /\ a2[1].line = Ready(k)
      /\ a2[1].prefix = FALSE
      /\ a4 \in Seq(S) /\ Len(a4) = 1 /\ a4[1].do = "wait" /\ a4[1].prefix = FALSE
      /\ a6 \in Seq(S) /\ Len(a6) = 1 /\ a6[1].do = "wait" /\ a6[1].line = Okay(k)
      /\ a6[1].prefix = FALSE
  <2>1. Ready(k) \in HostLine /\ Headed(k) \in HostLine /\ Okay(k) \in HostLine
    BY LineFacts
  <2> QED
    BY <2>1, WaitingFacts
<1>6. a5 \in Seq(S) /\ Len(a5) = P /\ P \in Nat \ {0}
  BY PayloadFacts
<1>7. U = a1 \o a2 \o a3 \o a4 \o a5 \o a6
  BY DEF Uploading
<1> HIDE DEF a1, a2, a3, a4, a5, a6, h, P, S, U
<1> DEFINE b2 == a1 \o a2
           b3 == b2 \o a3
           b4 == b3 \o a4
           b5 == b4 \o a5
           b6 == b5 \o a6
<1>8. b2 \in Seq(S) /\ Len(b2) = 2 /\ b2[1] = a1[1] /\ b2[2] = a2[1]
  <2>1. /\ b2 \in Seq(S) /\ Len(b2) = 1 + 1
        /\ \A i \in 1..1 : b2[i] = a1[i]
        /\ \A i \in 1..1 : b2[1 + i] = a2[i]
    BY <1>2, <1>5, JoinFacts
  <2> HIDE DEF b2
  <2> QED
    BY <2>1
<1> HIDE DEF b2
<1>9. /\ b3 \in Seq(S) /\ Len(b3) = 5 /\ \A i \in 1..2 : b3[i] = b2[i]
      /\ \A i \in 1..3 : b3[2 + i] = a3[i]
  <2>0. b2 \in Seq(S) /\ a3 \in Seq(S)
    BY <1>3, <1>8
  <2>1. /\ b2 \o a3 \in Seq(S) /\ Len(b2 \o a3) = Len(b2) + Len(a3)
        /\ \A i \in 1..Len(b2) : (b2 \o a3)[i] = b2[i]
        /\ \A i \in 1..Len(a3) : (b2 \o a3)[Len(b2) + i] = a3[i]
    BY <2>0, JoinFacts
  <2> HIDE DEF b3
  <2> QED
    BY <1>3, <1>8, <2>1 DEF b3
<1> HIDE DEF b3
<1>10. b4 \in Seq(S) /\ Len(b4) = 6 /\ (\A i \in 1..5 : b4[i] = b3[i]) /\ b4[6] = a4[1]
  <2>0. b3 \in Seq(S) /\ a4 \in Seq(S)
    BY <1>5, <1>9
  <2>1. /\ b3 \o a4 \in Seq(S) /\ Len(b3 \o a4) = Len(b3) + Len(a4)
        /\ \A i \in 1..Len(b3) : (b3 \o a4)[i] = b3[i]
        /\ \A i \in 1..Len(a4) : (b3 \o a4)[Len(b3) + i] = a4[i]
    BY <2>0, JoinFacts
  <2> HIDE DEF b4
  <2> QED
    BY <1>5, <1>9, <2>1, SMTT(40) DEF b4
<1> HIDE DEF b4
<1>11. /\ b5 \in Seq(S) /\ Len(b5) = 6 + P /\ \A i \in 1..6 : b5[i] = b4[i]
       /\ \A i \in 1..P : b5[6 + i] = a5[i]
  <2>0. b4 \in Seq(S) /\ a5 \in Seq(S)
    BY <1>6, <1>10
  <2>1. /\ b4 \o a5 \in Seq(S) /\ Len(b4 \o a5) = Len(b4) + Len(a5)
        /\ \A i \in 1..Len(b4) : (b4 \o a5)[i] = b4[i]
        /\ \A i \in 1..Len(a5) : (b4 \o a5)[Len(b4) + i] = a5[i]
    BY <2>0, JoinFacts
  <2> HIDE DEF b5
  <2> QED
    BY <1>6, <1>10, <2>1 DEF b5
<1> HIDE DEF b5
<1>12. /\ b6 \in Seq(S) /\ Len(b6) = 7 + P /\ \A i \in 1..6 + P : b6[i] = b5[i]
       /\ b6[7 + P] = a6[1]
  <2>0. b5 \in Seq(S) /\ a6 \in Seq(S)
    BY <1>5, <1>11
  <2>1. /\ b5 \o a6 \in Seq(S) /\ Len(b5 \o a6) = Len(b5) + Len(a6)
        /\ \A i \in 1..Len(b5) : (b5 \o a6)[i] = b5[i]
        /\ \A i \in 1..Len(a6) : (b5 \o a6)[Len(b5) + i] = a6[i]
    BY <2>0, JoinFacts
  <2> HIDE DEF b6
  <2>2. 1 \in 1..Len(a6) /\ Len(b5) + 1 = 7 + P /\ Len(b5) + Len(a6) = 7 + P
    BY <1>5, <1>6, <1>11
  <2> QED
    BY <1>11, <2>1, <2>2 DEF b6
<1>13. U = b6
  BY <1>7 DEF b2, b3, b4, b5
<1> HIDE DEF b6
<1>14. /\ b6[1] = a1[1] /\ b6[2] = a2[1]
       /\ \A i \in 1..3 : b6[2 + i] = a3[i]
       /\ b6[6] = a4[1]
       /\ \A i \in 1..P : b6[6 + i] = a5[i]
  <2>1. \A i \in 1..2 : b6[i] = b2[i]
    BY <1>6, <1>9, <1>10, <1>11, <1>12
  <2>2. \A i \in 1..3 : b6[2 + i] = a3[i]
    BY <1>6, <1>9, <1>10, <1>11, <1>12
  <2>3. b6[6] = a4[1] /\ \A i \in 1..P : b6[6 + i] = a5[i]
    BY <1>6, <1>10, <1>11, <1>12
  <2> QED
    BY <1>8, <2>1, <2>2, <2>3
<1>15. LastStep(j, k, fast) = 7 + P
  BY DEF LastStep, P
<1>16. U \in Seq(ScriptStep) /\ Len(U) = 7 + P
  BY <1>12, <1>13 DEF S
<1>17. /\ U[1].do = "send"
       /\ U[2].do = "wait" /\ U[2].line = Ready(k) /\ U[2].prefix = FALSE
       /\ U[6].do = "wait" /\ U[6].prefix = FALSE
       /\ U[7 + P].do = "wait" /\ U[7 + P].line = Okay(k) /\ U[7 + P].prefix = FALSE
  BY <1>2, <1>5, <1>12, <1>13, <1>14
<1>18. \A i \in 1..3 : U[2 + i].do = "send" /\ U[2 + i].token = h[i]
  BY <1>3, <1>13, <1>14
<1>19. \A i \in 1..P : U[6 + i] = a5[i]
  BY <1>13, <1>14
<1> QED
  BY <1>15, <1>16, <1>17, <1>18, <1>19 DEF P, h, a5, U

\* What is sent or waited for at a step, and how far the upload has come.
UploadStep(j, k, fast, last, at, s) ==
  /\ last \in Nat /\ last >= 8 /\ SentAt(j, k, fast, 3) = -3
  /\ SentAt(j, k, fast, last) = Total(j, k)
  /\ at >= 3 => SentAt(j, k, fast, at) \in -3..Total(j, k)
  /\ s \in ScriptStep /\ (s.do = "wait" => s.prefix = FALSE)
  /\ at = 1 => s.do = "send"
  /\ at = 2 => s.do = "wait" /\ s.line = Ready(k)
  /\ at >= 3 /\ s.do = "send" =>
       /\ at < last - 1 /\ SentAt(j, k, fast, at) < Total(j, k)
       /\ SentAt(j, k, fast, at + 1) = SentAt(j, k, fast, at) + 1
       /\ s.token = Stream(j, k, SentAt(j, k, fast, at) + 1)
  /\ at >= 3 /\ s.do = "wait" /\ at < last =>
       SentAt(j, k, fast, at + 1) = SentAt(j, k, fast, at)
  /\ at = last - 1 =>
       /\ SentAt(j, k, fast, at) = Total(j, k)
       /\ s.do = "wait" /\ s.line = Acked(j, k)
  /\ at = last => s.do = "wait" /\ s.line = Okay(k)

\* Every step of an upload is one of those that UploadStep lists.
LEMMA UploadStepFacts ==
  ASSUME NEW j \in Job, NEW k \in Kind, k = "wad" => j.wad # Absent, NEW fast \in BOOLEAN,
         NEW at \in 1..LastStep(j, k, fast)
  PROVE  UploadStep(j, k, fast, LastStep(j, k, fast), at, Uploading(j, k, fast)[at])
<1> SUFFICES ASSUME NEW last, last = LastStep(j, k, fast), at \in 1..last,
                    NEW s, s = Uploading(j, k, fast)[at]
             PROVE  UploadStep(j, k, fast, last, at, s)
  OBVIOUS
<1> SUFFICES /\ last \in Nat /\ last >= 8 /\ SentAt(j, k, fast, 3) = -3
             /\ SentAt(j, k, fast, last) = Total(j, k)
             /\ at >= 3 => SentAt(j, k, fast, at) \in -3..Total(j, k)
             /\ s \in ScriptStep /\ (s.do = "wait" => s.prefix = FALSE)
             /\ at = 1 => s.do = "send"
             /\ at = 2 => s.do = "wait" /\ s.line = Ready(k)
             /\ at >= 3 /\ s.do = "send" =>
                  /\ at < last - 1 /\ SentAt(j, k, fast, at) < Total(j, k)
                  /\ SentAt(j, k, fast, at + 1) = SentAt(j, k, fast, at) + 1
                  /\ s.token = Stream(j, k, SentAt(j, k, fast, at) + 1)
             /\ at >= 3 /\ s.do = "wait" /\ at < last =>
                  SentAt(j, k, fast, at + 1) = SentAt(j, k, fast, at)
             /\ at = last - 1 =>
                  /\ SentAt(j, k, fast, at) = Total(j, k)
                  /\ s.do = "wait" /\ s.line = Acked(j, k)
             /\ at = last => s.do = "wait" /\ s.line = Okay(k)
  BY Zenon DEF UploadStep
<1> DEFINE P == PayloadSteps(j, k, fast)
           L == Total(j, k)
           b == BlockOf(k, fast)
           U == Uploading(j, k, fast)
           a5 == Pay(j, k, fast)
           h == <<MagicOf(k), Total(j, k), Crc(File(j, k))>>
           sent(i) == SentBefore(b, i)
<1>1. /\ L \in Nat \ {0} /\ P \in Nat \ {0} /\ sent(P) = L /\ sent(1) = 0
      /\ last = 7 + P
      /\ \A i \in 1..P :
           /\ sent(i) \in 0..L
           /\ a5[i].do = "send" =>
                i < P /\ sent(i) < L /\ sent(i + 1) = sent(i) + 1 /\ a5[i].token = File(j, k)[sent(i) + 1]
           /\ a5[i].do = "wait" /\ i < P => sent(i + 1) = sent(i)
           /\ a5[i].do = "wait" => a5[i].prefix = FALSE
           /\ i = P => a5[i].do = "wait" /\ a5[i].line = Acked(j, k)
  <2>1. L \in Nat \ {0} /\ last = 7 + P
    BY FileFacts DEF LastStep
  <2>2. P \in Nat \ {0} /\ sent(P) = L /\ sent(1) = 0
    BY PayloadFacts, Zenon
  <2>3. ASSUME NEW i \in 1..P
        PROVE  /\ sent(i) \in 0..L
               /\ a5[i].do = "send" =>
                    i < P /\ sent(i) < L /\ sent(i + 1) = sent(i) + 1 /\ a5[i].token = File(j, k)[sent(i) + 1]
               /\ a5[i].do = "wait" => a5[i].prefix = FALSE
               /\ a5[i].do = "wait" /\ i < P => sent(i + 1) = sent(i)
               /\ i = P => a5[i].do = "wait" /\ a5[i].line = Acked(j, k)
    <3>1. PayStep(j, k, fast, i)
      BY PayloadFacts, Zenon
    <3> QED
      BY <3>1 DEF PayStep
  <2> QED
    BY <2>1, <2>2, <2>3
<1>p. /\ U \in Seq(ScriptStep) /\ Len(U) = last
      /\ U[1].do = "send"
      /\ U[2].do = "wait" /\ U[2].line = Ready(k) /\ U[2].prefix = FALSE
      /\ \A i \in 1..3 : U[2 + i].do = "send" /\ U[2 + i].token = h[i]
      /\ U[6].do = "wait" /\ U[6].prefix = FALSE
      /\ \A i \in 1..P : U[6 + i] = a5[i]
      /\ U[last].do = "wait" /\ U[last].line = Okay(k) /\ U[last].prefix = FALSE
  <2> DEFINE l == LastStep(j, k, fast)
  <2>1. /\ U \in Seq(ScriptStep) /\ Len(U) = l
        /\ U[1].do = "send"
        /\ U[2].do = "wait" /\ U[2].line = Ready(k) /\ U[2].prefix = FALSE
        /\ \A i \in 1..3 : U[2 + i].do = "send" /\ U[2 + i].token = h[i]
        /\ U[6].do = "wait" /\ U[6].prefix = FALSE
        /\ \A i \in 1..P : U[6 + i] = a5[i]
        /\ U[l].do = "wait" /\ U[l].line = Okay(k) /\ U[l].prefix = FALSE
    BY UploadParts, Zenon
  <2> QED
    BY <2>1
<1>s. \A r : SentAt(j, k, fast, r) = IF r <= 6 THEN r - 6 ELSE IF r <= 6 + P THEN sent(r - 6) ELSE L
  BY DEF SentAt
<1>t. /\ Stream(j, k, -2) = h[1] /\ Stream(j, k, -1) = h[2] /\ Stream(j, k, 0) = h[3]
      /\ \A i \in Nat \ {0} : Stream(j, k, i) = File(j, k)[i]
  BY DEF Stream
<1> HIDE DEF P, L, b, U, a5, h, sent
<1>2. last \in Nat /\ last >= 8 /\ SentAt(j, k, fast, 3) = -3 /\ SentAt(j, k, fast, last) = L
  BY <1>1, <1>s
<1>3. s = U[at] /\ s \in ScriptStep /\ (s.do = "wait" \/ s.do = "send")
  <2>1. s = U[at]
    BY DEF U
  <2>2. s \in ScriptStep
    BY <1>p, <2>1
  <2> QED
    BY <2>1, <2>2 DEF ScriptStep
<1>5. CASE at \in {1, 2}
  BY <1>1, <1>2, <1>3, <1>5, <1>p DEF L
<1>6. CASE at \in 3..5
  <2>1. PICK i \in 1..3 : at = 2 + i
    <3>1. at - 2 \in 1..3 /\ at = 2 + (at - 2)
      BY <1>6
    <3> QED
      BY <3>1
  <2>2. s.do = "send" /\ s.token = h[i]
    BY <1>3, <1>p, <2>1
  <2>3. SentAt(j, k, fast, at) = i - 4 /\ SentAt(j, k, fast, at + 1) = i - 3
    BY <1>s, <2>1
  <2>4. s.token = Stream(j, k, i - 3)
    BY <1>t, <2>1, <2>2
  <2> QED
    BY <1>1, <1>2, <1>3, <2>1, <2>2, <2>3, <2>4 DEF L
<1>7. CASE at = 6
  <2>1. s.do = "wait" /\ s.prefix = FALSE
    BY <1>3, <1>7, <1>p
  <2>2. SentAt(j, k, fast, at) = 0 /\ SentAt(j, k, fast, at + 1) = 0
    BY <1>1, <1>7, <1>s
  <2> QED
    BY <1>1, <1>2, <1>3, <1>7, <2>1, <2>2 DEF L
<1>8. CASE at \in 7..6 + P
  <2>1. PICK i \in 1..P : at = 6 + i
    <3>1. at - 6 \in 1..P /\ at = 6 + (at - 6)
      BY <1>1, <1>8
    <3> QED
      BY <3>1
  <2>2. s = a5[i] /\ SentAt(j, k, fast, at) = sent(i)
        /\ SentAt(j, k, fast, at + 1) = IF i < P THEN sent(i + 1) ELSE L
    <3>1. s = a5[i]
      BY <1>3, <1>p, <2>1
    <3>2. SentAt(j, k, fast, at) = sent(i)
          /\ SentAt(j, k, fast, at + 1) = IF i < P THEN sent(i + 1) ELSE L
      BY <1>1, <1>s, <2>1
    <3> QED
      BY <3>1, <3>2
  <2>3. /\ sent(i) \in 0..L
        /\ s.do = "send" =>
             i < P /\ sent(i) < L /\ sent(i + 1) = sent(i) + 1 /\ s.token = File(j, k)[sent(i) + 1]
        /\ s.do = "wait" /\ i < P => sent(i + 1) = sent(i)
        /\ s.do = "wait" => s.prefix = FALSE
        /\ i = P => s.do = "wait" /\ s.line = Acked(j, k)
    BY <1>1, <2>2
  <2>5. s.do = "send" => s.token = Stream(j, k, sent(i) + 1)
    BY <1>t, <2>3
  <2> QED
    BY <1>1, <1>2, <1>3, <2>1, <2>2, <2>3, <2>5 DEF L
<1>9. CASE at = 7 + P
  BY <1>1, <1>2, <1>3, <1>9, <1>p DEF L
<1>10. at \in {1, 2} \/ at \in 3..5 \/ at = 6 \/ at \in 7..6 + P \/ at = 7 + P
  BY <1>1
<1> QED
  BY <1>5, <1>6, <1>7, <1>8, <1>9, <1>10

\* Questions to the loader and the line that is awaited.
IsQuestion(q, n, line) ==
  /\ q \in Seq(ScriptStep) /\ Len(q) = n + 1
  /\ \A i \in 1..n : q[i].do = "send"
  /\ q[n + 1].do = "wait" /\ q[n + 1].line = line /\ q[n + 1].prefix = FALSE

\* Tokens, and then a wait for one line.
LEMMA QuestionFacts ==
  ASSUME NEW tokens \in Seq(Token), NEW line \in HostLine
  PROVE  IsQuestion(Send(tokens) \o Wait(line), Len(tokens), line)
<1>q. PICK q : q = Send(tokens) \o Wait(line)
  OBVIOUS
<1>1. /\ Send(tokens) \in Seq(ScriptStep) /\ Len(Send(tokens)) = Len(tokens)
      /\ \A i \in 1..Len(tokens) : Send(tokens)[i].do = "send"
  BY SendingFacts
<1>2. /\ Wait(line) \in Seq(ScriptStep) /\ Len(Wait(line)) = 1
      /\ Wait(line)[1].do = "wait" /\ Wait(line)[1].line = line /\ Wait(line)[1].prefix = FALSE
  BY WaitingFacts
<1>3. PICK s, t : s = Send(tokens) /\ t = Wait(line)
  OBVIOUS
<1>4. /\ q \in Seq(ScriptStep) /\ Len(q) = Len(s) + Len(t)
      /\ \A i \in 1..Len(s) : q[i] = s[i]
      /\ \A i \in 1..Len(t) : q[Len(s) + i] = t[i]
  BY <1>1, <1>2, <1>3, <1>q, JoinFacts
<1>5. PICK n \in Nat : n = Len(tokens)
  OBVIOUS
<1>6. Len(s) = n /\ Len(t) = 1 /\ Len(q) = n + 1
  BY <1>1, <1>2, <1>3, <1>4, <1>5
<1>7. q[n + 1] = t[1]
  BY <1>4, <1>6
<1>8. \A i \in 1..n : q[i].do = "send"
  BY <1>1, <1>3, <1>4, <1>5, <1>6
<1> QED
  BY <1>2, <1>3, <1>4, <1>5, <1>6, <1>7, <1>8, <1>q DEF IsQuestion

\* The questions at the end: is the WAD there, and does the application run.
IsQuery(j, p, q) ==
  /\ q \in Seq(ScriptStep) /\ Len(q) \in {1, 2}
  /\ \A i \in 1..Len(q) - 1 : q[i].do = "send"
  /\ q[Len(q)].do = "wait" /\ q[Len(q)].prefix = FALSE
  /\ q[Len(q)].line = IF p = "info" THEN InfoLine(j) ELSE EndLine(j)

\* The parts "info" and "end" are a command and a wait for its answer.
LEMMA QueryFacts ==
  ASSUME NEW j \in Job, NEW p \in {"info", "end"}, HasPart(j, p), NEW fast \in BOOLEAN
  PROVE  IsQuery(j, p, Steps(j, p, fast))
<1> SUFFICES ASSUME NEW q, q = Steps(j, p, fast)
             PROVE  /\ q \in Seq(ScriptStep) /\ Len(q) \in {1, 2}
                    /\ \A i \in 1..Len(q) - 1 : q[i].do = "send"
                    /\ q[Len(q)].do = "wait" /\ q[Len(q)].prefix = FALSE
                    /\ q[Len(q)].line = IF p = "info" THEN InfoLine(j) ELSE EndLine(j)
  BY Zenon DEF IsQuery
<1>1. /\ j.image \in Image /\ j.wad \in Wad \cup {Absent} /\ j.run \in BOOLEAN
  BY JobAssumption
<1>2. Len(j.image) \in Nat
  BY <1>1, FileAssumption
<1>3. EndLine(j) \in HostLine
  BY <1>1, <1>2 DEF EndLine, Line, HostLine, LineName
<1>4. CASE p = "info"
  <2>1. j.wad # Absent
    BY <1>4 DEF HasPart
  <2>2. Len(j.wad) \in Nat
    BY <1>1, <2>1, FileAssumption
  <2>3. InfoLine(j) \in HostLine
    BY <2>2 DEF InfoLine, HostLine, LineName
  <2>4. PICK t : t = <<WadInfo>>
    OBVIOUS
  <2>5. t \in Seq(Token) /\ Len(t) = 1
    BY <2>4, TokenAssumption
  <2>6. q = Send(t) \o Wait(InfoLine(j))
    BY <1>4, <2>4 DEF Steps, InfoSteps, Kind
  <2>7. IsQuestion(q, Len(t), InfoLine(j))
    BY <2>3, <2>5, <2>6, QuestionFacts
  <2>8. /\ q \in Seq(ScriptStep) /\ Len(q) = 2 /\ Len(q) - 1 = 1
        /\ q[1].do = "send"
        /\ q[2].do = "wait" /\ q[2].line = InfoLine(j) /\ q[2].prefix = FALSE
    BY <2>5, <2>7 DEF IsQuestion
  <2>9. \A i \in 1..Len(q) - 1 : q[i].do = "send"
    BY <2>8
  <2>10. Len(q) \in {1, 2} /\ q[Len(q)].do = "wait" /\ q[Len(q)].prefix = FALSE /\ q[Len(q)].line = InfoLine(j)
    BY <2>8
  <2> QED
    BY <1>4, <2>8, <2>9, <2>10, Zenon
<1>5. CASE p = "end"
  <2>1. PICK t : t = IF j.run THEN IF j.wad # Absent THEN <<Go>> ELSE <<>> ELSE <<Info>>
    OBVIOUS
  <2>2. t \in Seq(Token) /\ Len(t) \in {0, 1}
    <3>1. Go \in Token /\ Info \in Token
      BY TokenAssumption
    <3> QED
      BY <2>1, <3>1
  <2>3. q = Send(t) \o Wait(EndLine(j))
    BY <1>1, <1>5, <2>1, Zenon DEF Steps, EndScript, EndLine, Kind
  <2>4. IsQuestion(q, Len(t), EndLine(j))
    BY <1>3, <2>2, <2>3, QuestionFacts
  <2>5. PICK n \in {0, 1} : n = Len(t)
    BY <2>2
  <2>6. /\ q \in Seq(ScriptStep) /\ Len(q) = n + 1 /\ Len(q) \in {1, 2} /\ Len(q) - 1 = n
        /\ \A i \in 1..n : q[i].do = "send"
        /\ q[n + 1].do = "wait" /\ q[n + 1].line = EndLine(j) /\ q[n + 1].prefix = FALSE
    BY <2>4, <2>5 DEF IsQuestion
  <2> QED
    BY <1>5, <2>6
<1> QED
  BY <1>4, <1>5

\* The parts but for the first, and how they follow each other.
LEMMA StepsFacts ==
  ASSUME NEW j \in Job, NEW p \in ScriptPart \ {"ask"}, HasPart(j, p), NEW fast \in BOOLEAN
  PROVE  /\ Steps(j, p, fast) \in Seq(ScriptStep) /\ Len(Steps(j, p, fast)) \in Nat \ {0}
         /\ RestAfter(j, p, fast) \in Seq(ScriptStep)
         /\ p = "end" => RestAfter(j, p, fast) = <<>>
         /\ p # "end" =>
              /\ Following(j, p) \in ScriptPart \ {"ask"} /\ HasPart(j, Following(j, p))
              /\ RestAfter(j, p, fast) = Steps(j, Following(j, p), fast) \o RestAfter(j, Following(j, p), fast)
<1>1. ASSUME NEW k \in Kind, HasPart(j, k)
      PROVE  Uploading(j, k, fast) \in Seq(ScriptStep) /\ Len(Uploading(j, k, fast)) \in Nat \ {0}
  <2>1. k = "wad" => j.wad # Absent
    BY <1>1 DEF HasPart
  <2>2. PayloadSteps(j, k, fast) \in Nat
    BY <2>1, PayloadFacts
  <2>3. /\ Uploading(j, k, fast) \in Seq(ScriptStep)
        /\ Len(Uploading(j, k, fast)) = LastStep(j, k, fast)
    BY <2>1, UploadParts, ZenonT(60)
  <2>4. LastStep(j, k, fast) \in Nat \ {0}
    BY <2>2 DEF LastStep
  <2> QED
    BY <2>3, <2>4
<1>2. EndScript(j) \in Seq(ScriptStep) /\ Len(EndScript(j)) \in Nat \ {0}
  <2>1. Steps(j, "end", fast) = EndScript(j) /\ HasPart(j, "end")
    BY DEF Steps, Kind, HasPart
  <2>2. /\ Steps(j, "end", fast) \in Seq(ScriptStep)
        /\ Len(Steps(j, "end", fast)) \in {1, 2}
    BY <2>1, QueryFacts DEF IsQuery
  <2>3. \A n \in {1, 2} : n \in Nat \ {0}
    OBVIOUS
  <2> QED
    BY <2>1, <2>2, <2>3, Zenon
<1>3. ASSUME j.wad # Absent
      PROVE  InfoSteps(j) \in Seq(ScriptStep) /\ Len(InfoSteps(j)) \in Nat \ {0}
  <2>1. Steps(j, "info", fast) = InfoSteps(j) /\ HasPart(j, "info")
    BY <1>3 DEF Steps, Kind, HasPart
  <2>2. /\ Steps(j, "info", fast) \in Seq(ScriptStep)
        /\ Len(Steps(j, "info", fast)) \in {1, 2}
    BY <2>1, QueryFacts DEF IsQuery
  <2>3. \A n \in {1, 2} : n \in Nat \ {0}
    OBVIOUS
  <2> QED
    BY <2>1, <2>2, <2>3, Zenon
<1>4. EndScript(j) = EndScript(j) \o <<>>
  BY <1>2, ConcatEmptySeq
<1>5. /\ Steps(j, "end", fast) = EndScript(j) /\ RestAfter(j, "end", fast) = <<>>
      /\ Steps(j, "info", fast) = InfoSteps(j) /\ RestAfter(j, "info", fast) = EndScript(j)
      /\ Steps(j, "wad", fast) = Uploading(j, "wad", fast)
      /\ RestAfter(j, "wad", fast) = InfoSteps(j) \o EndScript(j)
      /\ Steps(j, "app", fast) = Uploading(j, "app", fast)
      /\ RestAfter(j, "app", fast) = IF j.wad = Absent THEN EndScript(j)
                                 ELSE Uploading(j, "wad", fast) \o (InfoSteps(j) \o EndScript(j))
  BY DEF Steps, RestAfter, Kind
<1>6. CASE p = "end"
  <2>1. <<>> \in Seq(ScriptStep)
    OBVIOUS
  <2> QED
    BY <1>2, <1>5, <1>6, <2>1
<1>7. CASE p = "info"
  <2>1. j.wad # Absent /\ Following(j, p) = "end" /\ HasPart(j, "end")
    BY <1>7 DEF HasPart, Following
  <2> QED
    BY <1>2, <1>3, <1>4, <1>5, <1>7, <2>1 DEF ScriptPart
<1>8. CASE p = "wad"
  <2>1. j.wad # Absent /\ Following(j, p) = "info" /\ HasPart(j, "info") /\ p \in Kind
    BY <1>8 DEF HasPart, Following, Kind
  <2>2. InfoSteps(j) \o EndScript(j) \in Seq(ScriptStep)
    BY <1>2, <1>3, <2>1
  <2> QED
    BY <1>1, <1>5, <1>8, <2>1, <2>2 DEF ScriptPart
<1>9. CASE p = "app" /\ j.wad = Absent
  <2>1. Following(j, p) = "end" /\ HasPart(j, "end") /\ p \in Kind
    BY <1>9 DEF HasPart, Following, Kind
  <2> QED
    BY <1>1, <1>2, <1>4, <1>5, <1>9, <2>1 DEF ScriptPart
<1>10. CASE p = "app" /\ j.wad # Absent
  <2>1. Following(j, p) = "wad" /\ HasPart(j, "wad") /\ p \in Kind /\ "wad" \in Kind
    BY <1>10 DEF HasPart, Following, Kind
  <2>2. Uploading(j, "wad", fast) \in Seq(ScriptStep)
    BY <1>1, <2>1
  <2>3. InfoSteps(j) \o EndScript(j) \in Seq(ScriptStep)
    BY <1>2, <1>3, <1>10
  <2>4. Uploading(j, "wad", fast) \o (InfoSteps(j) \o EndScript(j)) \in Seq(ScriptStep)
    BY <2>2, <2>3
  <2> QED
    BY <1>1, <1>5, <1>10, <2>1, <2>4 DEF ScriptPart
<1> QED
  BY <1>6, <1>7, <1>8, <1>9, <1>10 DEF ScriptPart

\* The beginning of the script, when there is a WAD: is the loader there, and
\* is it able to do the fast protocol.
AskStep(j) ==
  [do |-> "ask", line |-> Line("CAPS"), prefix |-> FALSE,
   then |-> [fast \in BOOLEAN |-> Steps(j, "app", fast) \o RestAfter(j, "app", fast)]]

\* A job with a WAD begins with "i" and "c" and a wait for what the board answers.
LEMMA AskFacts ==
  ASSUME NEW j \in Job, j.wad # Absent
  PROVE  /\ WholeScript(j) \in Seq(ScriptStep \cup {AskStep(j)}) /\ Len(WholeScript(j)) = 4
         /\ \A r \in {1, 3} : WholeScript(j)[r].do = "send" /\ WholeScript(j)[r].token \in Token
         /\ WholeScript(j)[2].do = "wait" /\ WholeScript(j)[2].line.of = "WAD_INFO"
         /\ WholeScript(j)[4] = AskStep(j)
<1> DEFINE U(f) == Uploading(j, "wad", f)
           A(f) == Uploading(j, "app", f)
           d == Send(<<WadInfo>>)
           w == Wait(InfoLine(j))
           E == EndScript(j)
           then == [fast \in BOOLEAN |-> A(fast) \o (U(fast) \o d \o w) \o E]
           S == ScriptStep
<1>1. \A f \in BOOLEAN : A(f) \in Seq(S) /\ U(f) \in Seq(S)
  <2> TAKE f \in BOOLEAN
  <2>1. "app" \in Kind /\ "wad" \in Kind
    BY DEF Kind
  <2> QED
    BY <2>1, UploadParts
<1>2. d \in Seq(S) /\ Len(d) = 1 /\ d[1].do = "send" /\ d[1].token = WadInfo
  <2>1. PICK t : t = <<WadInfo>>
    OBVIOUS
  <2>2. t \in Seq(Token) /\ Len(t) = 1 /\ t[1] = WadInfo
    BY <2>1, TokenAssumption
  <2>3. Send(t) \in Seq(S) /\ Len(Send(t)) = 1 /\ Send(t)[1].do = "send" /\ Send(t)[1].token = WadInfo
    BY <2>2, SendingFacts
  <2> QED
    BY <2>1, <2>3
<1>3. w \in Seq(S)
  <2>1. j.wad \in Wad
    BY JobAssumption
  <2>2. InfoLine(j) \in HostLine
    BY <2>1, FileAssumption DEF InfoLine, HostLine, LineName
  <2> QED
    BY <2>2, WaitingFacts
<1>4. E \in Seq(S)
  <2>1. "end" \in {"info", "end"} /\ HasPart(j, "end") /\ Steps(j, "end", TRUE) = EndScript(j)
    BY DEF HasPart, Steps, Kind
  <2> QED
    BY <2>1, QueryFacts DEF IsQuery
<1>5. /\ AppScript(j) = A(TRUE) /\ A(FALSE) = A(TRUE)
      /\ \A f \in BOOLEAN : WadScript(j, f) = U(f) \o d \o w
  <2>1. \A f \in BOOLEAN : AppScript(j) = A(f)
    BY DEF AppScript, Uploading, CommandOf, Ready, MagicOf, Total, File, Headed, Pay, Okay, BlockOf,
       Named
  <2>2. \A f \in BOOLEAN : WadScript(j, f) = U(f) \o d \o w
    BY DEF WadScript, Uploading, CommandOf, Ready, MagicOf, Total, File, Headed, Pay, Okay, BlockOf,
       Named, InfoLine
  <2> QED
    BY <2>1, <2>2
<1>6. \A f \in BOOLEAN : A(f) = A(TRUE)
  BY <1>5
<1>7. \A f \in BOOLEAN : AppScript(j) \o WadScript(j, f) \o EndScript(j) = then[f]
  BY <1>5, <1>6
<1> HIDE DEF U, A, d, w, E, S
<1>8. \A f \in BOOLEAN : then[f] = A(f) \o (U(f) \o ((d \o w) \o E))
  <2> TAKE f \in BOOLEAN
  <2>1. PICK a, u : a = A(f) /\ u = U(f)
    OBVIOUS
  <2>2. a \in Seq(S) /\ u \in Seq(S)
    BY <1>1, <2>1
  <2>3. u \o d \o w \in Seq(S) /\ u \o d \in Seq(S) /\ d \o w \in Seq(S)
    BY <1>2, <1>3, <2>2
  <2>4. u \o d \o w = u \o (d \o w)
    BY <1>2, <1>3, <2>2, ConcatAssociative, SMTT(40)
  <2>5. PICK v : v = u \o d \o w
    OBVIOUS
  <2>7. (a \o v) \o E = a \o (v \o E)
    <3>1. v \in Seq(S)
      BY <2>3, <2>5
    <3>2. a \in Seq(S) /\ E \in Seq(S)
      BY <1>4, <2>2
    <3> QED
      BY <3>1, <3>2, ConcatAssociative
  <2>6. (u \o (d \o w)) \o E = u \o ((d \o w) \o E)
    BY <1>4, <2>2, <2>3, ConcatAssociative, SMTT(40)
  <2> QED
    BY <2>1, <2>4, <2>5, <2>6, <2>7
<1>9. then = [fast \in BOOLEAN |-> Steps(j, "app", fast) \o RestAfter(j, "app", fast)]
  <2>1. \A f \in BOOLEAN : then[f] = Steps(j, "app", f) \o RestAfter(j, "app", f)
    BY <1>8 DEF Steps, RestAfter, Kind, InfoSteps, A, U, d, w, E
  <2> QED
    BY <2>1
<1> DEFINE p == [do |-> "wait", line |-> [of |-> "WAD_INFO", n |-> 0], prefix |-> TRUE]
           c == Send(<<Caps>>)
           a == AskStep(j)
           T == S \cup {a}
<1>10. /\ p \in S /\ p.do = "wait" /\ p.line.of = "WAD_INFO"
       /\ WaitPrefix([of |-> "WAD_INFO", n |-> 0]) = <<p>>
  BY DEF S, ScriptStep, HostLine, LineName, WaitPrefix
<1>11. c \in Seq(S) /\ Len(c) = 1 /\ c[1].do = "send" /\ c[1].token = Caps
  <2>1. PICK t : t = <<Caps>>
    OBVIOUS
  <2>2. t \in Seq(Token) /\ Len(t) = 1 /\ t[1] = Caps
    BY <2>1, TokenAssumption
  <2>3. Send(t) \in Seq(S) /\ Len(Send(t)) = 1 /\ Send(t)[1].do = "send" /\ Send(t)[1].token = Caps
    BY <2>2, SendingFacts DEF S
  <2> QED
    BY <2>1, <2>3
<1>12. Ask(Line("CAPS"), then) = <<a>>
  BY <1>9 DEF Ask, AskStep
<1>13. WholeScript(j) = d \o <<p>> \o c \o <<a>>
  <2>1. [fast \in BOOLEAN |-> AppScript(j) \o WadScript(j, fast) \o EndScript(j)] = then
    BY <1>7
  <2> QED
    BY <1>10, <1>12, <2>1 DEF WholeScript, d
<1> HIDE DEF p, c, a, then
<1>14. d \in Seq(T) /\ <<p>> \in Seq(T) /\ c \in Seq(T) /\ <<a>> \in Seq(T)
  BY <1>2, <1>10, <1>11
<1> HIDE DEF T
<1>15. d \o <<p>> \in Seq(T) /\ Len(d \o <<p>>) = 2 /\ (d \o <<p>>)[1] = d[1] /\ (d \o <<p>>)[2] = p
  <2>1. PICK o : o = <<p>>
    OBVIOUS
  <2>2. o \in Seq(T) /\ Len(o) = 1 /\ o[1] = p
    BY <1>14, <2>1
  <2>3. /\ d \o o \in Seq(T) /\ Len(d \o o) = Len(d) + Len(o)
        /\ \A i \in 1..Len(d) : (d \o o)[i] = d[i]
        /\ \A i \in 1..Len(o) : (d \o o)[Len(d) + i] = o[i]
    <3>1. d \in Seq(T) /\ o \in Seq(T)
      BY <1>14, <2>2
    <3> QED
      BY <3>1, JoinFacts
  <2>4. 1 \in 1..Len(d) /\ 1 \in 1..Len(o) /\ Len(d) + 1 = 2 /\ Len(d) + Len(o) = 2
    BY <1>2, <2>2
  <2> QED
    BY <2>1, <2>2, <2>3, <2>4
<1>16. PICK e : e = d \o <<p>>
  OBVIOUS
<1>17. /\ e \o c \in Seq(T) /\ Len(e \o c) = 3
       /\ (e \o c)[1] = d[1] /\ (e \o c)[2] = p /\ (e \o c)[3] = c[1]
  BY <1>11, <1>14, <1>15, <1>16
<1>18. PICK g : g = e \o c
  OBVIOUS
<1>19. /\ g \o <<a>> \in Seq(T) /\ Len(g \o <<a>>) = 4
       /\ (g \o <<a>>)[1] = d[1] /\ (g \o <<a>>)[2] = p /\ (g \o <<a>>)[3] = c[1] /\ (g \o <<a>>)[4] = a
  BY <1>14, <1>17, <1>18
<1>20. WadInfo \in Token /\ Caps \in Token
  BY TokenAssumption
<1>21. WholeScript(j) = g \o <<a>>
  BY <1>13, <1>16, <1>18
<1> QED
  BY <1>2, <1>10, <1>11, <1>19, <1>20, <1>21 DEF T, S, a

\* Without a WAD the script begins with the upload of the application.
LEMMA NoAskFacts ==
  ASSUME NEW j \in Job, j.wad = Absent, NEW fast \in BOOLEAN
  PROVE  WholeScript(j) = Steps(j, "app", fast) \o RestAfter(j, "app", fast)
<1>1. AppScript(j) = Uploading(j, "app", fast)
  BY DEF AppScript, Uploading, CommandOf, Ready, MagicOf, Total, File, Headed, Pay, Okay, BlockOf, Named
<1> QED
  BY <1>1 DEF WholeScript, Steps, RestAfter, Kind

\* From one step of a script to the next.
IsLeft(S, P, Q, r, t) ==
  /\ t \in Seq(S) /\ t # <<>> /\ Head(t) = P[r]
  /\ r < Len(P) => Len(t) # 1 /\ Tail(t) = SubSeq(P, r + 1, Len(P)) \o Q
  /\ r = Len(P) => Tail(t) = Q /\ Len(t) = Len(Q) + 1

\* What is left of a part, and of the script with it, one step on.
LEMMA ScriptGoesOn ==
  ASSUME NEW S, NEW P \in Seq(S), NEW Q \in Seq(S), NEW r \in 1..Len(P)
  PROVE  IsLeft(S, P, Q, r, SubSeq(P, r, Len(P)) \o Q)
<1>s. PICK t : t = SubSeq(P, r, Len(P)) \o Q
  OBVIOUS
<1>0. Len(P) \in Nat /\ r \in Nat /\ r <= Len(P) /\ r >= 1 /\ Len(Q) \in Nat
  OBVIOUS
<1>1. PICK a, b : a = SubSeq(P, r, Len(P)) /\ b = SubSeq(P, r + 1, Len(P))
  OBVIOUS
<1>2. PICK n, m : n = Len(P) - r /\ m = Len(Q)
  OBVIOUS
<1>3. n \in Nat /\ m \in Nat /\ Len(P) = r + n /\ Len(P) - r + 1 = n + 1
  BY <1>0, <1>2
<1>4. /\ a \in Seq(S) /\ Len(a) = n + 1
      /\ \A i \in 1..n + 1 : a[i] = P[r + i - 1]
  <2>1. \A i \in r..Len(P) : P[i] \in S
    BY <1>0
  <2>2. /\ a \in Seq(S) /\ Len(a) = IF r <= Len(P) THEN Len(P) - r + 1 ELSE 0
        /\ \A i \in 1..Len(P) - r + 1 : a[i] = P[r + i - 1]
    BY <1>0, <1>1, <2>1, SubSeqProperties
  <2> QED
    BY <1>0, <1>3, <2>2
<1>5. /\ b \in Seq(S) /\ Len(b) = n
      /\ \A i \in 1..n : b[i] = P[r + 1 + i - 1]
  <2>1. \A i \in r + 1..Len(P) : P[i] \in S
    BY <1>0
  <2>2. r + 1 \in Int /\ Len(P) - (r + 1) + 1 = n
    BY <1>0, <1>2
  <2>3. /\ b \in Seq(S) /\ Len(b) = IF r + 1 <= Len(P) THEN Len(P) - (r + 1) + 1 ELSE 0
        /\ \A i \in 1..Len(P) - (r + 1) + 1 : b[i] = P[r + 1 + i - 1]
    BY <1>0, <1>1, <2>1, <2>2, SubSeqProperties
  <2>4. r + 1 <= Len(P) <=> n # 0
    BY <1>0, <1>3
  <2> QED
    BY <2>2, <2>3, <2>4
<1>6. /\ t \in Seq(S) /\ Len(t) = n + 1 + m
      /\ \A i \in 1..n + 1 : t[i] = a[i]
      /\ \A i \in 1..m : t[n + 1 + i] = Q[i]
  <2>1. t = a \o Q
    BY <1>1, <1>s
  <2>3. a \in Seq(S) /\ Q \in Seq(S)
    BY <1>4
  <2>2. /\ a \o Q \in Seq(S) /\ Len(a \o Q) = Len(a) + Len(Q)
        /\ \A i \in 1..Len(a) : (a \o Q)[i] = a[i]
        /\ \A i \in 1..Len(Q) : (a \o Q)[Len(a) + i] = Q[i]
    BY <2>3, JoinFacts
  <2> QED
    BY <1>2, <1>4, <2>1, <2>2
<1>13. \A i \in 1..m : t[n + 1 + i] = Q[i]
  BY <1>6, Zenon
<1>7. Len(t) \in Nat \ {0} /\ t # <<>>
  <2>1. Len(t) \in Nat \ {0}
    BY <1>3, <1>6
  <2>2. Len(<<>>) = 0
    OBVIOUS
  <2> QED
    BY <2>1, <2>2
<1>8. PICK u : u = Tail(t)
  OBVIOUS
<1>9. /\ Head(t) = t[1] /\ u \in Seq(S) /\ Len(u) = n + m
      /\ \A i \in 1..n + m : u[i] = t[i + 1]
  <2>1. /\ Head(t) = t[1] /\ Tail(t) \in Seq(S) /\ Len(Tail(t)) = Len(t) - 1
        /\ \A i \in 1..Len(t) - 1 : Tail(t)[i] = t[i + 1]
    BY <1>6, <1>7, RestFacts
  <2>2. Len(t) - 1 = n + m
    <3>1. Len(t) = n + 1 + m
      BY <1>6
    <3> QED
      BY <1>3, <3>1
  <2> QED
    BY <1>8, <2>1, <2>2
<1>10. Head(t) = P[r]
  <2>1. 1 \in 1..n + 1 /\ r + 1 - 1 = r
    BY <1>0, <1>3
  <2>2. t[1] = a[1] /\ a[1] = P[r + 1 - 1]
    BY <1>4, <1>6, <2>1
  <2> QED
    BY <1>9, <2>1, <2>2
<1>11. ASSUME r < Len(P)
       PROVE  Len(t) # 1 /\ u = b \o Q
  <2>1. n \in Nat \ {0} /\ Len(t) # 1
    BY <1>0, <1>3, <1>6, <1>11
  <2>2. PICK c : c = b \o Q
    OBVIOUS
  <2>3. /\ c \in Seq(S) /\ Len(c) = n + m
        /\ \A i \in 1..n : c[i] = b[i]
        /\ \A i \in 1..m : c[n + i] = Q[i]
    <3>2. b \in Seq(S) /\ Q \in Seq(S)
      BY <1>5
    <3>1. /\ b \o Q \in Seq(S) /\ Len(b \o Q) = Len(b) + Len(Q)
          /\ \A i \in 1..Len(b) : (b \o Q)[i] = b[i]
          /\ \A i \in 1..Len(Q) : (b \o Q)[Len(b) + i] = Q[i]
      BY <3>2, JoinFacts
    <3> QED
      BY <1>2, <1>5, <2>2, <3>1
  <2>4. ASSUME NEW i \in 1..n + m
        PROVE  u[i] = c[i]
    <3>1. u[i] = t[i + 1]
      BY <1>9
    <3>2. CASE i <= n
      <4>1. i \in 1..n /\ i + 1 \in 1..n + 1 /\ r + 1 + i - 1 = r + (i + 1) - 1
        BY <1>0, <1>3, <3>2
      <4>2. c[i] = b[i] /\ b[i] = P[r + 1 + i - 1] /\ t[i + 1] = a[i + 1] /\ a[i + 1] = P[r + (i + 1) - 1]
        BY <1>4, <1>5, <1>6, <2>3, <4>1
      <4> QED
        BY <3>1, <4>1, <4>2
    <3>3. CASE ~(i <= n)
      <4>1. PICK l \in 1..m : i = n + l
        <5>1. i - n \in 1..m /\ i = n + (i - n)
          BY <1>3, <3>3
        <5> QED
          BY <5>1
      <4>2. c[n + l] = Q[l]
        BY <2>3, <4>1
      <4>4. t[n + 1 + l] = Q[l]
        BY <1>13, Zenon
      <4>3. i + 1 = n + 1 + l
        BY <1>3, <4>1
      <4> QED
        BY <3>1, <4>1, <4>2, <4>3, <4>4
    <3> QED
      BY <3>2, <3>3
  <2>5. u = c
    BY <1>9, <2>3, <2>4, SeqEqual
  <2> QED
    BY <2>1, <2>2, <2>5
<1>12. ASSUME r = Len(P)
       PROVE  u = Q /\ Len(t) = m + 1
  <2>1. n = 0
    BY <1>0, <1>2, <1>12
  <2>2. Len(t) = m + 1 /\ Len(u) = m
    BY <1>3, <1>6, <1>9, <2>1
  <2>3. ASSUME NEW i \in 1..m
        PROVE  u[i] = Q[i]
    <3>1. i \in 1..n + m /\ n + 1 + i = i + 1
      BY <1>3, <2>1
    <3>2. u[i] = t[i + 1]
      BY <1>9, <3>1
    <3>3. t[n + 1 + i] = Q[i]
      BY <1>13, Zenon
    <3> QED
      BY <3>1, <3>2, <3>3
  <2>4. Len(Q) = Len(u)
    BY <1>2, <2>2
  <2> QED
    BY <1>2, <1>9, <2>2, <2>3, <2>4, SeqEqual
<1> QED
  <2>1. IsLeft(S, P, Q, r, t)
    BY <1>1, <1>2, <1>6, <1>7, <1>8, <1>10, <1>11, <1>12, Zenon DEF IsLeft
  <2> QED
    BY <1>s, <2>1

\* What is left of the script at a place.
GoesOnFrom(j, t, p, fast, r) ==
  /\ t # <<>> /\ Head(t) = Steps(j, p, fast)[r]
  /\ Len(Steps(j, p, fast)) \in Nat /\ (p = "ask" => Len(Steps(j, p, fast)) = 4)
  /\ r < Len(Steps(j, p, fast)) => Len(t) # 1 /\ Place(j, Tail(t), p, fast, r + 1)
  /\ r = Len(Steps(j, p, fast)) /\ p = "end" => Len(t) = 1
  /\ r = Len(Steps(j, p, fast)) /\ p \notin {"ask", "end"} =>
       Len(t) # 1 /\ Place(j, Tail(t), Following(j, p), fast, 1)

\* From any place the script goes on to the next step, or to the next part.
LEMMA PlaceFacts ==
  ASSUME NEW j \in Job, NEW t, NEW p, NEW fast, NEW r, Place(j, t, p, fast, r)
  PROVE  GoesOnFrom(j, t, p, fast, r)
<1>1. PICK P, Q : P = Steps(j, p, fast) /\ Q = RestAfter(j, p, fast)
  OBVIOUS
<1>2. /\ p \in ScriptPart /\ fast \in BOOLEAN /\ HasPart(j, p) /\ r \in 1..Len(P)
      /\ t = SubSeq(P, r, Len(P)) \o Q
  BY <1>1 DEF Place
<1>3. PICK S : P \in Seq(S) /\ Q \in Seq(S) /\ (p = "ask" => Len(P) = 4) /\ (p = "end" => Q = <<>>)
  <2>1. CASE p = "ask"
    <3>1. j.wad # Absent
      BY <1>2, <2>1 DEF HasPart
    <3>2. P = WholeScript(j)
      BY <1>1, <2>1 DEF Steps, Kind
    <3>3. Q = <<>>
      BY <1>1, <2>1 DEF RestAfter
    <3>4. P \in Seq(ScriptStep \cup {AskStep(j)}) /\ Len(P) = 4
      BY <3>1, <3>2, AskFacts
    <3>5. Q \in Seq(ScriptStep \cup {AskStep(j)})
      BY <3>3
    <3> QED
      BY <2>1, <3>4, <3>5
  <2>2. CASE p # "ask"
    <3>1. p \in ScriptPart \ {"ask"}
      BY <1>2, <2>2
    <3>2. P \in Seq(ScriptStep) /\ Q \in Seq(ScriptStep) /\ (p = "end" => Q = <<>>)
      BY <1>1, <1>2, <3>1, StepsFacts
    <3> QED
      BY <2>2, <3>2
  <2> QED
    BY <2>1, <2>2
<1>4. /\ t \in Seq(S) /\ t # <<>> /\ Head(t) = P[r]
      /\ r < Len(P) => Len(t) # 1 /\ Tail(t) = SubSeq(P, r + 1, Len(P)) \o Q
      /\ r = Len(P) => Tail(t) = Q /\ Len(t) = Len(Q) + 1
  <2>1. P \in Seq(S) /\ Q \in Seq(S) /\ r \in 1..Len(P)
    BY <1>2, <1>3
  <2>2. IsLeft(S, P, Q, r, SubSeq(P, r, Len(P)) \o Q)
    BY <2>1, ScriptGoesOn, Zenon
  <2>3. IsLeft(S, P, Q, r, t)
    BY <1>2, <2>2
  <2> QED
    BY <2>3, Zenon DEF IsLeft
<1>5. Len(P) \in Nat
  BY <1>3
<1>6. ASSUME r < Len(P)
      PROVE  Place(j, Tail(t), p, fast, r + 1)
  <2>1. r + 1 \in 1..Len(P)
    BY <1>2, <1>5, <1>6
  <2>2. Tail(t) = SubSeq(P, r + 1, Len(P)) \o Q
    BY <1>4, <1>6
  <2> QED
    BY <1>1, <1>2, <2>1, <2>2, Zenon DEF Place
<1>7. ASSUME r = Len(P), p = "end"
      PROVE  Len(t) = 1
  <2>1. Len(t) = Len(Q) + 1 /\ Q = <<>>
    BY <1>3, <1>4, <1>7
  <2> QED
    BY <2>1
<1>8. ASSUME r = Len(P), p \notin {"ask", "end"}
      PROVE  Len(t) # 1 /\ Place(j, Tail(t), Following(j, p), fast, 1)
  <2>1. PICK n : n = Following(j, p)
    OBVIOUS
  <2>2. p \in ScriptPart \ {"ask"} /\ p # "end"
    BY <1>2, <1>8
  <2>3. /\ n \in ScriptPart \ {"ask"} /\ HasPart(j, n)
        /\ Q = Steps(j, n, fast) \o RestAfter(j, n, fast)
    BY <1>1, <1>2, <2>1, <2>2, StepsFacts
  <2>4. PICK F, A : F = Steps(j, n, fast) /\ A = RestAfter(j, n, fast)
    OBVIOUS
  <2>5. F \in Seq(ScriptStep) /\ Len(F) \in Nat \ {0} /\ A \in Seq(ScriptStep)
    BY <1>2, <2>3, <2>4, StepsFacts
  <2>6. Q = F \o A
    BY <2>3, <2>4
  <2>7. Len(Q) \in Nat \ {0}
    <3>1. Len(F \o A) = Len(F) + Len(A) /\ Len(A) \in Nat
      BY <2>5, JoinFacts
    <3> QED
      BY <2>5, <2>6, <3>1
  <2>8. Tail(t) = Q /\ Len(t) = Len(Q) + 1
    BY <1>4, <1>8
  <2>9. Len(t) # 1
    BY <2>7, <2>8
  <2>10. SubSeq(F, 1, Len(F)) = F
    <3>1. \A i \in 1..Len(F) : F[i] \in ScriptStep
      BY <2>5
    <3>2. PICK G : G = SubSeq(F, 1, Len(F))
      OBVIOUS
    <3>3. G \in Seq(ScriptStep) /\ Len(G) = Len(F) /\ \A i \in 1..Len(F) : G[i] = F[1 + i - 1]
      BY <2>5, <3>1, <3>2, SubSeqProperties
    <3>4. \A i \in 1..Len(F) : G[i] = F[i]
      <4> TAKE i \in 1..Len(F)
      <4>1. 1 + i - 1 = i
        BY <2>5
      <4> QED
        BY <3>3, <4>1
    <3> QED
      BY <2>5, <3>2, <3>3, <3>4, SeqEqual
  <2>11. 1 \in 1..Len(F)
    BY <2>5
  <2>12. n \in ScriptPart
    BY <2>3
  <2>13. Tail(t) = SubSeq(F, 1, Len(F)) \o A
    BY <2>6, <2>8, <2>10
  <2>14. Place(j, Tail(t), n, fast, 1)
    BY <1>2, <2>3, <2>4, <2>11, <2>12, <2>13, Zenon DEF Place
  <2> QED
    BY <2>1, <2>9, <2>14
<1>9. /\ t # <<>> /\ Head(t) = P[r] /\ Len(P) \in Nat /\ (p = "ask" => Len(P) = 4)
      /\ r < Len(P) => Len(t) # 1
  BY <1>3, <1>4, <1>5
<1> QED
  BY <1>1, <1>6, <1>7, <1>8, <1>9, Zenon DEF GoesOnFrom

\* The beginning of a part that begins the script.
LEMMA BeginFacts ==
  ASSUME NEW j \in Job, NEW p \in ScriptPart, HasPart(j, p), NEW fast \in BOOLEAN
  PROVE  Place(j, Steps(j, p, fast) \o RestAfter(j, p, fast), p, fast, 1)
<1>1. PICK P, S : P = Steps(j, p, fast) /\ P \in Seq(S) /\ Len(P) \in Nat \ {0}
  <2>1. CASE p = "ask"
    <3>1. j.wad # Absent
      BY <2>1 DEF HasPart
    <3>2. Steps(j, p, fast) = WholeScript(j)
      BY <2>1 DEF Steps, Kind
    <3> QED
      <4>1. WholeScript(j) \in Seq(ScriptStep \cup {AskStep(j)}) /\ Len(WholeScript(j)) = 4
        BY <3>1, AskFacts
      <4> QED
        BY <3>2, <4>1
  <2>2. CASE p # "ask"
    <3>1. p \in ScriptPart \ {"ask"}
      BY <2>2
    <3> QED
      BY <3>1, StepsFacts
  <2> QED
    BY <2>1, <2>2
<1>2. PICK G : G = SubSeq(P, 1, Len(P))
  OBVIOUS
<1>3. G = P
  <2>1. \A i \in 1..Len(P) : P[i] \in S
    BY <1>1
  <2>2. G \in Seq(S) /\ Len(G) = Len(P) /\ \A i \in 1..Len(P) : G[i] = P[1 + i - 1]
    BY <1>1, <1>2, <2>1, SubSeqProperties
  <2>3. \A i \in 1..Len(P) : G[i] = P[i]
    <3> TAKE i \in 1..Len(P)
    <3>1. 1 + i - 1 = i
      BY <1>1
    <3> QED
      BY <2>2, <3>1
  <2> QED
    BY <1>1, <2>2, <2>3, SeqEqual
<1>4. 1 \in 1..Len(P)
  BY <1>1
<1> QED
  BY <1>1, <1>2, <1>3, <1>4, Zenon DEF Place

-----------------------------------------------------------------------------
(***************************************************************************)
(* The uploader and the line.                                              *)
(***************************************************************************)
HostInv ==
  /\ job \in Job /\ faults \in 0..MaxFaults /\ cut \in BOOLEAN
  /\ toHost \in Seq(HostLine) /\ overflow \in BOOLEAN /\ wadSize \in Nat
  /\ session # "none" => pc = "app" /\ outcome # "busy"
  /\ outcome = "busy" => \E p \in ScriptPart, fast \in BOOLEAN : \E r \in Nat : At(p, fast, r)

\* The step that comes next.
StepAt(p, fast, r) == Steps(job, p, fast)[r]

\* Which steps there are.
StepKind(j, p, fast, r, s) ==
  /\ s.do = "send" => s.token \in Token /\ (p = "ask" => r \in {1, 3})
  /\ s.do # "send" /\ p = "ask" => r \in {2, 4}
  /\ p = "ask" /\ r \in {1, 3} => s.do = "send"
  /\ p = "ask" /\ r = 2 => s.do = "wait" /\ s.line.of = "WAD_INFO"
  /\ p = "ask" /\ r = 4 => s = AskStep(j)
  /\ p # "ask" => s \in ScriptStep /\ s.do \in {"send", "wait"} /\ (s.do = "wait" => s.prefix = FALSE)

\* What the step at a place is: of an upload, or of a query.
LEMMA StepKinds ==
  ASSUME NEW j \in Job, NEW t, NEW p, NEW fast, NEW r, Place(j, t, p, fast, r)
  PROVE  StepKind(j, p, fast, r, Steps(j, p, fast)[r])
<1> SUFFICES ASSUME NEW s, s = Steps(j, p, fast)[r]
             PROVE  StepKind(j, p, fast, r, s)
  OBVIOUS
<1>1. p \in ScriptPart /\ fast \in BOOLEAN /\ HasPart(j, p) /\ r \in 1..Len(Steps(j, p, fast))
  BY DEF Place
<1>2. CASE p = "ask"
  <2>1. j.wad # Absent
    BY <1>1, <1>2 DEF HasPart
  <2>2. Steps(j, p, fast) = WholeScript(j)
    BY <1>2 DEF Steps, Kind
  <2>3. Len(WholeScript(j)) = 4
    BY <2>1, AskFacts
  <2>4. r \in {1, 2, 3, 4}
    BY <1>1, <2>2, <2>3
  <2>5. /\ \A i \in {1, 3} : WholeScript(j)[i].do = "send" /\ WholeScript(j)[i].token \in Token
        /\ WholeScript(j)[2].do = "wait" /\ WholeScript(j)[2].line.of = "WAD_INFO"
        /\ WholeScript(j)[4] = AskStep(j)
    BY <2>1, AskFacts
  <2>6. AskStep(j).do = "ask"
    BY DEF AskStep
  <2>7. s = WholeScript(j)[r]
    BY <2>2
  <2> HIDE DEF AskStep, WholeScript
  <2>8. CASE r \in {1, 3}
    BY <1>2, <2>5, <2>7, <2>8 DEF StepKind
  <2>9. CASE r = 2
    BY <1>2, <2>5, <2>7, <2>9 DEF StepKind
  <2>10. CASE r = 4
    BY <1>2, <2>5, <2>6, <2>7, <2>10 DEF StepKind
  <2> QED
    BY <2>4, <2>8, <2>9, <2>10
<1>3. CASE p # "ask"
  <2>1. p \in ScriptPart \ {"ask"}
    BY <1>1, <1>3
  <2>2. Steps(j, p, fast) \in Seq(ScriptStep)
    BY <1>1, <2>1, StepsFacts
  <2>3. s \in ScriptStep
    BY <1>1, <2>2
  <2>4. /\ s.do \in {"send", "wait"}
        /\ s.do = "send" => s.token \in Token
    BY <2>3 DEF ScriptStep
  <2>5. ASSUME s.do = "wait" PROVE s.prefix = FALSE
    <3>1. CASE p \in Kind
      <4>1. p = "wad" => j.wad # Absent
        BY <1>1 DEF HasPart
      <4>2. Steps(j, p, fast) = Uploading(j, p, fast)
        BY <1>3, <3>1 DEF Steps, Kind
      <4>3. Len(Uploading(j, p, fast)) = LastStep(j, p, fast)
        BY <1>1, <3>1, <4>1, UploadParts
      <4>4. r \in 1..LastStep(j, p, fast) /\ s = Uploading(j, p, fast)[r]
        BY <1>1, <4>2, <4>3
      <4>5. UploadStep(j, p, fast, LastStep(j, p, fast), r, Uploading(j, p, fast)[r])
        BY <1>1, <3>1, <4>1, <4>4, UploadStepFacts
      <4>7. s.do = "wait" => s.prefix = FALSE
        BY <4>4, <4>5 DEF UploadStep
      <4> QED
        BY <2>5, <4>7
    <3>2. CASE p \in {"info", "end"}
      <4>1. PICK q : q = Steps(j, p, fast)
        OBVIOUS
      <4>6. fast \in BOOLEAN /\ HasPart(j, p)
        BY <1>1
      <4>2. /\ Len(q) \in {1, 2}
            /\ \A i \in 1..Len(q) - 1 : q[i].do = "send"
            /\ q[Len(q)].prefix = FALSE
        <5>1. IsQuery(j, p, Steps(j, p, fast))
          BY <3>2, <4>6, QueryFacts
        <5> QED
          BY <4>1, <5>1 DEF IsQuery
      <4>3. s = q[r] /\ r \in 1..Len(q)
        BY <1>1, <4>1
      <4>4. CASE r = Len(q)
        BY <4>2, <4>3, <4>4
      <4>5. CASE r # Len(q)
        <5>1. r \in 1..Len(q) - 1
          BY <4>2, <4>3, <4>5
        <5>2. q[r].do = "send"
          BY <4>2, <5>1
        <5> QED
          BY <2>5, <4>3, <5>2
      <4> QED
        BY <4>4, <4>5
    <3> QED
      BY <2>1, <3>1, <3>2 DEF ScriptPart, Kind
  <2> QED
    BY <1>3, <2>3, <2>4, <2>5 DEF StepKind
<1> QED
  BY <1>2, <1>3, Zenon DEF StepKind

\* The script goes on by a step.
LEMMA GoOnFacts ==
  ASSUME job \in Job, NEW p, NEW fast, NEW r, At(p, fast, r), p = "ask" => r # 4, Host!GoOn
  PROVE  /\ job' = job
         /\ r < Len(Steps(job, p, fast)) => outcome' = "busy" /\ At(p, fast, r + 1)'
         /\ r = Len(Steps(job, p, fast)) /\ p = "end" => outcome' = "ok"
         /\ r = Len(Steps(job, p, fast)) /\ p # "end" =>
              outcome' = "busy" /\ At(Following(job, p), fast, 1)'
         /\ r < Len(Steps(job, p, fast)) \/ r = Len(Steps(job, p, fast))
<1>1. /\ todo' = Tail(todo) /\ job' = job
      /\ outcome' = IF Len(todo) = 1 THEN "ok" ELSE "busy"
  BY DEF Host!GoOn
<1>2. Place(job, todo, p, fast, r)
  BY DEF At
<1>3. /\ Len(Steps(job, p, fast)) \in Nat /\ (p = "ask" => Len(Steps(job, p, fast)) = 4)
      /\ r < Len(Steps(job, p, fast)) => Len(todo) # 1 /\ Place(job, Tail(todo), p, fast, r + 1)
      /\ r = Len(Steps(job, p, fast)) /\ p = "end" => Len(todo) = 1
      /\ r = Len(Steps(job, p, fast)) /\ p \notin {"ask", "end"} =>
           Len(todo) # 1 /\ Place(job, Tail(todo), Following(job, p), fast, 1)
  BY <1>2, PlaceFacts DEF GoesOnFrom
<1>4. r \in 1..Len(Steps(job, p, fast))
  BY <1>2 DEF Place
<1>5. r < Len(Steps(job, p, fast)) \/ r = Len(Steps(job, p, fast))
  BY <1>3, <1>4
<1>6. \A q, n : Place(job, Tail(todo), q, fast, n) => At(q, fast, n)'
  BY <1>1 DEF At
<1> QED
  BY <1>1, <1>3, <1>5, <1>6

\* The answer to the question chooses the rest of the script.
LEMMA AnswerFacts ==
  ASSUME job \in Job, NEW fast, At("ask", fast, 4), NEW a \in BOOLEAN, Host!Answer(a)
  PROVE  job' = job /\ outcome' = outcome /\ At("app", a, 1)'
<1>1. Place(job, todo, "ask", fast, 4)
  BY DEF At
<1>2. Head(todo) = Steps(job, "ask", fast)[4]
  <2>1. GoesOnFrom(job, todo, "ask", fast, 4)
    BY <1>1, PlaceFacts, Zenon
  <2> QED
    BY <2>1 DEF GoesOnFrom
<1>3. Head(todo) = AskStep(job)
  <2>1. StepKind(job, "ask", fast, 4, Steps(job, "ask", fast)[4])
    BY <1>1, StepKinds, Zenon
  <2> QED
    BY <1>2, <2>1 DEF StepKind
<1>4. todo' = Head(todo).then[a] /\ job' = job /\ outcome' = outcome
  BY DEF Host!Answer, Host!Step
<1>5. todo' = Steps(job, "app", a) \o RestAfter(job, "app", a)
  BY <1>3, <1>4 DEF AskStep
<1>6. "app" \in ScriptPart /\ HasPart(job, "app")
  BY DEF ScriptPart, HasPart
<1>7. Place(job, todo', "app", a, 1)
  BY <1>5, <1>6, BeginFacts
<1> QED
  BY <1>4, <1>7 DEF At

\* The script begins with the question, or without a WAD with the application.
LEMMA OpenFacts ==
  ASSUME NEW j \in Job, Host!Open(j)
  PROVE  /\ job' = j /\ outcome' = "busy" /\ toHost' = <<>> /\ rx = <<>> /\ rx' = <<>>
         /\ outcome # "busy"
         /\ At("ask", TRUE, 1)' \/ At("app", TRUE, 1)'
<1>1. /\ job' = j /\ outcome' = "busy" /\ toHost' = <<>> /\ rx = <<>> /\ rx' = rx
      /\ outcome # "busy" /\ todo' = Script(j)
  BY DEF Host!Open
<1>2. Script(j) = WholeScript(j)
  BY DEF Script, Scripts
<1>3. CASE j.wad # Absent
  <2>1. "ask" \in ScriptPart /\ HasPart(j, "ask") /\ Steps(j, "ask", TRUE) = WholeScript(j)
    BY <1>3 DEF ScriptPart, HasPart, Steps, Kind
  <2>2. WholeScript(j) \o <<>> = WholeScript(j)
    <3>1. WholeScript(j) \in Seq(ScriptStep \cup {AskStep(j)})
      BY <1>3, AskFacts
    <3> QED
      BY <3>1, ConcatEmptySeq
  <2>3. RestAfter(j, "ask", TRUE) = <<>>
    BY DEF RestAfter
  <2>4. Place(j, WholeScript(j), "ask", TRUE, 1)
    BY <2>1, <2>2, <2>3, BeginFacts
  <2> QED
    BY <1>1, <1>2, <2>4 DEF At
<1>4. CASE j.wad = Absent
  <2>1. "app" \in ScriptPart /\ HasPart(j, "app")
    BY DEF ScriptPart, HasPart
  <2>2. WholeScript(j) = Steps(j, "app", TRUE) \o RestAfter(j, "app", TRUE)
    BY <1>4, NoAskFacts
  <2>3. Place(j, WholeScript(j), "app", TRUE, 1)
    BY <2>1, <2>2, BeginFacts
  <2> QED
    BY <1>1, <1>2, <2>3 DEF At
<1> QED
  BY <1>1, <1>3, <1>4

\* What a token on the line does to the queue of the board.
LEMMA TokenFacts ==
  ASSUME rx \in Seq(Token), NEW t \in Token, Arrive(t)
  PROVE  /\ rx' \in Seq(Token)
         /\ \/ rx' = rx /\ Len(rx) # 0
            \/ /\ Len(rx') = Len(rx) + 1 /\ rx'[Len(rx) + 1] = t
               /\ \A i \in 1..Len(rx) : rx'[i] = rx[i]
<1>1. Len(rx) \in Nat /\ Depth \in Nat \ {0}
  BY DepthAssumption
<1>2. CASE Len(rx) < Depth
  <2>1. rx' = Append(rx, t)
    BY <1>2 DEF Arrive
  <2> QED
    BY <2>1
<1>3. CASE ~(Len(rx) < Depth)
  BY <1>1, <1>3 DEF Arrive
<1> QED
  BY <1>2, <1>3

\* What the uploader does at a step that sends and at one that waits.
Sending(t) == Host!SendToken \/ Host!SendLost \/ Host!SendGarbled(t)

\* When the uploader sends, its place says which token, and the line delivers it,
\* loses it or garbles it.
LEMMA SendStepFacts ==
  ASSUME rx \in Seq(Token), job \in Job, NEW t \in Token, Sending(t),
         NEW p, NEW fast, NEW r, At(p, fast, r)
  PROVE  /\ outcome = "busy" /\ StepAt(p, fast, r).do = "send" /\ Host!GoOn
         /\ p = "ask" => r \in {1, 3}
         /\ StepAt(p, fast, r).token \in Token /\ UNCHANGED toHost
         /\ Host!SendToken => Arrive(StepAt(p, fast, r).token)
         /\ Host!SendLost => UNCHANGED rx
         /\ Host!SendGarbled(t) => Arrive(t)
         /\ rx' \in Seq(Token)
<1>1. /\ outcome = "busy" /\ Head(todo).do = "send" /\ Host!GoOn /\ UNCHANGED toHost
      /\ Host!SendToken => Arrive(Head(todo).token)
      /\ Host!SendLost => UNCHANGED rx
      /\ Host!SendGarbled(t) => Arrive(t)
  BY Zenon DEF Sending, Host!SendToken, Host!SendLost, Host!SendGarbled, Host!Doing, Host!Step,
     Host!Arrive, Arrive
<1>2. Head(todo) = StepAt(p, fast, r)
  <2>1. GoesOnFrom(job, todo, p, fast, r)
    BY PlaceFacts, Zenon DEF At
  <2> QED
    BY <2>1 DEF GoesOnFrom, StepAt
<1>3. StepAt(p, fast, r).token \in Token /\ (p = "ask" => r \in {1, 3})
  <2>1. StepKind(job, p, fast, r, StepAt(p, fast, r))
    BY StepKinds, Zenon DEF At, StepAt
  <2> QED
    BY <1>1, <1>2, <2>1, Zenon DEF StepKind
<1>5. rx' \in Seq(Token)
  <2>1. Host!SendToken => rx' \in Seq(Token)
    BY <1>1, <1>2, <1>3, TokenFacts
  <2>2. Host!SendGarbled(t) => rx' \in Seq(Token)
    BY <1>1, TokenFacts
  <2> QED
    BY <1>1, <2>1, <2>2 DEF Sending
<1> QED
  BY <1>1, <1>2, <1>3, <1>5

\* The first line on its way is taken.
TakesLine == toHost # <<>> /\ toHost' = Tail(toHost)

Hearing(p, fast, r) ==
  \/ Host!GiveUp /\ (toHost' = toHost \/ TakesLine)
  \/ TakesLine /\ UNCHANGED <<job, todo, outcome>>
  \/ TakesLine /\ p = "ask" /\ r = 2 /\ Head(toHost).of = "WAD_INFO" /\ Host!GoOn
  \/ TakesLine /\ p = "ask" /\ r = 4 /\ Head(toHost) = Line("CAPS") /\ Host!Answer(TRUE)
  \/ toHost = <<>> /\ toHost' = <<>> /\ rx = <<>> /\ p = "ask" /\ r = 4 /\ Host!Answer(FALSE)
  \/ TakesLine /\ p # "ask" /\ Head(toHost) = StepAt(p, fast, r).line /\ Host!GoOn

\* When the uploader listens, its place says for which line.
LEMMA WaitStepFacts ==
  ASSUME job \in Job, Host!HearLine \/ Host!TimeOut, NEW p, NEW fast, NEW r, At(p, fast, r)
  PROVE  /\ outcome = "busy" /\ StepAt(p, fast, r).do # "send" /\ UNCHANGED rx
         /\ p = "ask" => r \in {2, 4}
         /\ Hearing(p, fast, r)
<1>1. outcome = "busy" /\ (Head(todo).do = "wait" \/ Head(todo).do = "ask") /\ UNCHANGED rx
  BY Zenon DEF Host!HearLine, Host!TimeOut, Host!Doing, Host!Step
<1>2. Head(todo) = StepAt(p, fast, r)
  <2>1. GoesOnFrom(job, todo, p, fast, r)
    BY PlaceFacts, Zenon DEF At
  <2> QED
    BY <2>1 DEF GoesOnFrom, StepAt
<1>3. PICK s : s = StepAt(p, fast, r)
  OBVIOUS
<1>4. StepKind(job, p, fast, r, s)
  BY <1>3, StepKinds, Zenon DEF At, StepAt
<1>5. s.do # "send" /\ (p = "ask" => r \in {2, 4})
  BY <1>1, <1>2, <1>3, <1>4 DEF StepKind
<1>6. CASE p = "ask" /\ r = 4
  <2>1. s = AskStep(job)
    BY <1>4, <1>6 DEF StepKind
  <2>2. s.do = "ask" /\ s.line = Line("CAPS") /\ s.prefix = FALSE
    BY <2>1 DEF AskStep
  <2>3. CASE Host!TimeOut
    <3>1. toHost = <<>> /\ rx = <<>> /\ UNCHANGED toHost /\ Host!Answer(FALSE)
      BY <1>2, <1>3, <2>2, <2>3, Zenon DEF Host!TimeOut, Host!Doing, Host!Step
    <3>2. Hearing(p, fast, r)
      BY <1>6, <3>1 DEF Hearing
    <3> QED
      BY <1>1, <1>3, <1>5, <3>2
  <2>4. CASE Host!HearLine
    <3>1. /\ toHost # <<>> /\ toHost' = Tail(toHost)
          /\ \/ Head(toHost) = s.line /\ Host!Answer(TRUE)
             \/ Host!GiveUp
             \/ UNCHANGED <<job, todo, outcome>>
      BY <1>2, <1>3, <2>2, <2>4, Zenon DEF Host!HearLine, Host!Expected, Host!Step
    <3>2. Hearing(p, fast, r)
      BY <1>6, <2>2, <3>1, Zenon DEF Hearing, TakesLine
    <3> QED
      BY <1>1, <1>3, <1>5, <3>2
  <2> QED
    BY <2>3, <2>4
<1>7. CASE ~(p = "ask" /\ r = 4)
  <2>1. s.do = "wait" /\ s.do # "ask"
    BY <1>1, <1>2, <1>3, <1>4, <1>5, <1>7 DEF StepKind
  <2>2. p # "ask" => s.prefix = FALSE
    BY <1>4, <2>1 DEF StepKind
  <2>3. p = "ask" => r = 2 /\ s.line.of = "WAD_INFO"
    BY <1>4, <1>5, <1>7 DEF StepKind
  <2>4. CASE Host!TimeOut
    <3>1. Host!GiveUp /\ UNCHANGED toHost
      BY <1>2, <1>3, <2>1, <2>4, Zenon DEF Host!TimeOut, Host!Doing, Host!Step
    <3> QED
      BY <1>1, <1>2, <1>3, <1>5, <3>1 DEF Hearing
  <2>5. CASE Host!HearLine
    <3>1. /\ toHost # <<>> /\ toHost' = Tail(toHost)
          /\ \/ Host!Expected(Head(toHost)) /\ Host!GoOn
             \/ Host!GiveUp
             \/ UNCHANGED <<job, todo, outcome>>
      BY <1>2, <1>3, <2>1, <2>5, Zenon DEF Host!HearLine, Host!Step
    <3>2. Host!Expected(Head(toHost)) =>
            Head(toHost) = s.line \/ (s.prefix /\ Head(toHost).of = s.line.of)
      BY <1>2, <1>3 DEF Host!Expected, Host!Step
    <3>3. Host!Expected(Head(toHost)) /\ p = "ask" => Head(toHost).of = "WAD_INFO" /\ r = 2
      BY <2>3, <3>2
    <3>4. Host!Expected(Head(toHost)) /\ p # "ask" => Head(toHost) = s.line
      BY <2>2, <3>2
    <3>5. Hearing(p, fast, r)
      BY <1>3, <3>1, <3>3, <3>4, Zenon DEF Hearing, TakesLine
    <3> QED
      BY <1>1, <1>3, <1>5, <3>5
  <2> QED
    BY <2>4, <2>5
<1> QED
  BY <1>6, <1>7

-----------------------------------------------------------------------------
(***************************************************************************)
(* The loader in the system.                                               *)
(***************************************************************************)
\* What a step of the system is for the loader, the line and the uploader.
OneFault == faults' \in {faults, faults + 1} \cap 0..MaxFaults
LoaderMoves ==
  /\ (LoaderStep /\ UNCHANGED faults) \/ (ByteTimeOut /\ OneFault)
  /\ UNCHANGED <<hostVars, session, cut>>
FaultOnLine ==
  /\ faults < MaxFaults /\ faults' = faults + 1
  /\ Host!LoseLine \/ \E t \in Token : Sending(t)
  /\ UNCHANGED <<loaderVars, session, cut>>
PowerCycle == Restart /\ OneFault
Elsewhere ==
  /\ UNCHANGED <<loaderVars, lineVars, hostVars, cut>> /\ OneFault
  /\ session' # session => pc = "app" /\ outcome # "busy"

\* The steps of the system, sorted by who takes them.
LEMMA SystemCases ==
  ASSUME HostInv, [Next]_vars
  PROVE  \/ LoaderMoves \/ AppReads \/ UserUploads \/ PowerCycle
         \/ (Host!SendToken \/ Host!HearLine \/ Host!TimeOut) /\ UNCHANGED <<loaderVars, session, faults, cut>>
         \/ FaultOnLine \/ Plays \/ Elsewhere
<1>1. faults \in 0..MaxFaults /\ MaxFaults \in Nat
  BY JobAssumption DEF HostInv
<1>2. faults' = faults \/ (faults < MaxFaults /\ faults' = faults + 1) => OneFault
  BY <1>1 DEF OneFault
<1>3. CASE Loader
  BY <1>2, <1>3 DEF Loader, LoaderMoves, doomVars
<1>4. CASE DoomBegins \/ Loads \/ Draws \/ UNCHANGED vars
  BY <1>2, <1>4 DEF DoomBegins, DoomRuns, Loads, Draws, vars, doomVars, Elsewhere
<1>5. CASE UserResets
  BY <1>2, <1>5 DEF UserResets, PowerCycle
<1>6. CASE Fault
  <2>1. faults < MaxFaults /\ faults' = faults + 1
    BY <1>6 DEF Fault
  <2>2. CASE UploadFault
    <3>1. CASE ByteTimeOut /\ UNCHANGED <<hostVars, doomVars, cut>>
      BY <1>2, <2>1, <3>1 DEF LoaderMoves, doomVars
    <3>2. CASE Restart
      BY <1>2, <2>1, <3>2 DEF PowerCycle
    <3>3. CASE /\ \/ Host!SendLost \/ Host!LoseLine \/ Host!SendToken
                  \/ \E t \in Garbage : Host!SendGarbled(t)
               /\ UNCHANGED <<loaderVars, doomVars, cut>>
      <4>1. Garbage \subseteq Token /\ 0 \in Token
        BY LineAssumption, TokenAssumption
      <4>2. Host!LoseLine \/ \E t \in Token : Sending(t)
        BY <3>3, <4>1, Zenon DEF Sending
      <4> QED
        BY <2>1, <3>3, <4>2 DEF FaultOnLine, doomVars
    <3> QED
      BY <2>2, <3>1, <3>2, <3>3 DEF UploadFault
  <2>3. CASE PictureFault
    BY <1>2, <2>1, <2>3 DEF PictureFault, Elsewhere
  <2> QED
    BY <1>6, <2>2, <2>3 DEF Fault
<1>7. CASE HostStep
  BY <1>7 DEF HostStep, doomVars
<1> QED
  BY <1>3, <1>4, <1>5, <1>6, <1>7 DEF Next

\* Lines that end or break off an upload or say that an application is started.
\* All the others answer a token.
Dull(line) == line.of \in {"OK", "GO", "ERR", "WAD_OK"}

OfKind(k) == IsWad <=> k = "wad"
Verifies == VerifyApp /\ Verified(app)

\* What a line says about the step of the loader that says it.
SaidBy(line) ==
  /\ line \in HostLine
  /\ ~Dull(line) => Receive
  /\ line.of = "READY" => pc' = "magic" /\ ~IsWad'
  /\ line.of = "WAD_READY" => BeginWad /\ pc' = "magic" /\ IsWad' /\ loadedSize' = loadedSize
  /\ line.of \in {"NEXT", "WAD_NEXT"} =>
       ReadData /\ line.n = offset + 1 /\ (IsWad <=> line.of = "WAD_NEXT")
  /\ line.of = "OK" => Verifies
  /\ line.of = "WAD_OK" => PublishWad
  /\ line.of = "GO" => pc' = "app" /\ (Verifies \/ GoCommand)
  /\ line.of \in {"INFO", "WAD_INFO"} => pc = "idle" /\ UNCHANGED loaderVars

LoaderSays(said) ==
  /\ toHost' = toHost \o said /\ said \in Seq(HostLine)
  /\ \/ said = <<>>
     \/ \E line \in HostLine : said = <<line>> /\ SaidBy(line)
     \/ /\ said = <<Line("OK")>> \o <<Line("GO")>>
        /\ SaidBy(Line("OK")) /\ SaidBy(Line("GO"))

\* The loader said nothing.
LEMMA SaysNothing ==
  ASSUME toHost \in Seq(HostLine), toHost' = toHost
  PROVE  LoaderSays(<<>>)
<1>1. <<>> \in Seq(HostLine) /\ toHost \o <<>> = toHost
  OBVIOUS
<1> QED
  BY <1>1, Zenon DEF LoaderSays

\* The loader said one line.
LEMMA SaysOne ==
  ASSUME NEW line, Say(<<line>>), SaidBy(line)
  PROVE  LoaderSays(<<line>>)
<1>1. line \in HostLine
  BY DEF SaidBy
<1>2. <<line>> \in Seq(HostLine)
  BY <1>1
<1> QED
  BY <1>1, <1>2, Zenon DEF LoaderSays, Say

\* Lines with the names of the protocol.
LEMMA NameFacts ==
  /\ \A of \in LineName : Line(of) \in HostLine
  /\ \A of : Line(of).of = of
  /\ \A of \in LineName, n \in Nat : [of |-> of, n |-> n] \in HostLine
  /\ LineName = {"READY", "HEADER_OK", "NEXT", "OK", "ERR", "GO", "INFO", "CAPS",
                 "WAD_READY", "WAD_HEADER_OK", "WAD_NEXT", "WAD_OK", "WAD_INFO"}
<1>1. \A of : Line(of).of = of
  BY DEF Line
<1>2. LineName = {"READY", "HEADER_OK", "NEXT", "OK", "ERR", "GO", "INFO", "CAPS",
                  "WAD_READY", "WAD_HEADER_OK", "WAD_NEXT", "WAD_OK", "WAD_INFO"}
  BY DEF LineName
<1> QED
  BY <1>1, <1>2, LineFacts

\* The loader gave up with ERR.
LEMMA FailSays ==
  ASSUME Say(<<Line("ERR")>>)
  PROVE  \E said : LoaderSays(said)
<1>1. Line("ERR") \in HostLine /\ Line("ERR").of = "ERR"
  BY NameFacts
<1>2. SaidBy(Line("ERR"))
  BY <1>1 DEF SaidBy, Dull
<1> QED
  BY <1>2, SaysOne

\* What the loader says in a step.
LEMMA LoaderLines ==
  ASSUME IInv, toHost \in Seq(HostLine), wadSize \in Nat, LoaderStep \/ ByteTimeOut
  PROVE  \E said : LoaderSays(said)
<1>1. CASE MemoryReady \/ ReadSize
  BY <1>1, SaysNothing DEF MemoryReady, ReadSize, lineVars
<1>2. CASE ByteTimeOut
  BY <1>2, FailSays DEF ByteTimeOut, Fail
<1>3. CASE BeginUpload
  <2>1. Line("READY") \in HostLine /\ Line("READY").of = "READY"
    BY NameFacts
  <2>2. Receive /\ pc' = "magic" /\ ~IsWad' /\ Say(<<Line("READY")>>)
    BY <1>3, TokenAssumption DEF BeginUpload, IsWad
  <2>3. SaidBy(Line("READY"))
    BY <2>1, <2>2 DEF SaidBy, Dull
  <2> QED
    BY <2>2, <2>3, SaysOne
<1>4. CASE BeginWad
  <2>1. Line("WAD_READY") \in HostLine /\ Line("WAD_READY").of = "WAD_READY"
    BY NameFacts
  <2>2. CASE loadedSize = 0
    BY <1>4, <2>2, FailSays DEF BeginWad, Fail
  <2>3. CASE loadedSize # 0
    <3>1. Receive /\ pc' = "magic" /\ IsWad' /\ Say(<<Line("WAD_READY")>>) /\ loadedSize' = loadedSize
      BY <1>4, <2>3 DEF BeginWad, IsWad
    <3>2. SaidBy(Line("WAD_READY"))
      BY <1>4, <2>1, <3>1 DEF SaidBy, Dull
    <3> QED
      BY <3>1, <3>2, SaysOne
  <2> QED
    BY <2>2, <2>3
<1>5. CASE GoCommand
  <2>1. Line("GO") \in HostLine /\ Line("GO").of = "GO"
    BY NameFacts
  <2>2. CASE loadedSize = 0
    BY <1>5, <2>2, FailSays DEF GoCommand, Fail
  <2>3. CASE loadedSize # 0
    <3>1. pc' = "app" /\ Say(<<>> \o <<Line("GO")>>)
      BY <1>5, <2>3 DEF GoCommand, Run
    <3>2. <<>> \o <<Line("GO")>> = <<Line("GO")>>
      OBVIOUS
    <3>3. SaidBy(Line("GO"))
      BY <1>5, <2>1, <3>1 DEF SaidBy, Dull
    <3>4. Say(<<Line("GO")>>)
      BY <3>1, <3>2
    <3> QED
      BY <3>3, <3>4, SaysOne
  <2> QED
    BY <2>2, <2>3
<1>6. CASE OtherCommand
  <2>1. pc = "idle" /\ Receive /\ UNCHANGED loaderVars
    BY <1>6 DEF OtherCommand
  <2>2. ASSUME NEW n \in Nat, NEW of \in {"INFO", "WAD_INFO", "CAPS"}
        PROVE  SaidBy([of |-> of, n |-> n])
    <3>1. PICK l : l = [of |-> of, n |-> n]
      OBVIOUS
    <3>2. l \in HostLine /\ l.of = of
      BY <3>1, NameFacts
    <3>3. SaidBy(l)
      BY <2>1, <3>2 DEF SaidBy, Dull
    <3> QED
      BY <3>1, <3>3
  <2>3. loadedSize \in Nat
    BY TokenAssumption DEF IInv, LoaderTypeOK
  <2>4. \/ Say(<<[of |-> "INFO", n |-> loadedSize]>>) \/ Say(<<[of |-> "WAD_INFO", n |-> wadSize]>>)
        \/ Say(<<Line("CAPS")>>) \/ Say(<<>>)
    <3>1. PICK i, w, c, e : /\ i = <<[of |-> "INFO", n |-> loadedSize]>>
                            /\ w = <<[of |-> "WAD_INFO", n |-> wadSize]>>
                            /\ c = <<Line("CAPS")>> /\ e = <<>>
      OBVIOUS
    <3>2. Say(CASE Received = Info -> i [] Received = WadInfo -> w [] Received = Caps -> c [] OTHER -> e)
      BY <1>6, <3>1 DEF OtherCommand
    <3>3. PICK v : v = CASE Received = Info -> i [] Received = WadInfo -> w [] Received = Caps -> c
                         [] OTHER -> e
      OBVIOUS
    <3>4. v \in {i, w, c, e}
      BY <3>3
    <3> QED
      BY <3>1, <3>2, <3>3, <3>4, Zenon
  <2>5. Line("CAPS") = [of |-> "CAPS", n |-> 0]
    BY DEF Line
  <2>6. CASE Say(<<>>)
    <3>1. toHost' = toHost
      BY <2>6 DEF Say
    <3> QED
      BY <3>1, SaysNothing
  <2> QED
    BY <2>2, <2>3, <2>4, <2>5, <2>6, SaysOne
<1>7. CASE ReadMagic
  <2>1. toHost' = toHost \/ Say(<<Line("ERR")>>)
    BY <1>7 DEF ReadMagic, Fail
  <2> QED
    BY <2>1, SaysNothing, FailSays
<1>8. CASE ReadCrc
  <2>1. Say(<<Line("ERR")>>) \/ \E of \in {"HEADER_OK", "WAD_HEADER_OK"} : Say(<<Line(of)>>)
    BY <1>8 DEF ReadCrc, Fail, Of
  <2>2. ASSUME NEW of \in {"HEADER_OK", "WAD_HEADER_OK"}, Say(<<Line(of)>>)
        PROVE  \E said : LoaderSays(said)
    <3>1. Line(of) \in HostLine /\ Line(of).of = of
      BY NameFacts
    <3>2. SaidBy(Line(of))
      BY <1>8, <3>1 DEF SaidBy, Dull, ReadCrc
    <3> QED
      BY <2>2, <3>2, SaysOne
  <2> QED
    BY <2>1, <2>2, FailSays
<1>9. CASE ReadData
  <2>1. offset \in Nat /\ Receive
    BY <1>9 DEF IInv, LoaderTypeOK, ReadData
  <2>2. PICK of : of = Of("NEXT", "WAD_NEXT")
    OBVIOUS
  <2>3. of \in {"NEXT", "WAD_NEXT"} /\ (IsWad <=> of = "WAD_NEXT")
    BY <2>2 DEF Of
  <2>4. Say(<<[of |-> of, n |-> offset + 1]>>) \/ Say(<<>>)
    BY <1>9, <2>2 DEF ReadData
  <2>5. PICK l : l = [of |-> of, n |-> offset + 1]
    OBVIOUS
  <2>6. l \in HostLine /\ l.of = of /\ l.n = offset + 1
    BY <2>1, <2>3, <2>5, NameFacts
  <2>7. SaidBy(l)
    BY <1>9, <2>1, <2>3, <2>6 DEF SaidBy, Dull
  <2>8. CASE Say(<<l>>)
    BY <2>7, <2>8, SaysOne
  <2>9. CASE Say(<<>>)
    <3>1. toHost' = toHost
      BY <2>9 DEF Say
    <3> QED
      BY <3>1, SaysNothing
  <2> QED
    BY <2>4, <2>5, <2>8, <2>9
<1>10. CASE VerifyApp
  <2>1. CASE ~Verified(app)
    BY <1>10, <2>1, FailSays DEF VerifyApp, Fail
  <2>2. CASE Verified(app)
    <3>1. Line("OK") \in HostLine /\ Line("OK").of = "OK" /\ Line("GO") \in HostLine /\ Line("GO").of = "GO"
      BY NameFacts
    <3>2. Verifies
      BY <1>10, <2>2 DEF Verifies
    <3>3. SaidBy(Line("OK"))
      BY <3>1, <3>2 DEF SaidBy, Dull
    <3>4. CASE command = UploadRun
      <4>1. pc' = "app" /\ Say(<<Line("OK")>> \o <<Line("GO")>>)
        BY <1>10, <2>2, <3>4 DEF VerifyApp, Run
      <4>2. SaidBy(Line("GO"))
        BY <3>1, <3>2, <4>1 DEF SaidBy, Dull
      <4>3. PICK a, b : a = <<Line("OK")>> /\ b = <<Line("GO")>>
        OBVIOUS
      <4>4. a \in Seq(HostLine) /\ b \in Seq(HostLine)
        BY <3>1, <4>3
      <4>5. a \o b \in Seq(HostLine) /\ toHost' = toHost \o (a \o b)
        BY <4>1, <4>3, <4>4 DEF Say
      <4>6. LoaderSays(a \o b)
        BY <3>3, <4>2, <4>3, <4>5, Zenon DEF LoaderSays
      <4> QED
        BY <4>6
    <3>5. CASE command # UploadRun
      <4>1. Say(<<Line("OK")>>)
        BY <1>10, <2>2, <3>5 DEF VerifyApp
      <4> QED
        BY <3>3, <4>1, SaysOne
    <3> QED
      BY <3>4, <3>5
  <2> QED
    BY <2>1, <2>2
<1>11. CASE VerifyWad
  <2>1. toHost' = toHost \/ Say(<<Line("ERR")>>)
    BY <1>11 DEF VerifyWad, Fail
  <2> QED
    BY <2>1, SaysNothing, FailSays
<1>12. CASE PublishWad
  <2>1. Line("WAD_OK") \in HostLine /\ Line("WAD_OK").of = "WAD_OK"
    BY NameFacts
  <2>2. Say(<<Line("WAD_OK")>>)
    BY <1>12 DEF PublishWad
  <2>3. SaidBy(Line("WAD_OK"))
    BY <1>12, <2>1 DEF SaidBy, Dull
  <2> QED
    BY <2>2, <2>3, SaysOne
<1> QED
  BY <1>1, <1>2, <1>3, <1>4, <1>5, <1>6, <1>7, <1>8, <1>9, <1>10, <1>11, <1>12 DEF LoaderStep

\* While the keys are not looked at there are none, and while anything is, the
\* engine runs.
SessionInv ==
  /\ IF session = "keys" THEN KeyInv ELSE KeysOff
  /\ session # "none" => engine = "engine"

\* Steps at the line are those of a place.
LEMMA SendingNow ==
  ASSUME HostInv, rx \in Seq(Token), NEW t \in Token, Sending(t)
  PROVE  rx' \in Seq(Token) /\ outcome = "busy"
<1>1. outcome = "busy"
  BY Zenon DEF Sending, Host!SendToken, Host!SendLost, Host!SendGarbled, Host!Doing
<1>2. PICK p, fast, r : At(p, fast, r)
  BY <1>1 DEF HostInv
<1> QED
  BY <1>1, <1>2, SendStepFacts DEF HostInv

\* For the loader, the rest of the system is its environment.
LEMMA SystemIsEnvironment ==
  ASSUME IInv, HostInv, SessionInv, [Next]_vars
  PROVE  [LoaderNext]_<<loaderVars, lineVars>>
<1>0. rx \in Seq(Token)
  BY DEF IInv, LoaderTypeOK
<1>1. CASE LoaderMoves
  BY <1>1 DEF LoaderMoves, LoaderNext
<1>2. CASE AppReads
  <2>1. rx' \in Seq(Token) /\ UNCHANGED loaderVars
    BY <1>2, ReceivedFacts DEF AppReads, IInv
  <2> QED
    BY <2>1 DEF LoaderNext, Environment
<1>3. CASE UserUploads
  <2>1. PICK j \in Job : Host!Open(j)
    BY <1>3 DEF UserUploads
  <2>2. rx' = rx
    BY <2>1 DEF Host!Open
  <2> QED
    BY <1>0, <1>3, <2>2 DEF UserUploads, LoaderNext, Environment
<1>4. CASE PowerCycle
  BY <1>4 DEF PowerCycle, Restart, LoaderNext
<1>5. CASE UNCHANGED loaderVars /\ (Host!SendToken \/ \E t \in Token : Sending(t))
  <2>1. PICK t \in Token : Sending(t)
    BY <1>5, TokenAssumption, Zenon DEF Sending
  <2> QED
    BY <1>0, <1>5, <2>1, SendingNow DEF LoaderNext, Environment
<1>6. CASE UNCHANGED loaderVars /\ (Host!HearLine \/ Host!TimeOut \/ Host!LoseLine)
  <2>1. rx' = rx
    BY <1>6 DEF Host!HearLine, Host!TimeOut, Host!LoseLine
  <2> QED
    BY <1>0, <1>6, <2>1 DEF LoaderNext, Environment
<1>7. CASE Plays
  <2>1. KeyInv
    BY <1>7 DEF Plays, SessionInv
  <2>2. KeyInv'
    BY <1>7, <2>1, NextKeyInv DEF Plays
  <2>3. rx' \in Seq(KeyToken)
    BY <2>2 DEF KeyInv, KeyTyped
  <2>4. KeyToken \subseteq Token
    BY LineAssumption DEF KeyToken
  <2>5. rx' \in Seq(Token)
    BY <2>3, <2>4
  <2> QED
    BY <1>7, <2>5 DEF Plays, LoaderNext, Environment
<1>8. CASE Elsewhere
  BY <1>8 DEF Elsewhere
<1> QED
  BY <1>1, <1>2, <1>3, <1>4, <1>5, <1>6, <1>7, <1>8, SystemCases DEF FaultOnLine

-----------------------------------------------------------------------------
\* A board under reset and an uploader without a job.
LEMMA InitHostInv == Init => HostInv
<1> SUFFICES ASSUME Init PROVE HostInv
  OBVIOUS
<1>1. /\ job \in Job /\ outcome = "none" /\ faults = 0 /\ cut = FALSE /\ toHost = <<>>
      /\ overflow = FALSE /\ wadSize = 0 /\ session = "none"
  BY DEF Init, Host!HostInit, LineInit, LoaderInit
<1>2. faults \in 0..MaxFaults /\ toHost \in Seq(HostLine)
  BY <1>1, JobAssumption
<1> QED
  BY <1>1, <1>2 DEF HostInv

\* The loader stands still while the application runs.
LEMMA LoaderAwake ==
  ASSUME LoaderStep \/ ByteTimeOut
  PROVE  pc # "app" /\ (wadSize \in Nat /\ expectedSize \in Nat => wadSize' \in Nat)
         /\ (overflow' = overflow)
BY DEF LoaderStep, ByteTimeOut, MemoryReady, VerifyApp, VerifyWad, PublishWad, BeginUpload, BeginWad,
   GoCommand, OtherCommand, ReadMagic, ReadSize, ReadCrc, ReadData, Receive, lineVars, loaderVars

\* The script goes on by a step, is answered, or is left alone.
LEMMA StillOnScript ==
  ASSUME HostInv, outcome = "busy",
         NEW p, NEW fast, NEW r, At(p, fast, r),
         \/ Host!GoOn /\ (p = "ask" => r # 4)
         \/ Host!GiveUp
         \/ p = "ask" /\ r = 4 /\ \E a \in BOOLEAN : Host!Answer(a)
         \/ UNCHANGED <<job, todo, outcome>>
  PROVE  /\ job' = job
         /\ outcome' = "busy" => \E q \in ScriptPart, f \in BOOLEAN : \E n \in Nat : At(q, f, n)'
<1>1. job \in Job
  BY DEF HostInv
<1>2. ASSUME NEW q, NEW f, NEW n, At(q, f, n)'
      PROVE  \E q1 \in ScriptPart, f1 \in BOOLEAN : \E n1 \in Nat : At(q1, f1, n1)'
  <2>1. q \in ScriptPart /\ f \in BOOLEAN /\ n \in Nat
    BY <1>2 DEF At, Place
  <2> QED
    BY <1>2, <2>1
<1>3. CASE Host!GoOn /\ (p = "ask" => r # 4)
  BY <1>1, <1>2, <1>3, GoOnFacts
<1>4. CASE Host!GiveUp
  BY <1>4 DEF Host!GiveUp
<1>5. CASE p = "ask" /\ r = 4 /\ \E a \in BOOLEAN : Host!Answer(a)
  <2>1. PICK a \in BOOLEAN : Host!Answer(a)
    BY <1>5
  <2>2. At("ask", fast, 4)
    BY <1>5
  <2> QED
    BY <1>1, <1>2, <2>1, <2>2, AnswerFacts
<1>6. CASE UNCHANGED <<job, todo, outcome>>
  <2>1. At(p, fast, r)'
    BY <1>6 DEF At
  <2> QED
    BY <1>2, <1>6, <2>1
<1> QED
  BY <1>3, <1>4, <1>5, <1>6

\* What arrives may set the overrun flag and nothing else.
LEMMA ArriveKeeps == ASSUME NEW t, Arrive(t), overflow \in BOOLEAN PROVE overflow' \in BOOLEAN
BY DEF Arrive

\* The uploader, the line and the board keep HostInv, whoever moves.
LEMMA NextHostInv ==
  ASSUME IInv, HostInv, SessionInv, [Next]_vars
  PROVE  HostInv'
<1>0. /\ job \in Job /\ faults \in 0..MaxFaults /\ cut \in BOOLEAN /\ MaxFaults \in Nat
      /\ toHost \in Seq(HostLine) /\ overflow \in BOOLEAN /\ wadSize \in Nat
      /\ session # "none" => pc = "app" /\ outcome # "busy"
      /\ outcome = "busy" => \E p \in ScriptPart, fast \in BOOLEAN : \E r \in Nat : At(p, fast, r)
      /\ rx \in Seq(Token) /\ expectedSize \in Nat
  BY JobAssumption DEF HostInv, IInv, LoaderTypeOK
<1>a. toHost # <<>> => Tail(toHost) \in Seq(HostLine)
  BY <1>0
<1>b. ASSUME UNCHANGED <<job, todo, outcome>>
      PROVE  outcome' = "busy" => \E p \in ScriptPart, fast \in BOOLEAN : \E r \in Nat : At(p, fast, r)'
  <2>1. \A p, fast, r : At(p, fast, r) => At(p, fast, r)'
    BY <1>b DEF At
  <2> QED
    BY <1>0, <1>b, <2>1
<1>1. CASE LoaderMoves
  <2>1. LoaderStep \/ ByteTimeOut
    BY <1>1 DEF LoaderMoves
  <2>2. PICK said : LoaderSays(said)
    BY <1>0, <2>1, LoaderLines
  <2>3. toHost' \in Seq(HostLine)
    BY <1>0, <2>2, JoinFacts DEF LoaderSays
  <2>4. pc # "app" /\ wadSize' \in Nat /\ overflow' = overflow
    BY <1>0, <2>1, LoaderAwake
  <2>5. UNCHANGED <<job, todo, outcome, session, cut>> /\ faults' \in 0..MaxFaults
    BY <1>0, <1>1 DEF LoaderMoves, hostVars, OneFault
  <2> QED
    BY <1>0, <1>b, <2>3, <2>4, <2>5 DEF HostInv
<1>2. CASE AppReads
  <2>1. UNCHANGED <<job, todo, outcome, session, cut, faults, toHost, overflow, wadSize, pc>>
    BY <1>2 DEF AppReads, hostVars, doomVars, loaderVars, Receive
  <2> QED
    BY <1>0, <1>b, <2>1 DEF HostInv
<1>3. CASE UserUploads
  <2>1. PICK j \in Job : Host!Open(j)
    BY <1>3 DEF UserUploads
  <2>2. /\ toHost' = <<>> /\ job' = j /\ faults' = faults /\ cut' = FALSE /\ overflow' = overflow
        /\ wadSize' = wadSize /\ session' = session /\ pc # "app"
    BY <1>3, <2>1 DEF UserUploads, Host!Open, loaderVars, doomVars
  <2>3. outcome' = "busy" /\ \E p \in ScriptPart, fast \in BOOLEAN : \E r \in Nat : At(p, fast, r)'
    <3>1. "ask" \in ScriptPart /\ "app" \in ScriptPart /\ TRUE \in BOOLEAN /\ 1 \in Nat
      BY DEF ScriptPart
    <3> QED
      BY <2>1, <3>1, OpenFacts
  <2>4. toHost' \in Seq(HostLine)
    BY <2>2
  <2>5. cut' \in BOOLEAN
    BY <2>2
  <2> QED
    BY <1>0, <2>2, <2>3, <2>4, <2>5 DEF HostInv
<1>4. CASE PowerCycle
  <2>1. /\ UNCHANGED <<job, todo, outcome, toHost>> /\ cut' \in BOOLEAN /\ faults' \in 0..MaxFaults
        /\ session' = "none" /\ overflow' = FALSE /\ wadSize' = 0
    BY <1>4 DEF PowerCycle, Restart, LoaderReset, hostVars, OneFault
  <2>2. overflow' \in BOOLEAN /\ wadSize' \in Nat
    BY <2>1
  <2> QED
    BY <1>0, <1>b, <2>1, <2>2 DEF HostInv
<1>5. CASE /\ Host!SendToken \/ \E t \in Token : Sending(t)
           /\ UNCHANGED <<loaderVars, session, cut>> /\ faults' \in 0..MaxFaults
  <2>1. PICK t \in Token : Sending(t)
    BY <1>5, TokenAssumption, Zenon DEF Sending
  <2>2. outcome = "busy"
    BY <1>0, <2>1, SendingNow
  <2>3. PICK p, fast, r : At(p, fast, r)
    BY <1>0, <2>2
  <2>4. Host!GoOn /\ UNCHANGED toHost /\ (p = "ask" => r # 4) /\ overflow' \in BOOLEAN
    <3>1. /\ Host!GoOn /\ UNCHANGED toHost /\ (p = "ask" => r \in {1, 3})
          /\ Host!SendToken => Arrive(StepAt(p, fast, r).token)
          /\ Host!SendGarbled(t) => Arrive(t)
      BY <1>0, <2>1, <2>3, SendStepFacts
    <3>2. Host!SendLost => overflow' = overflow
      BY DEF Host!SendLost
    <3> QED
      BY <1>0, <2>1, <3>1, <3>2, ArriveKeeps DEF Sending
  <2>5. /\ job' = job
        /\ outcome' = "busy" => \E q \in ScriptPart, f \in BOOLEAN : \E n \in Nat : At(q, f, n)'
    BY <2>2, <2>3, <2>4, StillOnScript
  <2>6. UNCHANGED <<pc, wadSize, session>> /\ session = "none"
    BY <1>0, <1>5, <2>2 DEF loaderVars
  <2> QED
    BY <1>0, <1>5, <2>4, <2>5, <2>6 DEF HostInv
<1>6. CASE (Host!HearLine \/ Host!TimeOut) /\ UNCHANGED <<loaderVars, session, faults, cut>>
  <2>1. outcome = "busy"
    BY <1>6, Zenon DEF Host!HearLine, Host!TimeOut, Host!Doing
  <2>2. PICK p, fast, r : At(p, fast, r)
    BY <1>0, <2>1
  <2>3. Hearing(p, fast, r) /\ UNCHANGED overflow
    BY <1>0, <1>6, <2>2, WaitStepFacts DEF Host!HearLine, Host!TimeOut
  <2>4. /\ job' = job
        /\ outcome' = "busy" => \E q \in ScriptPart, f \in BOOLEAN : \E n \in Nat : At(q, f, n)'
    <3>1. \/ Host!GoOn /\ (p = "ask" => r # 4)
          \/ Host!GiveUp
          \/ p = "ask" /\ r = 4 /\ \E a \in BOOLEAN : Host!Answer(a)
          \/ UNCHANGED <<job, todo, outcome>>
      <4>1. 2 # 4 /\ TRUE \in BOOLEAN /\ FALSE \in BOOLEAN
        OBVIOUS
      <4> QED
        BY <2>3, <4>1, Zenon DEF Hearing
    <3> QED
      BY <2>1, <2>2, <3>1, StillOnScript
  <2>5. toHost' \in Seq(HostLine)
    BY <1>0, <1>a, <2>3 DEF Hearing, TakesLine
  <2>6. UNCHANGED <<pc, wadSize, session>> /\ session = "none"
    BY <1>0, <1>6, <2>1 DEF loaderVars
  <2> QED
    BY <1>0, <1>6, <2>3, <2>4, <2>5, <2>6 DEF HostInv
<1>7. CASE Host!LoseLine /\ UNCHANGED <<loaderVars, session, cut>> /\ faults' \in 0..MaxFaults
  <2>1. /\ toHost' \in Seq(HostLine)
        /\ UNCHANGED <<job, todo, outcome, overflow, pc, wadSize, session, cut>>
    BY <1>a, <1>7 DEF Host!LoseLine, loaderVars
  <2> QED
    BY <1>0, <1>b, <1>7, <2>1 DEF HostInv
<1>8. CASE Plays
  <2>1. KeyInv /\ [KeyStep]_<<keyVars, lineVars>>
    BY <1>8 DEF Plays, SessionInv
  <2>2. overflow' \in BOOLEAN
    BY <2>1, NextKeyInv DEF KeyInv, KeyTyped
  <2>3. UNCHANGED toHost
    BY <1>8 DEF Plays, KeyStep, PressKey, RepeatKey, ReleaseKey, FinishRelease, LoseFocus, GainFocus,
       GetKey, lineVars
  <2>4. UNCHANGED <<job, todo, outcome, session, cut, faults, wadSize, pc>>
    BY <1>8 DEF Plays, hostVars, loaderVars
  <2> QED
    BY <1>0, <1>b, <2>2, <2>3, <2>4 DEF HostInv
<1>9. CASE Elsewhere
  <2>1. /\ UNCHANGED <<job, todo, outcome, cut, wadSize, pc, toHost, overflow>>
        /\ faults' \in 0..MaxFaults /\ (session' # session => pc = "app" /\ outcome # "busy")
    BY <1>9 DEF Elsewhere, hostVars, loaderVars, lineVars, OneFault
  <2> QED
    BY <1>0, <1>b, <2>1 DEF HostInv
<1>10. FaultOnLine => faults' \in 0..MaxFaults
  BY <1>0 DEF FaultOnLine
<1> QED
  BY <1>0, <1>1, <1>2, <1>3, <1>4, <1>5, <1>6, <1>7, <1>8, <1>9, <1>10, SystemCases DEF FaultOnLine

\* With nobody at the line the keys begin in agreement.
LEMMA KeysBegin ==
  ASSUME KeysOff, rx = <<>>, overflow \in BOOLEAN
  PROVE  KeyInv
<1>1. Pressed = {} /\ \A c \in Code : {s \in sources : KeyCode[s] = c} = {}
  BY DEF KeysOff, NoKeys, Pressed
<1>2. counts = [c \in Code |-> Cardinality({s \in sources : KeyCode[s] = c})]
  BY <1>1, FS_EmptySet DEF KeysOff, NoKeys
<1>3. rx \in Seq(KeyToken) /\ Len(rx) = 0
  OBVIOUS
<1>4. KeyTyped
  <2>1. IsFiniteSet(sources) /\ IsFiniteSet(Pressed)
    BY <1>1, FS_EmptySet DEF KeysOff
  <2>2. timers \in [Keysym -> Nat]
    BY DEF KeysOff, NoTimers
  <2>3. /\ held \subseteq Key /\ focus \in BOOLEAN /\ sources = {}
        /\ pending = {} /\ prefix \in BOOLEAN /\ down \subseteq Code
    BY DEF KeysOff
  <2>4. Len(rx) <= Depth
    BY <1>3, DepthAssumption
  <2>5. sources \subseteq Keysym /\ (~focus => sources = {}) /\ pending \subseteq Keysym
        /\ \A s \in pending : timers[s] > 0
    BY <2>3
  <2> QED
    BY <1>2, <1>3, <2>1, <2>2, <2>3, <2>4, <2>5, Zenon DEF KeyTyped
<1>5. KeysOnTheWay
  <2>1. ~prefix /\ down = {} /\ \A c \in Code : ~(counts[c] > 0)
    BY DEF KeysOff, NoKeys
  <2>2. Paired(prefix, rx)
    BY <1>3, <2>1 DEF Paired
  <2>3. ASSUME NEW c \in Code PROVE LastWord(prefix, rx, down, c, counts[c] > 0)
    BY <1>3, <2>1 DEF LastWord
  <2> QED
    BY <2>2, <2>3 DEF KeysOnTheWay
<1> QED
  BY <1>4, <1>5 DEF KeyInv

\* Nothing but the keys and the application reads or writes the line while the
\* keys are looked at, and nothing but the keys touches them.
LEMMA NextKeysInv ==
  ASSUME HostInv, SessionInv, [Next]_vars
  PROVE  IF session' = "keys" THEN KeyInv' ELSE KeysOff'
<1>0. session = "keys" => pc = "app" /\ outcome # "busy"
  BY DEF HostInv
<1>a. IF session = "keys" THEN KeyInv ELSE KeysOff
  BY DEF SessionInv
<1>1. CASE Loader \/ HostStep \/ UserUploads \/ AppReads
  <2>1. session # "keys"
    <3>1. Loader => pc # "app"
      BY LoaderAwake DEF Loader
    <3>2. HostStep => outcome = "busy"
      BY Zenon DEF HostStep, Host!SendToken, Host!HearLine, Host!TimeOut, Host!Doing
    <3>3. UserUploads => pc # "app"
      BY DEF UserUploads
    <3>4. AppReads => session = "none"
      BY DEF AppReads
    <3> QED
      BY <1>0, <1>1, <3>1, <3>2, <3>3, <3>4
  <2>2. UNCHANGED <<keyVars, session>>
    BY <1>1 DEF Loader, HostStep, UserUploads, AppReads, doomVars
  <2> QED
    BY <1>a, <2>1, <2>2 DEF KeysOff, keyVars
<1>2. CASE Restart
  <2>1. session' = "none" /\ KeysReset
    BY <1>2 DEF Restart
  <2> QED
    BY <2>1 DEF KeysReset, KeysOff, NoKeys, NoTimers
<1>3. CASE DoomBegins
  <2>1. session = "none"
    BY <1>3 DEF DoomBegins, Files!DoomMain, SessionInv
  <2>2. rx = <<>> /\ UNCHANGED <<keyVars, lineVars>>
    BY <1>3 DEF DoomBegins
  <2>3. KeysOff /\ KeysOff'
    BY <1>a, <2>1, <2>2 DEF KeysOff, keyVars
  <2>4. KeyInv'
    <3>1. KeyInv
      BY <2>2, <2>3, KeysBegin DEF HostInv
    <3> QED
      BY <2>2, <3>1, NextKeyInv
  <2> QED
    BY <2>3, <2>4
<1>4. CASE Plays
  <2>1. session = "keys" /\ session' = session /\ KeyStep
    BY <1>4 DEF Plays
  <2> QED
    BY <1>a, <2>1, NextKeyInv
<1>5. CASE UNCHANGED <<keyVars, lineVars, session>>
  <2>1. CASE session = "keys"
    BY <1>a, <1>5, <2>1, NextKeyInv
  <2>2. CASE session # "keys"
    BY <1>a, <1>5, <2>2 DEF KeysOff, keyVars
  <2> QED
    BY <2>1, <2>2
<1>6. CASE Loads \/ Draws \/ PictureFault \/ UNCHANGED vars
  BY <1>5, <1>6 DEF Loads, Draws, PictureFault, vars, doomVars
<1>7. CASE UploadFault /\ ~Restart
  <2>1. UNCHANGED <<keyVars, session>>
    BY <1>7 DEF UploadFault, doomVars
  <2>2. CASE session # "keys"
    BY <1>a, <2>1, <2>2 DEF KeysOff, keyVars
  <2>3. CASE session = "keys"
    <3>1. ~ByteTimeOut
      BY <1>0, <2>3, LoaderAwake
    <3>2. ~Host!SendLost /\ ~Host!SendToken /\ ~\E t \in Garbage : Host!SendGarbled(t)
      BY <1>0, <2>3, Zenon DEF Host!SendLost, Host!SendToken, Host!SendGarbled, Host!Doing
    <3>3. Host!LoseLine
      BY <1>7, <3>1, <3>2, Zenon DEF UploadFault
    <3>4. UNCHANGED <<keyVars, rx, overflow>>
      BY <2>1, <3>3 DEF Host!LoseLine
    <3>5. KeyInv
      BY <1>a, <2>3
    <3>6. KeyInv'
      BY <3>4, <3>5, Zenon DEF KeyInv, KeyTyped, KeysOnTheWay, keyVars, Pressed
    <3> QED
      BY <2>1, <2>3, <3>6
  <2> QED
    BY <2>2, <2>3
<1> QED
  BY <1>1, <1>2, <1>3, <1>4, <1>6, <1>7 DEF Next, UserResets, Fault

\* Nothing is looked at before the engine has begun.
LEMMA NextSessionInv ==
  ASSUME HostInv, SessionInv, [Next]_vars
  PROVE  SessionInv'
<1>1. Restart => session' = "none"
  BY DEF Restart
<1>2. DoomBegins => (session' # "none" => engine' = "engine")
  BY DEF DoomBegins
<1>3. Loads => session' = session /\ engine' = engine
  BY DEF Loads, Files!EngineCalls, Files!OpenWad, Files!CloseWad, Files!ReadWad, Files!SeekWad,
     Files!Sbrk
<1>4. /\ Loader \/ HostStep \/ UserUploads \/ AppReads \/ Draws \/ Plays => UNCHANGED <<session, engine>>
      /\ UploadFault \/ PictureFault => UNCHANGED <<session, engine>> \/ Restart
      /\ UNCHANGED vars => UNCHANGED <<session, engine>>
  BY DEF Loader, HostStep, UserUploads, AppReads, Draws, Plays, UploadFault, PictureFault, doomVars,
     fileVars, vars
<1>5. session' # "none" => engine' = "engine"
  BY <1>1, <1>2, <1>3, <1>4 DEF Next, UserResets, Fault, SessionInv
<1> QED
  BY <1>5, NextKeysInv DEF SessionInv

-----------------------------------------------------------------------------
\* The inductive invariant of the system, apart from the files and the pictures.
SystemInv == IInv /\ HostInv /\ SessionInv

\* SystemInv is inductive.
LEMMA SystemInvariance ==
  ASSUME CrcDetects
  PROVE  /\ Init => SystemInv
         /\ SystemInv /\ [Next]_vars => SystemInv'
<1>1. Init => SystemInv
  <2>1. Init => IInv /\ HostInv
    BY InitIInv, InitHostInv DEF Init
  <2>2. Init => SessionInv
    BY DEF Init, SessionInv
  <2> QED
    BY <2>1, <2>2 DEF SystemInv
<1>2. ASSUME SystemInv, [Next]_vars PROVE SystemInv'
  <2>1. IInv /\ HostInv /\ SessionInv
    BY <1>2 DEF SystemInv
  <2>2. IInv'
    BY <1>2, <2>1, SystemIsEnvironment, NextIInv
  <2>3. HostInv' /\ SessionInv'
    BY <1>2, <2>1, NextHostInv, NextSessionInv
  <2> QED
    BY <2>2, <2>3 DEF SystemInv
<1> QED
  BY <1>1, <1>2

\* The whole system is the loader in its environment: the uploader, the user who
\* presses BTN0, the faults of the line and, while an application runs, DOOM and
\* the viewer give the loader nothing but tokens and resets.  So what is proved
\* of the loader on its own holds on the board.
THEOREM SystemKeepsLoader ==
  ASSUME CrcDetects
  PROVE  Spec => LoaderSpec /\ []HandoffIsReadable /\ ImplementsVerifiedImage
<1>1. Init => LoaderInit /\ LineInit
  BY DEF Init
<1>2. SystemInv /\ [Next]_vars => [LoaderNext]_<<loaderVars, lineVars>>
  BY SystemIsEnvironment DEF SystemInv
<1>3. Spec => LoaderSpec
  BY <1>1, <1>2, SystemInvariance, PTL DEF Spec, LoaderSpec
<1> QED
  BY <1>3, HandoffStaysReadable, LoaderKeepsPromise, PTL

\* What the keys promise, they promise in the whole system: nothing else takes
\* their tokens from the line, and no keys are left over from before.
THEOREM SystemKeepsKeys ==
  ASSUME CrcDetects
  PROVE  Spec => []KeysAgree
<1>1. SystemInv => KeysAgree
  <2> SUFFICES ASSUME SystemInv PROVE KeysAgree
    OBVIOUS
  <2>1. CASE session = "keys"
    BY <2>1, KeysInStep DEF SystemInv, SessionInv
  <2>2. CASE session # "keys"
    BY <2>2 DEF SystemInv, SessionInv, KeysOff, KeysAgree, NoKeys
  <2> QED
    BY <2>1, <2>2
<1> QED
  BY <1>1, SystemInvariance, PTL DEF Spec

\* The heap on the board is the heap of DoomFiles in its environment.
THEOREM SystemKeepsHeap == Spec => Files!HeapSpec /\ []Files!HeapIsDisjoint
<1>1. Init => Files!FilesOff
  BY DEF Init
<1>2. [Next]_vars => [Files!DoomMain \/ Files!EngineCalls \/ Files!FilesReset]_(Files!fileVars)
  BY DEF Next, UserResets, Fault, UploadFault, PictureFault, Loader, HostStep, UserUploads, AppReads,
     Draws, Plays, DoomBegins, Loads, Restart, doomVars, fileVars, Files!fileVars, vars
<1>3. Spec => Files!HeapSpec
  BY <1>1, <1>2, PTL DEF Spec, Files!HeapSpec
<1> QED
  BY <1>3, FilesAssumption, HeapCorrect, PTL

-----------------------------------------------------------------------------
(***************************************************************************)
(* An upload that nobody interrupts: what is on its way between the        *)
(* uploader and the board, and what the board then holds.                  *)
(***************************************************************************)
Hears(line) == \E i \in 1..Len(toHost) : toHost[i] = line
AllDull == \A i \in 1..Len(toHost) : Dull(toHost[i])

\* Nothing is on its way that matters; or a token is, or the line that answers it.
Calm == rx = <<>> /\ AllDull
OneAnswer ==
  /\ Len(rx) <= 1 /\ (rx # <<>> => AllDull)
  /\ \A i, m \in 1..Len(toHost) : ~Dull(toHost[i]) /\ ~Dull(toHost[m]) => i = m

\* The application of the upload is there, with the WAD w.
HoldsAll(w) == pc \in {"idle", "app"} /\ Runnable = job.image /\ Published = w
Held(k) == k = "wad" => Runnable = job.image

\* An upload has been asked for.
Asked(k) ==
  /\ OneAnswer
  /\ rx # <<>> /\ k = "wad" => HoldsAll(Absent)
  /\ Hears(Ready(k)) => pc \in {"magic", "idle"} /\ (pc = "magic" => OfKind(k) /\ Held(k))

\* How far the loader is in the header and the payload, what it has kept of
\* them, what is delivered so far of what the uploader has sent, and what of it
\* was not sent so.
InUpload == pc \in {"magic", "size", "crc", "data"}
Past == IF pc = "size" THEN -2 ELSE IF pc = "crc" THEN -1 ELSE IF pc = "data" THEN offset ELSE -3
Mem(k) == Named(k, app, wad)
Kept(k, i) ==
  IF i = -2 THEN MagicOf(k) ELSE IF i = -1 THEN expectedSize
  ELSE IF i = 0 THEN expectedCrc ELSE Mem(k)[i]
Delivered(k, i) == IF i > Past THEN rx[i - Past] ELSE Kept(k, i)
Garbled(k, sent) == {i \in -2..sent : Delivered(k, i) # Stream(job, k, i)}

\* The loader cannot be further than the uploader; if it has taken everything,
\* every difference is a fault.
InStepWith(k, sent) ==
  /\ Past + Len(rx) <= sent
  /\ InUpload /\ OfKind(k) /\ Past + Len(rx) = sent =>
       Cardinality(Garbled(k, sent)) <= faults /\ Held(k)

\* The loader has acknowledged as many tokens as the file has: what it has
\* received is the file, or will not be verified.
Answered(k, done) == done \/ Hears(Acked(job, k))
Whole(k) ==
  /\ pc = "verify" =>
       /\ OfKind(k) /\ expectedSize = Total(job, k) /\ Held(k)
       /\ Crc(Content(Mem(k), expectedSize)) = expectedCrc => Content(Mem(k), expectedSize) = File(job, k)
  /\ pc = "publish" => k = "wad" /\ Content(wad, expectedSize) = job.wad /\ Held(k)
Taken(k, sent, done) ==
  Answered(k, done) =>
    /\ rx = <<>> /\ sent = Total(job, k)
    /\ pc \in {"data", "verify", "publish", "idle", "app"} /\ Whole(k)

\* After that a success is one, and nothing happens any more but that the
\* application says that it starts.
OnlyGo(i) == \A m \in i + 1..Len(toHost) : toHost[m] = Line("GO") /\ pc = "app"
OkIsTrue(k, done) ==
  \A m \in 1..Len(toHost) :
    toHost[m] = Okay(k) /\ (done \/ \E i \in 1..m - 1 : toHost[i] = Acked(job, k)) =>
      HoldsAll(Named(k, Absent, job.wad)) /\ OnlyGo(m)

Delivering(k, sent, done) == InStepWith(k, sent) /\ Taken(k, sent, done) /\ OkIsTrue(k, done)

\* What the board says at the end is so.
SaysSo ==
  \A i \in 1..Len(toHost) :
    /\ toHost[i].of = "GO" => pc = "app" /\ HoldsAll(job.wad)
    /\ toHost[i].of \in {"INFO", "WAD_INFO"} => pc = "idle" /\ HoldsAll(job.wad)
Queried(waits) ==
  /\ IF waits THEN OneAnswer ELSE Calm
  /\ ~waits \/ rx # <<>> => HoldsAll(job.wad)
  /\ pc \in {"idle", "magic", "app"} /\ SaysSo

\* What is so before step r of a part.
Promised(p, fast, r) ==
  /\ p = "ask" => IF r \in {1, 3} THEN Calm ELSE OneAnswer
  /\ p \in Kind /\ r = 1 => Calm /\ (p = "wad" => HoldsAll(Absent))
  /\ p \in Kind /\ r = 2 => Asked(p)
  /\ p \in Kind /\ r >= 3 => Delivering(p, SentAt(job, p, fast, r), r = LastStep(job, p, fast))
  /\ p \in {"info", "end"} => Queried(r = Len(Steps(job, p, fast)))

\* The script is at a place where what is promised is so.
OnCourse == \E p \in ScriptPart, fast \in BOOLEAN : \E r \in Nat : At(p, fast, r) /\ Promised(p, fast, r)

\* While an upload is under way and the board stays powered.
UploadInv == outcome = "busy" /\ ~cut => OnCourse

-----------------------------------------------------------------------------
\* The lines after a step of the loader: those before, and behind them at most
\* one that answers a token, or several of which the last says "GO".
Speaks ==
  /\ toHost' \in Seq(HostLine) /\ Len(toHost) \in Nat /\ Len(toHost') \in Nat
  /\ Len(toHost) <= Len(toHost')
  /\ \A i \in 1..Len(toHost) : toHost'[i] = toHost[i]
  /\ \A i \in Len(toHost) + 1..Len(toHost') : SaidBy(toHost'[i])
  /\ \A i, m \in Len(toHost) + 1..Len(toHost') :
       i < m => toHost'[m] = Line("GO") /\ pc' = "app" /\ Dull(toHost'[i]) /\ Dull(toHost'[m])

\* Two lines one after the other.
LEMMA JoinTwo ==
  ASSUME NEW S, NEW a \in S, NEW b \in S
  PROVE  Len(<<a>> \o <<b>>) = 2 /\ (<<a>> \o <<b>>)[1] = a /\ (<<a>> \o <<b>>)[2] = b
<1>1. PICK u, v : u = <<a>> /\ v = <<b>>
  OBVIOUS
<1>2. u \in Seq(S) /\ v \in Seq(S) /\ Len(u) = 1 /\ Len(v) = 1 /\ u[1] = a /\ v[1] = b
  BY <1>1
<1>3. /\ Len(u \o v) = Len(u) + Len(v)
      /\ \A i \in 1..Len(u) : (u \o v)[i] = u[i]
      /\ \A i \in 1..Len(v) : (u \o v)[Len(u) + i] = v[i]
  <2>1. u \in Seq(S) /\ v \in Seq(S)
    BY <1>2
  <2> QED
    BY <2>1, JoinFacts
<1>4. Len(u \o v) = 2 /\ (u \o v)[1] = u[1] /\ (u \o v)[1 + 1] = v[1]
  BY <1>2, <1>3
<1> QED
  BY <1>1, <1>2, <1>4

\* The loader says no more than two lines in a step.
LEMMA SpeaksFacts ==
  ASSUME IInv, toHost \in Seq(HostLine), wadSize \in Nat, LoaderStep \/ ByteTimeOut
  PROVE  Speaks
<1>1. PICK said : LoaderSays(said)
  BY LoaderLines
<1>2. toHost' = toHost \o said /\ said \in Seq(HostLine)
  BY <1>1 DEF LoaderSays
<1>3. PICK n \in Nat, s \in Nat : n = Len(toHost) /\ s = Len(said)
  BY <1>2
<1>4. /\ toHost' \in Seq(HostLine) /\ Len(toHost') = n + s
      /\ \A i \in 1..n : toHost'[i] = toHost[i]
      /\ \A i \in 1..s : toHost'[n + i] = said[i]
  BY <1>2, <1>3, JoinFacts
<1>5. SUFFICES /\ \A i \in 1..s : SaidBy(said[i])
               /\ \A i, m \in 1..s : i < m => said[m] = Line("GO") /\ pc' = "app" /\ Dull(said[i]) /\ Dull(said[m])
  <2>1. \A i \in n + 1..n + s : i - n \in 1..s /\ toHost'[i] = said[i - n]
    <3>1. \A i \in n + 1..n + s : i - n \in 1..s /\ n + (i - n) = i
      BY <1>3
    <3> QED
      BY <1>4, <3>1
  <2>2. \A i, m \in n + 1..n + s : i < m => i - n < m - n
    BY <1>3
  <2>3. \A i \in n + 1..n + s : SaidBy(toHost'[i])
    BY <1>5, <2>1
  <2>4. \A i, m \in n + 1..n + s :
          i < m => toHost'[m] = Line("GO") /\ pc' = "app" /\ Dull(toHost'[i]) /\ Dull(toHost'[m])
    BY <1>5, <2>1, <2>2
  <2>5. n <= n + s
    BY <1>3
  <2> QED
    BY <1>3, <1>4, <2>3, <2>4, <2>5 DEF Speaks
<1>6. CASE said = <<>>
  <2>1. s = 0
    BY <1>3, <1>6
  <2> QED
    BY <2>1
<1>7. CASE \E line \in HostLine : said = <<line>> /\ SaidBy(line)
  <2>1. s = 1 /\ SaidBy(said[1])
    BY <1>3, <1>7
  <2> QED
    BY <2>1
<1>8. CASE /\ said = <<Line("OK")>> \o <<Line("GO")>>
           /\ SaidBy(Line("OK")) /\ SaidBy(Line("GO"))
  <2>1. PICK a, b : a = Line("OK") /\ b = Line("GO")
    OBVIOUS
  <2>2. /\ a \in HostLine /\ b \in HostLine /\ a.of = "OK" /\ b.of = "GO"
    BY <2>1, NameFacts
  <2>3. <<a>> \in Seq(HostLine) /\ <<b>> \in Seq(HostLine) /\ Len(<<a>>) = 1 /\ Len(<<b>>) = 1
    BY <2>2
  <2>4. Len(said) = 2 /\ said[1] = a /\ said[1 + 1] = b
    <3>1. said = <<a>> \o <<b>>
      BY <1>8, <2>1
    <3> QED
      BY <2>2, <3>1, JoinTwo
  <2>5. SaidBy(a) /\ SaidBy(b)
    BY <1>8, <2>1
  <2>6. pc' = "app"
    BY <2>2, <2>5 DEF SaidBy
  <2>7. s = 2 /\ Dull(said[1]) /\ Dull(said[2]) /\ said[2] = b
    BY <1>3, <2>2, <2>4 DEF Dull
  <2> QED
    BY <2>1, <2>4, <2>5, <2>6, <2>7
<1> QED
  BY <1>1, <1>6, <1>7, <1>8 DEF LoaderSays

\* The lines when one or none has been taken.
Drops(d) ==
  /\ d \in {0, 1} /\ Len(toHost) \in Nat /\ Len(toHost') \in Nat /\ Len(toHost) = Len(toHost') + d
  /\ \A i \in 1..Len(toHost') : toHost'[i] = toHost[i + d]
  /\ d = 1 => Head(toHost) = toHost[1]

\* The uploader takes no line, or the oldest one.
LEMMA DropFacts ==
  ASSUME toHost \in Seq(HostLine)
  PROVE  /\ UNCHANGED toHost => Drops(0)
         /\ TakesLine => Drops(1)
<1>1. CASE UNCHANGED toHost
  BY <1>1 DEF Drops, TakesLine
<1>2. CASE TakesLine
  <2>1. /\ Head(toHost) = toHost[1] /\ Len(toHost) \in Nat \ {0} /\ Len(toHost') = Len(toHost) - 1
        /\ \A i \in 1..Len(toHost) - 1 : toHost'[i] = toHost[i + 1]
    BY <1>2, RestFacts DEF TakesLine
  <2>2. Drops(1)
    BY <2>1 DEF Drops
  <2> QED
    BY <1>2, <2>2 DEF TakesLine
<1> QED
  BY <1>1, <1>2

\* What is said of the board alone.
LEMMA BoardFacts ==
  ASSUME UNCHANGED <<job, loaderVars>>
  PROVE  /\ \A w : HoldsAll(w)' = HoldsAll(w)
         /\ \A k : /\ Held(k)' = Held(k) /\ Whole(k)' = Whole(k) /\ OfKind(k)' = OfKind(k)
                   /\ \A i : Kept(k, i)' = Kept(k, i)
         /\ InUpload' = InUpload /\ Past' = Past /\ pc' = pc
<1>1. /\ UNCHANGED <<pc, command, app, wad, loadedSize, handoff, offset, expectedSize, expectedCrc, job>>
  BY DEF loaderVars
<1>2. Runnable' = Runnable /\ Published' = Published /\ IsWad' = IsWad
  BY <1>1 DEF Runnable, Published, Content, IsWad
<1>3. \A k : Mem(k)' = Mem(k)
  BY <1>1 DEF Mem
<1>4. \A w : HoldsAll(w)' = HoldsAll(w)
  BY <1>1, <1>2 DEF HoldsAll
<1>5. \A k : Held(k)' = Held(k)
  BY <1>1, <1>2 DEF Held
<1>6. \A k : OfKind(k)' = OfKind(k)
  BY <1>2 DEF OfKind
<1>7. \A k, i : Kept(k, i)' = Kept(k, i)
  BY <1>1, <1>3 DEF Kept
<1>8. ASSUME NEW k PROVE Whole(k)' = Whole(k)
  BY <1>1, <1>3, <1>5, <1>6 DEF Whole, Content
<1> QED
  BY <1>1, <1>4, <1>5, <1>6, <1>7, <1>8 DEF InUpload, Past

-----------------------------------------------------------------------------
\* Nothing happens to a promise when a line is passed over or lost, a token is
\* read by the application, or the faults are elsewhere.
Passes ==
  /\ rx \in Seq(Token) /\ toHost \in Seq(HostLine) /\ faults \in Nat /\ faults' \in Nat
  /\ UNCHANGED toHost \/ TakesLine
  /\ UNCHANGED <<job, loaderVars>>
  /\ rx' = rx \/ (pc = "app" /\ Receive)
  /\ faults <= faults'

\* There are no lines that there were not.
LEMMA PassingLines ==
  ASSUME Passes
  PROVE  /\ AllDull => AllDull'
         /\ Calm => Calm'
         /\ OneAnswer => OneAnswer'
         /\ \A line : Hears(line)' => Hears(line)
         /\ rx = <<>> => rx' = <<>>
<1>1. PICK d : Drops(d)
  BY DropFacts DEF Passes
<1>2. /\ d \in {0, 1} /\ Len(toHost) \in Nat /\ Len(toHost') \in Nat /\ Len(toHost) = Len(toHost') + d
      /\ \A i \in 1..Len(toHost') : toHost'[i] = toHost[i + d] /\ i + d \in 1..Len(toHost)
  <2>1. \A i \in 1..Len(toHost') : i + d \in 1..Len(toHost)
    BY <1>1 DEF Drops
  <2> QED
    BY <1>1, <2>1 DEF Drops
<1>3. AllDull => AllDull'
  BY <1>2 DEF AllDull, Dull
<1>4. rx = <<>> => rx' = <<>>
  BY DEF Passes, Receive
<1>5. rx \in Seq(Token) /\ (rx' = rx \/ (Len(rx) \in Nat \ {0} /\ Len(rx') = Len(rx) - 1))
  BY RestFacts DEF Passes, Receive
<1>6. Len(rx) <= 1 => Len(rx') <= 1 /\ (rx' # <<>> => rx # <<>>)
  BY <1>4, <1>5
<1>7. ASSUME OneAnswer PROVE OneAnswer'
  <2>1. ASSUME NEW i \in 1..Len(toHost'), NEW m \in 1..Len(toHost'), ~Dull(toHost'[i]), ~Dull(toHost'[m])
        PROVE  i = m
    <3>1. ~Dull(toHost[i + d]) /\ ~Dull(toHost[m + d]) /\ i + d \in 1..Len(toHost) /\ m + d \in 1..Len(toHost)
      BY <1>2, <2>1
    <3>2. i + d = m + d
      BY <1>7, <3>1 DEF OneAnswer
    <3> QED
      BY <1>2, <3>2
  <2>2. Len(rx') <= 1 /\ (rx' # <<>> => AllDull')
    BY <1>3, <1>6, <1>7 DEF OneAnswer
  <2>3. \A i, m \in 1..Len(toHost') : ~Dull(toHost'[i]) /\ ~Dull(toHost'[m]) => i = m
    BY <2>1
  <2> QED
    BY <2>2, <2>3 DEF OneAnswer, Dull
<1>8. \A line : Hears(line)' => Hears(line)
  BY <1>2 DEF Hears
<1> QED
  BY <1>3, <1>4, <1>7, <1>8 DEF Calm

\* Only finitely much can be garbled.
LEMMA GarbledFacts ==
  ASSUME NEW k, NEW sent \in Int
  PROVE  IsFiniteSet(Garbled(k, sent)) /\ Cardinality(Garbled(k, sent)) \in Nat
<1>1. IsFiniteSet(-2..sent) /\ Garbled(k, sent) \subseteq -2..sent
  <2>1. -2 \in Int
    OBVIOUS
  <2> QED
    BY <2>1, FS_Interval DEF Garbled
<1>2. IsFiniteSet(Garbled(k, sent))
  BY <1>1, FS_Subset
<1> QED
  BY <1>2, FS_CardinalityType

\* An upload goes on as if nothing had happened.
LEMMA PassingUpload ==
  ASSUME Passes, NEW k \in Kind, NEW sent \in Int, NEW done \in BOOLEAN, Delivering(k, sent, done)
  PROVE  Delivering(k, sent, done)'
<1>1. /\ UNCHANGED <<job, loaderVars>> /\ rx \in Seq(Token) /\ faults \in Nat /\ faults' \in Nat
      /\ faults <= faults' /\ (rx' = rx \/ (pc = "app" /\ Receive))
  BY DEF Passes
<1>2. /\ Past' = Past /\ InUpload' = InUpload /\ OfKind(k)' = OfKind(k) /\ Held(k)' = Held(k)
      /\ Whole(k)' = Whole(k) /\ pc' = pc /\ (\A i : Kept(k, i)' = Kept(k, i)) /\ \A w : HoldsAll(w)' = HoldsAll(w)
  BY <1>1, BoardFacts
<1>3. \A i : Stream(job, k, i)' = Stream(job, k, i)
  BY <1>1
<1>4. InStepWith(k, sent)'
  <2>1. CASE rx' = rx
    <3>1. \A i : Delivered(k, i)' = Delivered(k, i)
      BY <1>2, <2>1 DEF Delivered
    <3>2. Garbled(k, sent)' = Garbled(k, sent)
      BY <1>3, <3>1 DEF Garbled
    <3>3. Cardinality(Garbled(k, sent)) <= faults => Cardinality(Garbled(k, sent)) <= faults'
      BY <1>1, GarbledFacts
    <3> QED
      BY <1>2, <2>1, <3>2, <3>3 DEF InStepWith, Delivering
  <2>2. CASE pc = "app" /\ Receive
    <3>1. Past = -3 /\ ~InUpload'
      BY <1>2, <2>2 DEF Past, InUpload
    <3>2. Len(rx) \in Nat \ {0} /\ Len(rx') = Len(rx) - 1
      BY <1>1, <2>2, RestFacts DEF Receive
    <3>3. Past' + Len(rx') <= sent
      BY <1>2, <3>1, <3>2 DEF InStepWith, Delivering
    <3> QED
      BY <3>1, <3>3 DEF InStepWith
  <2> QED
    BY <1>1, <2>1, <2>2
<1>5. Taken(k, sent, done)'
  <2>1. Answered(k, done)' => Answered(k, done)
    <3>1. Hears(Acked(job, k))' => Hears(Acked(job, k))
      <4>1. Hears(Acked(job, k))' <=> \E i \in 1..Len(toHost') : toHost'[i] = Acked(job, k)
        BY <1>1 DEF Hears
      <4>2. PICK line : line = Acked(job, k)
        OBVIOUS
      <4>3. Hears(line)' => Hears(line)
        BY PassingLines
      <4> QED
        BY <4>1, <4>2, <4>3 DEF Hears
    <3> QED
      BY <3>1 DEF Answered
  <2>2. rx = <<>> => rx' = <<>>
    BY PassingLines
  <2> QED
    BY <1>1, <1>2, <2>1, <2>2 DEF Taken, Delivering
<1>6. OkIsTrue(k, done)'
  <2>1. PICK d : Drops(d)
    BY DropFacts DEF Passes
  <2>2. /\ d \in {0, 1} /\ Len(toHost) \in Nat /\ Len(toHost') \in Nat /\ Len(toHost) = Len(toHost') + d
        /\ \A i \in 1..Len(toHost') : toHost'[i] = toHost[i + d]
    BY <2>1 DEF Drops
  <2>3. PICK okay, acked : okay = Okay(k) /\ acked = Acked(job, k)
    OBVIOUS
  <2>4. ASSUME NEW m \in 1..Len(toHost'), toHost'[m] = okay,
               done \/ \E i \in 1..m - 1 : toHost'[i] = acked
        PROVE  HoldsAll(Named(k, Absent, job.wad)) /\ \A n \in m + 1..Len(toHost') : toHost'[n] = Line("GO") /\ pc = "app"
    <3>1. m + d \in 1..Len(toHost) /\ toHost[m + d] = okay
      BY <2>2, <2>4
    <3>2. done \/ \E i \in 1..(m + d) - 1 : toHost[i] = acked
      <4>1. ASSUME NEW i \in 1..m - 1, toHost'[i] = acked
            PROVE  \E n \in 1..(m + d) - 1 : toHost[n] = acked
        <5>1. i \in 1..Len(toHost') /\ i + d \in 1..(m + d) - 1
          BY <2>2
        <5>2. toHost[i + d] = acked
          BY <2>2, <4>1, <5>1
        <5> QED
          BY <5>1, <5>2
      <4> QED
        BY <2>4, <4>1
    <3>3. HoldsAll(Named(k, Absent, job.wad)) /\ OnlyGo(m + d)
      BY <2>3, <3>1, <3>2, Zenon DEF OkIsTrue, Delivering
    <3>4. ASSUME NEW n \in m + 1..Len(toHost') PROVE toHost'[n] = Line("GO") /\ pc = "app"
      <4>1. n \in 1..Len(toHost') /\ n + d \in (m + d) + 1..Len(toHost)
        BY <2>2
      <4>2. toHost'[n] = toHost[n + d]
        BY <2>2, <4>1
      <4> QED
        BY <3>3, <4>1, <4>2 DEF OnlyGo
    <3> QED
      BY <3>3, <3>4
  <2>5. PICK w : w = Named(k, Absent, job.wad)
    OBVIOUS
  <2>6. w = Named(k, Absent, job.wad)' /\ acked = Acked(job, k)' /\ okay = Okay(k)' /\ HoldsAll(w)' = HoldsAll(w)
    BY <1>1, <1>2, <2>3, <2>5
  <2> QED
    BY <1>2, <2>4, <2>5, <2>6 DEF OkIsTrue, OnlyGo
<1> QED
  BY <1>4, <1>5, <1>6 DEF Delivering

\* Where the script is within an upload.
LEMMA UploadPlace ==
  ASSUME NEW j \in Job, NEW t, NEW p \in Kind, NEW fast, NEW r, Place(j, t, p, fast, r)
  PROVE  /\ r \in Nat /\ (r = 1 \/ r = 2 \/ (r >= 3 /\ r # 1 /\ r # 2))
         /\ fast \in BOOLEAN /\ (p = "wad" => j.wad # Absent)
         /\ r \in 1..LastStep(j, p, fast) /\ Len(Steps(j, p, fast)) = LastStep(j, p, fast)
         /\ UploadStep(j, p, fast, LastStep(j, p, fast), r, Steps(j, p, fast)[r])
         /\ r >= 3 => SentAt(j, p, fast, r) \in Int
<1>1. /\ fast \in BOOLEAN /\ HasPart(j, p) /\ r \in 1..Len(Steps(j, p, fast))
  BY DEF Place
<1>2. p = "wad" => j.wad # Absent
  BY <1>1 DEF HasPart
<1>3. Steps(j, p, fast) = Uploading(j, p, fast)
  BY DEF Steps, Kind
<1>4. Len(Uploading(j, p, fast)) = LastStep(j, p, fast)
  BY <1>1, <1>2, UploadParts
<1>5. r \in 1..LastStep(j, p, fast)
  BY <1>1, <1>3, <1>4
<1>6. UploadStep(j, p, fast, LastStep(j, p, fast), r, Uploading(j, p, fast)[r])
  BY <1>1, <1>2, <1>5, UploadStepFacts
<1>7. LastStep(j, p, fast) \in Nat /\ (r >= 3 => SentAt(j, p, fast, r) \in -3..Total(j, p))
  BY <1>6 DEF UploadStep
<1>8. Total(j, p) \in Nat
  BY <1>2, FileFacts
<1>9. r \in Nat /\ (r = 1 \/ r = 2 \/ (r >= 3 /\ r # 1 /\ r # 2))
  BY <1>5, <1>7
<1>10. r >= 3 => SentAt(j, p, fast, r) \in Int
  BY <1>7, <1>8
<1> QED
  BY <1>1, <1>2, <1>3, <1>4, <1>5, <1>6, <1>9, <1>10

\* What is promised remains so while the script stays where it is.
LEMMA PassingPromise ==
  ASSUME Passes, job \in Job, NEW p, NEW fast, NEW r, At(p, fast, r), Promised(p, fast, r)
  PROVE  Promised(p, fast, r)'
<1>1. /\ UNCHANGED <<job, loaderVars>> /\ rx \in Seq(Token)
      /\ (rx' = rx \/ (pc = "app" /\ Receive))
  BY DEF Passes
<1>2. /\ pc' = pc /\ (\A k : OfKind(k)' = OfKind(k) /\ Held(k)' = Held(k)) /\ \A w : HoldsAll(w)' = HoldsAll(w)
  BY <1>1, BoardFacts
<1>3. /\ Calm => Calm'
      /\ OneAnswer => OneAnswer'
      /\ \A line : Hears(line)' => Hears(line)
      /\ rx = <<>> => rx' = <<>>
  BY PassingLines
<1>4. CASE p = "ask"
  BY <1>3, <1>4 DEF Promised, Kind
<1>5. CASE p \in Kind /\ r = 1
  BY <1>2, <1>3, <1>5 DEF Promised, Kind
<1>6. CASE p \in Kind /\ r = 2
  <2>1. Asked(p)
    BY <1>6 DEF Promised
  <2>2. PICK ready : ready = Ready(p)
    OBVIOUS
  <2>3. Hears(ready)' => Hears(ready)
    BY <1>3
  <2>4. Asked(p)'
    BY <1>2, <1>3, <2>1, <2>2, <2>3 DEF Asked
  <2> QED
    BY <1>6, <2>4 DEF Promised, Kind
<1>7. CASE p \in Kind /\ r >= 3 /\ r # 1 /\ r # 2
  <2>1. PICK sent, done : sent = SentAt(job, p, fast, r) /\ done = (r = LastStep(job, p, fast))
    OBVIOUS
  <2>2. Delivering(p, sent, done)
    BY <1>7, <2>1 DEF Promised
  <2>3. sent \in Int /\ done \in BOOLEAN
    BY <1>7, <2>1, UploadPlace DEF At
  <2>4. Delivering(p, sent, done)'
    BY <1>7, <2>2, <2>3, PassingUpload
  <2>5. sent = SentAt(job', p, fast, r) /\ done = (r = LastStep(job', p, fast))
    BY <1>1, <2>1
  <2>6. Delivering(p, SentAt(job, p, fast, r), r = LastStep(job, p, fast))'
    BY <2>4, <2>5
  <2> QED
    BY <1>7, <2>6 DEF Promised, Kind
<1>8. CASE p \in {"info", "end"}
  <2>1. PICK waits : waits = (r = Len(Steps(job, p, fast)))
    OBVIOUS
  <2>2. Queried(waits)
    BY <1>8, <2>1 DEF Promised
  <2>3. PICK w : w = job.wad
    OBVIOUS
  <2>4. HoldsAll(w)' = HoldsAll(w)
    BY <1>2
  <2>5. SaysSo => SaysSo'
    <3>1. PICK d : Drops(d)
      BY DropFacts DEF Passes
    <3>2. \A i \in 1..Len(toHost') : toHost'[i] = toHost[i + d] /\ i + d \in 1..Len(toHost)
      BY <3>1 DEF Drops
    <3> QED
      BY <1>1, <1>2, <2>3, <2>4, <3>2 DEF SaysSo
  <2>6. Queried(waits)'
    BY <1>1, <1>2, <1>3, <2>2, <2>3, <2>4, <2>5 DEF Queried
  <2>7. waits = (r = Len(Steps(job', p, fast)))
    BY <1>1, <2>1
  <2> QED
    BY <1>8, <2>6, <2>7 DEF Promised, Kind
<1>9. p \in ScriptPart /\ (p \in Kind => r = 1 \/ r = 2 \/ (r >= 3 /\ r # 1 /\ r # 2))
  BY UploadPlace DEF At, Place
<1> QED
  BY <1>4, <1>5, <1>6, <1>7, <1>8, <1>9 DEF ScriptPart, Kind

-----------------------------------------------------------------------------
\* How the loader proceeds: the header and the payload in their order, a token
\* at a time, and never further than what has arrived.
Proceeds ==
  /\ Past \in Int /\ Past' \in Int /\ Past >= -3
  /\ Past' + Len(rx') <= Past + Len(rx)
  /\ InUpload' /\ Past' + Len(rx') = Past + Len(rx) =>
       /\ InUpload /\ Past' = Past + 1 /\ UNCHANGED <<command, loadedSize>> /\ (IsWad => UNCHANGED app)
       /\ Receive
       /\ \A k \in Kind : OfKind(k) =>
            /\ \A i \in -2..Past : Kept(k, i)' = Kept(k, i)
            /\ \A i \in Int : i = Past + 1 => Kept(k, i)' = Received

\* What the loader's steps have in common.
LEMMA MoveFacts ==
  ASSUME LoaderTypeOK, LoaderStep \/ ByteTimeOut
  PROVE  /\ pc # "app" /\ Len(rx) \in Nat /\ Len(rx') \in Nat
         /\ Receive => rx # <<>> /\ Len(rx) # 0 /\ Len(rx') = Len(rx) - 1 /\ (Len(rx) <= 1 => rx' = <<>>)
         /\ pc = "idle" => Receive /\ pc' \in {"idle", "magic", "app"}
         /\ ~Receive => /\ rx' = rx
                        /\ pc \in {"magic", "size", "crc", "data"} => pc' = "idle" /\ ByteTimeOut
                        /\ pc = "publish" => PublishWad
                        /\ pc = "verify" => VerifyApp \/ VerifyWad
                        /\ pc' \in {"idle", "app", "publish"}
<1>1. pc # "app"
  BY LoaderAwake
<1>2. Len(rx) \in Nat
  BY DEF LoaderTypeOK
<1>3. Receive => rx # <<>> /\ Len(rx) # 0 /\ Len(rx') \in Nat /\ Len(rx') = Len(rx) - 1 /\ (Len(rx) <= 1 => rx' = <<>>)
  <2> SUFFICES ASSUME Receive PROVE rx # <<>> /\ Len(rx) # 0 /\ Len(rx') \in Nat /\ Len(rx') = Len(rx) - 1 /\ (Len(rx) <= 1 => rx' = <<>>)
    OBVIOUS
  <2>1. rx # <<>> /\ rx' = Tail(rx)
    BY DEF Receive
  <2>2. Len(rx) \in Nat \ {0} /\ rx' \in Seq(Token) /\ Len(rx') = Len(rx) - 1
    BY <2>1, RestFacts DEF LoaderTypeOK
  <2> QED
    BY <2>1, <2>2
<1>4. pc = "idle" => Receive /\ pc' \in {"idle", "magic", "app"}
  BY DEF LoaderStep, ByteTimeOut, MemoryReady, VerifyApp, VerifyWad, PublishWad, BeginUpload, BeginWad,
     GoCommand, OtherCommand, ReadMagic, ReadSize, ReadCrc, ReadData, Fail, BackToIdle, Run, loaderVars
<1>5. ~Receive => /\ rx' = rx
                  /\ pc \in {"magic", "size", "crc", "data"} => pc' = "idle" /\ ByteTimeOut
                  /\ pc = "publish" => PublishWad
                  /\ pc = "verify" => VerifyApp \/ VerifyWad
                  /\ pc' \in {"idle", "app", "publish"}
  BY DEF LoaderStep, ByteTimeOut, MemoryReady, VerifyApp, VerifyWad, PublishWad, BeginUpload, BeginWad,
     GoCommand, OtherCommand, ReadMagic, ReadSize, ReadCrc, ReadData, Fail, BackToIdle, Run, lineVars
<1> QED
  BY <1>1, <1>2, <1>3, <1>4, <1>5

\* Where the transfer stands is a number.
LEMMA PastFacts ==
  ASSUME LoaderTypeOK
  PROVE  /\ Past \in Int /\ Past >= -3
         /\ ~InUpload => Past = -3
         /\ pc = "magic" => Past = -3
BY DEF Past, InUpload, LoaderTypeOK

\* The loader, in an upload, moves on by one token of the stream per byte, verifies
\* when it has them all, and otherwise falls back to idle.
LEMMA LoaderProceeds ==
  ASSUME IInv, LoaderTypeOK', LoaderStep \/ ByteTimeOut
  PROVE  Proceeds
<1>0. /\ LoaderTypeOK /\ TransferIsBounded /\ AppMax \in Nat /\ WadMax \in Nat
      /\ LegalSizes = IF IsWad THEN 3..WadMax ELSE 1..AppMax
  BY SizeFacts DEF IInv
<1>1. /\ Past \in Int /\ Past >= -3 /\ (~InUpload => Past = -3) /\ (pc = "magic" => Past = -3)
  BY <1>0, PastFacts
<1>2. /\ Past' \in Int /\ (~InUpload' => Past' = -3) /\ (pc' = "magic" => Past' = -3)
  BY PastFacts DEF Past, InUpload, LoaderTypeOK
<1>3. /\ pc # "app" /\ Len(rx) \in Nat /\ Len(rx') \in Nat
      /\ Receive => Len(rx') = Len(rx) - 1
      /\ ~Receive => rx' = rx /\ pc' \in {"idle", "app", "publish"}
      /\ pc = "idle" => Receive /\ pc' \in {"idle", "magic", "app"}
  BY <1>0, MoveFacts
<1>4. CASE ~Receive \/ pc = "idle" \/ (Receive /\ pc' = "idle")
  <2>1. Past' = -3
    BY <1>2, <1>3, <1>4 DEF InUpload
  <2>2. Past' + Len(rx') <= Past + Len(rx)
    BY <1>1, <1>3, <2>1
  <2>3. ~InUpload' \/ Past' + Len(rx') # Past + Len(rx)
    BY <1>1, <1>3, <1>4, <2>1 DEF InUpload
  <2> QED
    BY <1>1, <1>2, <2>2, <2>3 DEF Proceeds
<1>5. CASE ReadMagic /\ pc' # "idle"
  <2>1. /\ pc = "magic" /\ Receive /\ pc' = "size" /\ Received = Of(AppMagic, WadMagic)
        /\ UNCHANGED <<command, loadedSize, app>>
    BY <1>5 DEF ReadMagic, Fail, BackToIdle
  <2>2. Past = -3 /\ Past' = -2
    BY <2>1 DEF Past
  <2>3. \A k \in Kind : OfKind(k) => Kept(k, -2)' = Received
    BY <2>1 DEF Kind, OfKind, Of, Kept, MagicOf, Named
  <2>4. \A i \in -2..Past : FALSE
    BY <2>2
  <2>5. ASSUME NEW k \in Kind, OfKind(k)
        PROVE  /\ \A i \in -2..Past : Kept(k, i)' = Kept(k, i)
               /\ \A i \in Int : i = Past + 1 => Kept(k, i)' = Received
    BY <2>2, <2>3, <2>4, <2>5
  <2> QED
    BY <1>1, <1>2, <1>3, <2>1, <2>2, <2>5 DEF Proceeds, InUpload
<1>6. CASE ReadSize
  <2>1. /\ pc = "size" /\ Receive /\ pc' = "crc" /\ expectedSize' = Received
        /\ UNCHANGED <<command, loadedSize, app>>
    BY <1>6 DEF ReadSize
  <2>2. Past = -2 /\ Past' = -1
    BY <2>1 DEF Past
  <2>3. \A k \in Kind : Kept(k, -2)' = Kept(k, -2) /\ Kept(k, -1)' = Received
    BY <2>1 DEF Kept, MagicOf, Named
  <2>4. \A i \in -2..Past : i = -2
    BY <2>2
  <2>5. ASSUME NEW k \in Kind, OfKind(k)
        PROVE  /\ \A i \in -2..Past : Kept(k, i)' = Kept(k, i)
               /\ \A i \in Int : i = Past + 1 => Kept(k, i)' = Received
    BY <2>2, <2>3, <2>4
  <2> QED
    BY <1>1, <1>2, <1>3, <2>1, <2>2, <2>5 DEF Proceeds, InUpload
<1>7. CASE ReadCrc /\ pc' # "idle"
  <2>1. /\ pc = "crc" /\ Receive /\ pc' = "data" /\ expectedCrc' = Received
        /\ UNCHANGED <<command, loadedSize, app, offset, expectedSize>> /\ offset = 0
    BY <1>0, <1>7 DEF ReadCrc, Fail, BackToIdle, TransferIsBounded
  <2>2. Past = -1 /\ Past' = 0
    BY <2>1 DEF Past
  <2>3. \A k \in Kind : Kept(k, -2)' = Kept(k, -2) /\ Kept(k, -1)' = Kept(k, -1) /\ Kept(k, 0)' = Received
    BY <2>1 DEF Kept, MagicOf, Named
  <2>4. \A i \in -2..Past : i = -2 \/ i = -1
    BY <2>2
  <2>5. ASSUME NEW k \in Kind, OfKind(k)
        PROVE  /\ \A i \in -2..Past : Kept(k, i)' = Kept(k, i)
               /\ \A i \in Int : i = Past + 1 => Kept(k, i)' = Received
    BY <2>2, <2>3, <2>4
  <2> QED
    BY <1>1, <1>2, <1>3, <2>1, <2>2, <2>5 DEF Proceeds, InUpload
<1>8. CASE ReadData
  <2>1. /\ pc = "data" /\ Receive /\ pc' \in {"verify", "data"} /\ offset' = offset + 1
        /\ UNCHANGED <<command, loadedSize, expectedSize, expectedCrc>>
        /\ IF IsWad THEN wad' = [wad EXCEPT ![offset + 1] = Received] /\ UNCHANGED app
           ELSE app' = [app EXCEPT ![offset + 1] = Received] /\ UNCHANGED wad
        /\ offset \in Nat
    BY <1>0, <1>8 DEF ReadData, LoaderTypeOK
  <2>2. offset < expectedSize /\ expectedSize \in (IF IsWad THEN 3..WadMax ELSE 1..AppMax)
    BY <1>0, <2>1 DEF TransferIsBounded
  <2>3. Past = offset /\ Past' \in {offset + 1, -3}
    BY <2>1 DEF Past
  <2>4. CASE pc' = "verify"
    <3>1. Past' = -3 /\ ~InUpload'
      BY <2>4 DEF Past, InUpload
    <3> QED
      BY <1>1, <1>2, <1>3, <2>1, <2>3, <3>1 DEF Proceeds
  <2>5. CASE pc' = "data"
    <3>1. Past' = offset + 1
      BY <2>1, <2>5 DEF Past
    <3>2. ASSUME NEW k \in Kind, OfKind(k)
          PROVE  /\ \A i \in -2..Past : Kept(k, i)' = Kept(k, i)
                 /\ \A i \in Int : i = Past + 1 => Kept(k, i)' = Received
      <4>1. /\ offset + 1 \in 1..(IF k = "app" THEN AppMax ELSE WadMax)
            /\ Mem(k) \in [1..(IF k = "app" THEN AppMax ELSE WadMax) -> Token]
            /\ Mem(k)' = [Mem(k) EXCEPT ![offset + 1] = Received]
        <5>1. k = "app" \/ k = "wad"
          BY DEF Kind
        <5>2. CASE k = "app"
          <6>1. ~IsWad /\ Mem(k) = app /\ Mem(k)' = app'
            BY <3>2, <5>2 DEF OfKind, Mem, Named
          <6> QED
            BY <1>0, <2>1, <2>2, <5>2, <6>1 DEF LoaderTypeOK
        <5>3. CASE k = "wad"
          <6>1. IsWad /\ Mem(k) = wad /\ Mem(k)' = wad'
            BY <3>2, <5>3 DEF OfKind, Mem, Named
          <6> QED
            BY <1>0, <2>1, <2>2, <5>3, <6>1 DEF LoaderTypeOK
        <5> QED
          BY <5>1, <5>2, <5>3
      <4>2. Mem(k)'[offset + 1] = Received /\ \A i \in 1..offset : Mem(k)'[i] = Mem(k)[i]
        BY <2>1, <4>1
      <4>3. ASSUME NEW i \in -2..Past PROVE Kept(k, i)' = Kept(k, i)
        <5>1. i = -2 \/ i = -1 \/ i = 0 \/ i \in 1..offset
          BY <2>1, <2>3
        <5> QED
          BY <2>1, <4>2, <5>1 DEF Kept, MagicOf, Named
      <4>4. ASSUME NEW i \in Int, i = Past + 1 PROVE Kept(k, i)' = Received
        <5>1. i = offset + 1 /\ i # -2 /\ i # -1 /\ i # 0
          BY <2>1, <2>3, <4>4
        <5>2. Kept(k, i)' = Mem(k)'[i]
          BY <5>1 DEF Kept
        <5> QED
          BY <4>2, <5>1, <5>2
      <4> QED
        BY <4>3, <4>4
    <3> QED
      BY <1>1, <1>2, <1>3, <2>1, <2>3, <2>5, <3>1, <3>2 DEF Proceeds, InUpload
  <2> QED
    BY <2>1, <2>4, <2>5
<1> QED
  BY <1>3, <1>4, <1>5, <1>6, <1>7, <1>8 DEF LoaderStep, ByteTimeOut, MemoryReady, VerifyApp, VerifyWad,
     PublishWad, BeginUpload, BeginWad, GoCommand, OtherCommand, ReadMagic, ReadCrc

-----------------------------------------------------------------------------
\* A token is answered by a line at most, and lines that answer nothing are dull.
LEMMA AnswersKept ==
  ASSUME LoaderTypeOK, Speaks, LoaderStep \/ ByteTimeOut
  PROVE  /\ Calm => Calm' /\ ~Receive
         /\ OneAnswer => OneAnswer' /\ (rx' # <<>> => ~Receive) /\ (Receive => AllDull)
         /\ ~Receive => \A i \in Len(toHost) + 1..Len(toHost') : Dull(toHost'[i])
<1>1. /\ Len(toHost) \in Nat /\ Len(toHost') \in Nat /\ Len(toHost) <= Len(toHost')
      /\ \A i \in 1..Len(toHost) : toHost'[i] = toHost[i]
      /\ \A i \in Len(toHost) + 1..Len(toHost') : SaidBy(toHost'[i])
      /\ \A i, m \in Len(toHost) + 1..Len(toHost') :
           i < m => Dull(toHost'[i]) /\ Dull(toHost'[m])
  BY DEF Speaks
<1>2. /\ Len(rx) \in Nat /\ Len(rx') \in Nat
      /\ Receive => rx # <<>> /\ Len(rx) # 0 /\ (Len(rx) <= 1 => rx' = <<>>)
      /\ ~Receive => rx' = rx
      /\ rx # <<>> => Len(rx) # 0
      /\ Len(<<>>) = 0
  BY MoveFacts DEF LoaderTypeOK
<1>3. ~Receive => \A i \in Len(toHost) + 1..Len(toHost') : Dull(toHost'[i])
  BY <1>1 DEF SaidBy
<1>4. \A i \in 1..Len(toHost') : i \in 1..Len(toHost) \/ i \in Len(toHost) + 1..Len(toHost')
  BY <1>1
<1>5. ~Receive /\ AllDull => AllDull'
  BY <1>1, <1>3, <1>4 DEF AllDull, Dull
<1>6. Calm => Calm' /\ ~Receive
  BY <1>2, <1>5 DEF Calm
<1>7. ASSUME OneAnswer PROVE OneAnswer' /\ (rx' # <<>> => ~Receive) /\ (Receive => AllDull)
  <2>1. Len(rx) <= 1 /\ (rx # <<>> => AllDull)
    BY <1>7 DEF OneAnswer
  <2>2. CASE Receive
    <3>1. AllDull /\ rx' = <<>>
      BY <1>2, <2>1, <2>2
    <3>2. ASSUME NEW i \in 1..Len(toHost'), NEW m \in 1..Len(toHost'), ~Dull(toHost'[i]), ~Dull(toHost'[m])
          PROVE  i = m
      <4>1. i \in Len(toHost) + 1..Len(toHost') /\ m \in Len(toHost) + 1..Len(toHost')
        BY <1>1, <1>4, <3>1, <3>2 DEF AllDull
      <4>2. ~(i < m) /\ ~(m < i)
        BY <1>1, <3>2, <4>1
      <4> QED
        BY <1>1, <4>1, <4>2
    <3>3. \A i, m \in 1..Len(toHost') : ~Dull(toHost'[i]) /\ ~Dull(toHost'[m]) => i = m
      BY <3>2
    <3> QED
      BY <1>2, <3>1, <3>3 DEF OneAnswer, Dull
  <2>3. CASE ~Receive
    <3>1. ASSUME NEW i \in 1..Len(toHost'), NEW m \in 1..Len(toHost'), ~Dull(toHost'[i]), ~Dull(toHost'[m])
          PROVE  i = m
      <4>1. i \in 1..Len(toHost) /\ m \in 1..Len(toHost)
        BY <1>3, <1>4, <2>3, <3>1
      <4>2. ~Dull(toHost[i]) /\ ~Dull(toHost[m])
        BY <1>1, <3>1, <4>1
      <4> QED
        BY <1>7, <4>1, <4>2 DEF OneAnswer
    <3>2. \A i, m \in 1..Len(toHost') : ~Dull(toHost'[i]) /\ ~Dull(toHost'[m]) => i = m
      BY <3>1
    <3> QED
      BY <1>2, <1>5, <2>1, <2>3, <3>2 DEF OneAnswer, Dull
  <2> QED
    BY <2>2, <2>3
<1> QED
  BY <1>3, <1>6, <1>7

\* A line that is not dull is the answer that is on its way.
LEMMA LastAnswer ==
  ASSUME OneAnswer, NEW i \in 1..Len(toHost), ~Dull(toHost[i])
  PROVE  rx = <<>>
BY DEF OneAnswer, AllDull

\* The answers to a magic and to a whole payload are never mistaken for others.
LEMMA NotDull ==
  /\ \A k \in Kind : ~Dull(Ready(k)) /\ Ready(k).of = Named(k, "READY", "WAD_READY")
  /\ \A j : \A k \in Kind : ~Dull(Acked(j, k)) /\ Acked(j, k).of = Named(k, "NEXT", "WAD_NEXT") /\ Acked(j, k).n = Total(j, k)
  /\ \A k \in Kind : Dull(Okay(k)) /\ Okay(k).of = Named(k, "OK", "WAD_OK")
<1>1. \A of : Line(of).of = of
  BY NameFacts
<1>2. \A k \in Kind : ~Dull(Ready(k)) /\ Ready(k).of = Named(k, "READY", "WAD_READY")
  BY <1>1 DEF Kind, Ready, Named, Dull
<1>3. \A k \in Kind : Dull(Okay(k)) /\ Okay(k).of = Named(k, "OK", "WAD_OK")
  BY <1>1 DEF Kind, Okay, Named, Dull
<1>4. \A j : \A k \in Kind : ~Dull(Acked(j, k)) /\ Acked(j, k).of = Named(k, "NEXT", "WAD_NEXT") /\ Acked(j, k).n = Total(j, k)
  BY DEF Kind, Acked, Named, Dull
<1> QED
  BY <1>2, <1>3, <1>4

\* While the magic is being answered, whatever the loader does.
LEMMA AskedKept ==
  ASSUME LoaderTypeOK, Speaks, LoaderStep \/ ByteTimeOut, job' = job, NEW k \in Kind, Asked(k)
  PROVE  Asked(k)'
<1>1. /\ OneAnswer /\ (rx # <<>> /\ k = "wad" => HoldsAll(Absent))
      /\ Hears(Ready(k)) => pc \in {"magic", "idle"} /\ (pc = "magic" => OfKind(k) /\ Held(k))
  BY DEF Asked
<1>2. OneAnswer' /\ (rx' # <<>> => ~Receive)
  BY <1>1, AnswersKept
<1>3. /\ pc # "app" /\ (pc = "idle" => Receive) /\ (Receive => rx # <<>>)
      /\ ~Receive => rx' = rx /\ (pc = "magic" => pc' = "idle")
  BY MoveFacts
<1>4. rx' # <<>> /\ k = "wad" => HoldsAll(Absent)'
  BY <1>1, <1>2, <1>3 DEF HoldsAll
<1>5. PICK ready : ready = Ready(k)
  OBVIOUS
<1>6. ~Dull(ready) /\ ready.of = Named(k, "READY", "WAD_READY") /\ ready = Ready(k)'
  BY <1>5, NotDull
<1>7. ASSUME NEW i \in 1..Len(toHost'), toHost'[i] = ready
      PROVE  pc' \in {"magic", "idle"} /\ (pc' = "magic" => OfKind(k)' /\ Held(k)')
  <2>1. CASE i \in 1..Len(toHost)
    <3>1. toHost[i] = ready
      BY <1>7, <2>1 DEF Speaks
    <3>2. rx = <<>> /\ pc \in {"magic", "idle"}
      BY <1>1, <1>5, <1>6, <2>1, <3>1, LastAnswer DEF Hears
    <3> QED
      BY <1>3, <3>2
  <2>2. CASE i \in Len(toHost) + 1..Len(toHost')
    <3>1. SaidBy(ready)
      BY <1>7, <2>2 DEF Speaks
    <3>2. Receive
      BY <1>6, <3>1 DEF SaidBy
    <3>3. CASE k = "app"
      <4>1. pc' = "magic" /\ ~IsWad'
        BY <1>6, <3>1, <3>3 DEF SaidBy, Named
      <4> QED
        BY <3>3, <4>1 DEF OfKind, Held
    <3>4. CASE k = "wad"
      <4>1. BeginWad /\ pc' = "magic" /\ IsWad' /\ loadedSize' = loadedSize
        BY <1>6, <3>1, <3>4 DEF SaidBy, Named
      <4>2. Runnable = job.image
        BY <1>1, <1>3, <3>2, <3>4 DEF HoldsAll
      <4>3. Runnable' = Runnable
        BY <4>1 DEF BeginWad, Runnable, Content
      <4> QED
        BY <3>4, <4>1, <4>2, <4>3 DEF OfKind, Held
    <3> QED
      BY <3>3, <3>4 DEF Kind
  <2> QED
    BY <2>1, <2>2 DEF Speaks
<1>8. Hears(ready)' => pc' \in {"magic", "idle"} /\ (pc' = "magic" => OfKind(k)' /\ Held(k)')
  BY <1>7 DEF Hears
<1> QED
  BY <1>2, <1>4, <1>5, <1>6, <1>8, Zenon DEF Asked

\* While a query is being answered, whatever the loader does.
LEMMA QueriedKept ==
  ASSUME LoaderTypeOK, Speaks, LoaderStep \/ ByteTimeOut, job' = job, NEW waits \in BOOLEAN, Queried(waits)
  PROVE  Queried(waits)'
<1>1. /\ IF waits THEN OneAnswer ELSE Calm
      /\ ~waits \/ rx # <<>> => HoldsAll(job.wad)
      /\ pc \in {"idle", "magic", "app"} /\ SaysSo
  BY DEF Queried
<1>2. /\ Calm => Calm' /\ ~Receive
      /\ OneAnswer => OneAnswer' /\ (rx' # <<>> => ~Receive)
  BY AnswersKept
<1>3. /\ pc # "app" /\ (pc = "idle" => Receive /\ pc' \in {"idle", "magic", "app"}) /\ (Receive => rx # <<>>)
      /\ ~Receive => rx' = rx /\ (pc = "magic" => pc' = "idle")
  BY MoveFacts
<1>4. waits
  BY <1>1, <1>2, <1>3 DEF HoldsAll
<1>5. OneAnswer /\ OneAnswer'
  BY <1>1, <1>2, <1>4
<1>6. rx' = <<>>
  BY <1>1, <1>2, <1>3, <1>5 DEF HoldsAll
<1>7. Receive => pc = "idle" /\ HoldsAll(job.wad)
  BY <1>1, <1>3 DEF HoldsAll
<1>8. pc' \in {"idle", "magic", "app"}
  BY <1>1, <1>3, <1>7
<1>9. ASSUME NEW i \in 1..Len(toHost')
      PROVE  /\ toHost'[i].of = "GO" => pc' = "app" /\ HoldsAll(job.wad)'
             /\ toHost'[i].of \in {"INFO", "WAD_INFO"} => pc' = "idle" /\ HoldsAll(job.wad)'
  <2>1. CASE i \in 1..Len(toHost)
    <3>1. toHost'[i] = toHost[i]
      BY <2>1 DEF Speaks
    <3>2. toHost[i].of # "GO"
      BY <1>1, <1>3, <2>1 DEF SaysSo
    <3>3. toHost[i].of \notin {"INFO", "WAD_INFO"}
      <4>1. ASSUME toHost[i].of \in {"INFO", "WAD_INFO"} PROVE FALSE
        <5>1. ~Dull(toHost[i]) /\ pc = "idle"
          BY <1>1, <2>1, <4>1 DEF SaysSo, Dull
        <5>2. rx = <<>>
          BY <1>5, <2>1, <5>1, LastAnswer
        <5> QED
          BY <1>3, <5>1, <5>2
      <4> QED
        BY <4>1
    <3> QED
      BY <3>1, <3>2, <3>3
  <2>2. CASE i \in Len(toHost) + 1..Len(toHost')
    <3>1. SaidBy(toHost'[i])
      BY <2>2 DEF Speaks
    <3>2. ASSUME toHost'[i].of = "GO" PROVE pc' = "app" /\ HoldsAll(job.wad)'
      <4>1. pc' = "app" /\ (Verifies \/ GoCommand)
        BY <3>1, <3>2 DEF SaidBy
      <4>2. GoCommand
        BY <1>1, <4>1 DEF Verifies, VerifyApp
      <4>3. UNCHANGED <<app, wad, loadedSize, handoff>> /\ Receive
        BY <4>2 DEF GoCommand
      <4>4. HoldsAll(job.wad)
        BY <1>7, <4>3
      <4> QED
        BY <4>1, <4>3, <4>4 DEF HoldsAll, Runnable, Published, Content
    <3>3. ASSUME toHost'[i].of \in {"INFO", "WAD_INFO"} PROVE pc' = "idle" /\ HoldsAll(job.wad)'
      <4>1. pc = "idle" /\ UNCHANGED loaderVars
        BY <3>1, <3>3 DEF SaidBy
      <4>2. HoldsAll(job.wad)
        BY <1>3, <1>7, <4>1
      <4> QED
        BY <4>1, <4>2 DEF loaderVars, HoldsAll, Runnable, Published, Content
    <3> QED
      BY <3>2, <3>3
  <2> QED
    BY <2>1, <2>2 DEF Speaks
<1>10. SaysSo'
  BY <1>9 DEF SaysSo
<1> QED
  BY <1>4, <1>5, <1>6, <1>8, <1>10, Zenon DEF Queried

-----------------------------------------------------------------------------
\* What is delivered stays so when the loader takes it from the queue.
LEMMA InStepKept ==
  ASSUME IInv, LoaderTypeOK', LoaderStep \/ ByteTimeOut, job' = job,
         faults \in Nat, faults' \in Nat, faults <= faults',
         NEW k \in Kind, NEW sent \in Int, InStepWith(k, sent)
  PROVE  InStepWith(k, sent)'
<1>1. Proceeds /\ rx \in Seq(Token) /\ Len(rx) \in Nat /\ Len(rx') \in Nat
  BY LoaderProceeds, MoveFacts DEF IInv, LoaderTypeOK
<1>2. Past' + Len(rx') <= sent
  BY <1>1 DEF Proceeds, InStepWith
<1>3. ASSUME InUpload', OfKind(k)', Past' + Len(rx') = sent
      PROVE  Cardinality(Garbled(k, sent)') <= faults' /\ Held(k)'
  <2>1. Past + Len(rx) <= sent /\ Past \in Int /\ Past' \in Int /\ Past' + Len(rx') <= Past + Len(rx)
    BY <1>1 DEF Proceeds, InStepWith
  <2>2. Past' + Len(rx') = Past + Len(rx) /\ Past + Len(rx) = sent
    BY <1>1, <1>3, <2>1
  <2>3. /\ InUpload /\ Past' = Past + 1 /\ UNCHANGED <<command, loadedSize>> /\ (IsWad => UNCHANGED app)
        /\ Receive /\ Past >= -3
        /\ \A n \in Kind : OfKind(n) =>
             /\ \A i \in -2..Past : Kept(n, i)' = Kept(n, i)
             /\ \A i \in Int : i = Past + 1 => Kept(n, i)' = Received
    BY <1>3, <2>2, <1>1 DEF Proceeds
  <2>4. OfKind(k) /\ (OfKind(k)' <=> OfKind(k))
    BY <1>3, <2>3 DEF OfKind, IsWad
  <2>5. Cardinality(Garbled(k, sent)) <= faults /\ Held(k)
    BY <2>2, <2>3, <2>4 DEF InStepWith
  <2>6. /\ Received = rx[1] /\ Len(rx) \in Nat \ {0} /\ Len(rx') = Len(rx) - 1
        /\ \A i \in 1..Len(rx) - 1 : rx'[i] = rx[i + 1]
    BY <1>1, <2>3, RestFacts DEF Receive, Received
  <2>7. ASSUME NEW i \in -2..sent PROVE Delivered(k, i)' = Delivered(k, i)
    <3>1. i \in -2..Past \/ i = Past + 1 \/ i > Past + 1
      BY <2>1
    <3>2. CASE i \in -2..Past
      <4>1. ~(i > Past) /\ ~(i > Past')
        BY <2>1, <2>3, <3>2
      <4>2. Kept(k, i)' = Kept(k, i)
        BY <2>3, <2>4, <3>2
      <4> QED
        BY <4>1, <4>2 DEF Delivered
    <3>3. CASE i = Past + 1
      <4>1. i > Past /\ ~(i > Past') /\ i - Past = 1
        BY <2>1, <2>3, <3>3
      <4>2. Kept(k, i)' = Received
        BY <2>3, <2>4, <3>3
      <4> QED
        BY <2>6, <4>1, <4>2 DEF Delivered
    <3>4. CASE i > Past + 1
      <4>1. /\ i > Past /\ i > Past' /\ i - Past' \in 1..Len(rx) - 1 /\ (i - Past') + 1 = i - Past
        BY <1>1, <2>1, <2>2, <2>3, <3>4
      <4>2. rx'[i - Past'] = rx[i - Past]
        BY <2>6, <4>1
      <4> QED
        BY <4>1, <4>2 DEF Delivered
    <3> QED
      BY <3>1, <3>2, <3>3, <3>4
  <2>8. Garbled(k, sent)' = Garbled(k, sent)
    BY <2>7 DEF Garbled
  <2>9. Held(k)'
    BY <2>3, <2>4, <2>5 DEF Held, OfKind, Runnable, Content
  <2>10. Cardinality(Garbled(k, sent)) <= faults'
    BY <2>5, GarbledFacts
  <2> QED
    BY <2>8, <2>9, <2>10
<1> QED
  BY <1>2, <1>3 DEF InStepWith

\* A file that was not the one that was sent has another CRC, or more places
\* are garbled than there are faults.
LEMMA OnlyTheFile ==
  ASSUME CrcDetects, job \in Job, faults \in 0..MaxFaults,
         NEW k \in Kind, k = "wad" => job.wad # Absent,
         NEW size \in IF k = "wad" THEN HeaderLen..WadMax ELSE 1..AppMax, size = Total(job, k),
         NEW c \in [1..size -> Token], NEW crc \in Token, Crc(c) = crc,
         NEW garbled, IsFiniteSet(garbled), Cardinality(garbled) <= faults,
         crc # Stream(job, k, 0) => 0 \in garbled,
         \A i \in 1..size : c[i] # Stream(job, k, i) => i \in garbled
  PROVE  c = File(job, k)
<1> SUFFICES ASSUME c # File(job, k) PROVE FALSE
  OBVIOUS
<1>1. PICK file : file = File(job, k)
  OBVIOUS
<1>2. /\ size \in Nat \ {0} /\ size = Len(file) /\ file \in [1..size -> Token]
      /\ file \in IF k = "app" THEN Image ELSE Wad
  BY <1>1, FileFacts DEF Total
<1>3. PICK kind \in {Image, Wad} : c \in kind /\ file \in kind
  <2>1. CASE k = "app"
    <3>1. c \in Image
      BY <2>1 DEF CrcDetects
    <3> QED
      BY <1>2, <2>1, <3>1
  <2>2. CASE k = "wad"
    <3>1. c \in Wad
      BY <2>2 DEF CrcDetects
    <3> QED
      BY <1>2, <2>2, <3>1
  <2> QED
    BY <2>1, <2>2 DEF Kind
<1>4. c # file /\ Len(c) = size /\ Len(file) = size
  BY <1>1, <1>2
<1>5. PICK D : D = {i \in 1..size : c[i] # file[i]}
  OBVIOUS
<1>6. Crc(c) # Crc(file) /\ Cardinality(D) >= MaxFaults
  <2>1. Crc(c) # Crc(file) /\ (Len(c) = Len(file) => Cardinality({i \in 1..Len(c) : c[i] # file[i]}) >= MaxFaults)
    BY <1>3, <1>4, LineAssumption
  <2> QED
    BY <1>4, <1>5, <2>1
<1>7. /\ Stream(job, k, 0) = Crc(file)
      /\ \A i \in 1..size : Stream(job, k, i) = file[i]
  BY <1>1, <1>2 DEF Stream
<1>8. D \cup {0} \subseteq garbled
  <2>1. 0 \in garbled
    BY <1>6, <1>7
  <2>2. D \subseteq garbled
    BY <1>5, <1>7
  <2> QED
    BY <2>1, <2>2
<1>9. IsFiniteSet(D) /\ Cardinality(D) \in Nat /\ 0 \notin D
  <2>1. IsFiniteSet(1..size) /\ D \subseteq 1..size
    BY <1>2, <1>5, FS_Interval
  <2>2. IsFiniteSet(D)
    BY <2>1, FS_Subset
  <2>3. 0 \notin D
    BY <1>2, <2>1
  <2> QED
    BY <2>2, <2>3, FS_CardinalityType
<1>10. Cardinality(D \cup {0}) = Cardinality(D) + 1
  BY <1>9, FS_AddElement
<1>11. Cardinality(D \cup {0}) <= Cardinality(garbled) /\ Cardinality(garbled) \in Nat
  BY <1>8, FS_Subset, FS_CardinalityType
<1>12. faults \in Nat /\ MaxFaults \in Nat /\ faults <= MaxFaults
  BY JobAssumption
<1> QED
  BY <1>6, <1>9, <1>10, <1>11, <1>12

\* When the loader acknowledges as much as the uploader has to send, it has
\* everything, and if the CRC is right everything as it was sent.
LEMMA AllTaken ==
  ASSUME CrcDetects, IInv, IInv', ReadData, job \in Job, job' = job, faults \in 0..MaxFaults,
         NEW k \in Kind, k = "wad" => job.wad # Absent, OfKind(k), offset + 1 = Total(job, k),
         NEW sent \in Int, sent <= Total(job, k), InStepWith(k, sent)
  PROVE  rx' = <<>> /\ sent = Total(job, k) /\ pc' \in {"data", "verify"} /\ Whole(k)'
<1>1. PICK size : size = Total(job, k)
  OBVIOUS
<1>2. /\ size \in Nat \ {0} /\ offset \in Nat /\ offset = size - 1 /\ pc = "data" /\ Past = offset
      /\ pc' = (IF size = expectedSize THEN "verify" ELSE "data")
      /\ Receive /\ UNCHANGED <<command, loadedSize, expectedSize, expectedCrc>>
      /\ IF IsWad THEN wad' = [wad EXCEPT ![size] = Received] /\ UNCHANGED app
         ELSE app' = [app EXCEPT ![size] = Received] /\ UNCHANGED wad
      /\ rx \in Seq(Token) /\ LoaderTypeOK
  <2>1. size \in Nat \ {0} /\ offset \in Nat /\ offset + 1 = size
    BY <1>1, FileFacts DEF IInv, LoaderTypeOK
  <2>2. LoaderTypeOK /\ rx \in Seq(Token)
    BY DEF IInv, LoaderTypeOK
  <2> QED
    BY <2>1, <2>2 DEF ReadData, Past
<1>3. Len(rx) \in Nat \ {0} /\ Received = rx[1] /\ Len(rx') = Len(rx) - 1 /\ rx' \in Seq(Token)
  BY <1>2, RestFacts DEF Receive, Received
<1>4. Len(rx) = 1 /\ sent = size /\ Past + Len(rx) = sent
  <2>1. Past + Len(rx) <= sent /\ sent <= size
    BY <1>1 DEF InStepWith
  <2> QED
    BY <1>2, <1>3, <2>1
<1>5. rx' = <<>>
  BY <1>3, <1>4
<1>6. Cardinality(Garbled(k, size)) <= faults /\ Held(k)
  BY <1>2, <1>4 DEF InStepWith, InUpload
<1>7. OfKind(k)' /\ Held(k)'
  BY <1>2, <1>6 DEF OfKind, IsWad, Held, Runnable, Content
<1>8. ASSUME pc' = "verify", Crc(Content(Mem(k), expectedSize)') = expectedCrc'
      PROVE  Content(Mem(k), expectedSize)' = File(job, k)
  <2>1. size = expectedSize /\ expectedSize' = size /\ size \in LegalSizes
    BY <1>2, <1>8 DEF IInv, TransferIsBounded
  <2>2. PICK max : max = IF k = "app" THEN AppMax ELSE WadMax
    OBVIOUS
  <2>a. /\ max \in Nat /\ size \in 1..max
        /\ size \in IF k = "wad" THEN HeaderLen..WadMax ELSE 1..AppMax
        /\ Mem(k) \in [1..max -> Token]
        /\ Mem(k)' = [Mem(k) EXCEPT ![size] = Received]
    <3>1. /\ AppMax \in Nat /\ WadMax \in Nat /\ HeaderLen = 3
          /\ LegalSizes = IF IsWad THEN 3..WadMax ELSE 1..AppMax
      BY SizeFacts
    <3>2. CASE k = "app"
      <4>1. ~IsWad /\ Mem(k) = app /\ Mem(k)' = app'
        BY <3>2 DEF OfKind, Mem, Named
      <4> QED
        BY <1>2, <2>1, <2>2, <3>1, <3>2, <4>1 DEF LoaderTypeOK
    <3>3. CASE k = "wad"
      <4>1. IsWad /\ Mem(k) = wad /\ Mem(k)' = wad' /\ max = WadMax
        BY <2>2, <3>3 DEF OfKind, Mem, Named
      <4>2. size \in 3..WadMax /\ size \in 1..max
        BY <1>2, <2>1, <3>1, <4>1
      <4> QED
        BY <1>2, <3>1, <3>3, <4>1, <4>2 DEF LoaderTypeOK
    <3> QED
      BY <3>2, <3>3 DEF Kind
  <2>3. PICK c : c = Content(Mem(k), expectedSize)'
    OBVIOUS
  <2>4. c = [i \in 1..size |-> Mem(k)'[i]]
    BY <2>1, <2>3 DEF Content
  <2>5. Received \in Token
    BY <1>2, ReceivedFacts
  <2>6. \A i \in 1..size : Mem(k)'[i] = IF i = size THEN Received ELSE Mem(k)[i]
    BY <2>a
  <2>7. c \in [1..size -> Token]
    BY <2>a, <2>4, <2>5, <2>6
  <2>8. \A i \in 1..size : c[i] = Delivered(k, i)
    <3> SUFFICES ASSUME NEW i \in 1..size PROVE c[i] = Delivered(k, i)
      OBVIOUS
    <3>1. c[i] = IF i = size THEN Received ELSE Mem(k)[i]
      BY <2>4, <2>6
    <3>2. CASE i = size
      <4>1. i > Past /\ i - Past = 1
        BY <1>2, <3>2
      <4> QED
        BY <1>3, <3>1, <3>2, <4>1 DEF Delivered
    <3>3. CASE i # size
      <4>1. ~(i > Past) /\ i # -2 /\ i # -1 /\ i # 0
        BY <1>2, <3>3
      <4> QED
        BY <3>1, <3>3, <4>1 DEF Delivered, Kept
    <3> QED
      BY <3>2, <3>3
  <2>9. Delivered(k, 0) = expectedCrc
    <3>1. ~(0 > Past) /\ 0 # -2 /\ 0 # -1
      BY <1>2
    <3> QED
      BY <3>1 DEF Delivered, Kept
  <2>10. PICK garbled : garbled = Garbled(k, size)
    OBVIOUS
  <2>11. IsFiniteSet(garbled) /\ Cardinality(garbled) <= faults
    BY <1>2, <1>6, <2>10, GarbledFacts
  <2>12. /\ expectedCrc # Stream(job, k, 0) => 0 \in garbled
         /\ \A i \in 1..size : c[i] # Stream(job, k, i) => i \in garbled
    BY <1>2, <2>8, <2>9, <2>10 DEF Garbled
  <2>13. expectedCrc \in Token /\ Crc(c) = expectedCrc
    BY <1>2, <1>8, <2>3 DEF LoaderTypeOK
  <2>14. c = File(job, k)
    <3>1. size \in IF k = "wad" THEN HeaderLen..WadMax ELSE 1..AppMax
      BY <2>a
    <3>2. size = Total(job, k)
      BY <1>1
    <3>3. c \in [1..size -> Token] /\ expectedCrc \in Token /\ Crc(c) = expectedCrc
      BY <2>7, <2>13
    <3> QED
      BY <2>11, <2>12, <3>1, <3>2, <3>3, OnlyTheFile, Zenon
  <2> QED
    BY <2>3, <2>14
<1>9. Whole(k)'
  <2>1. pc' = "verify" => expectedSize' = size
    BY <1>2
  <2> QED
    BY <1>1, <1>2, <1>7, <1>8, <2>1 DEF Whole
<1> QED
  BY <1>1, <1>2, <1>4, <1>5, <1>9

\* With nothing left to read, a verification can only succeed with the file.
LEMMA WholeKept ==
  ASSUME IInv, LoaderStep \/ ByteTimeOut, job' = job, rx = <<>>,
         NEW k \in Kind, pc \in {"data", "verify", "publish", "idle", "app"}, Whole(k)
  PROVE  pc \notin {"idle", "app"} /\ rx' = <<>> /\ pc' \in {"publish", "idle", "app"} /\ Whole(k)'
<1>1. LoaderTypeOK
  BY DEF IInv
<1>2. /\ pc # "app" /\ ~Receive /\ rx' = rx /\ pc # "idle"
      /\ pc = "data" => pc' = "idle"
      /\ pc = "publish" => PublishWad
      /\ pc = "verify" => VerifyApp \/ VerifyWad
      /\ pc' \in {"idle", "app", "publish"}
  BY <1>1, MoveFacts
<1>3. ASSUME pc' = "publish"
      PROVE  k = "wad" /\ Content(wad, expectedSize)' = job.wad /\ Held(k)'
  <2>1. VerifyWad /\ pc = "verify" /\ IsWad
    BY <1>2, <1>3 DEF PublishWad, VerifyApp, VerifyWad, Fail, BackToIdle, Run
  <2>2. /\ Crc(Content(wad, expectedSize)) = expectedCrc
        /\ UNCHANGED <<app, wad, loadedSize, expectedSize>>
    BY <1>3, <2>1 DEF VerifyWad, Verified, Fail, BackToIdle, Locals
  <2>3. k = "wad" /\ Mem(k) = wad /\ File(job, k) = job.wad
    BY <2>1 DEF Whole, OfKind, Kind, Mem, File, Named
  <2>4. Content(wad, expectedSize) = job.wad /\ Held(k)
    BY <2>1, <2>2, <2>3 DEF Whole
  <2> QED
    BY <2>2, <2>3, <2>4 DEF Content, Held, Runnable
<1>4. Whole(k)'
  BY <1>2, <1>3 DEF Whole
<1> QED
  BY <1>2, <1>4

\* What the loader says has succeeded is what was sent.
LEMMA OkayTrue ==
  ASSUME IInv, LoaderStep \/ ByteTimeOut, job' = job, ~Receive,
         NEW k \in Kind, Whole(k), NEW line, line = Okay(k), SaidBy(line)
  PROVE  HoldsAll(Named(k, Absent, job.wad))'
<1>1. line.of = Named(k, "OK", "WAD_OK")
  BY NotDull
<1>2. CASE k = "app"
  <2>1. VerifyApp /\ Verified(app) /\ pc = "verify"
    BY <1>1, <1>2 DEF SaidBy, Verifies, VerifyApp, Named
  <2>2. Content(app, expectedSize) = job.image
    <3>1. Mem(k) = app /\ File(job, k) = job.image
      BY <1>2 DEF Mem, File, Named
    <3> QED
      BY <2>1, <3>1 DEF Whole, Verified
  <2>3. Runnable' = job.image
    BY <2>1, <2>2 DEF VerifyApp, Runnable, Content
  <2>4. pc' \in {"idle", "app"}
    BY <2>1 DEF VerifyApp, Run, BackToIdle
  <2>5. Published' = Absent
    <3>1. ~handoff.magic /\ handoff' = handoff
      BY <2>1 DEF IInv, HandoffIsSound, Transferring, VerifyApp
    <3> QED
      BY <3>1 DEF Published
  <2> QED
    BY <1>2, <2>3, <2>4, <2>5 DEF HoldsAll, Named
<1>3. CASE k = "wad"
  <2>1. PublishWad /\ pc = "publish"
    BY <1>1, <1>3 DEF SaidBy, PublishWad, Named
  <2>2. Content(wad, expectedSize) = job.wad /\ Runnable = job.image
    BY <1>3, <2>1 DEF Whole, Held
  <2>3. handoff.size = expectedSize /\ handoff \in [magic : BOOLEAN, size : Nat, crc : Token]
    BY <2>1 DEF IInv, HandoffIsSound, LoaderTypeOK
  <2>4. handoff'.magic /\ handoff'.size = handoff.size
    BY <2>1, <2>3 DEF PublishWad
  <2>5. UNCHANGED <<app, wad, loadedSize>> /\ pc' = "idle"
    BY <2>1 DEF PublishWad, BackToIdle
  <2>6. Published' = job.wad
    BY <2>2, <2>3, <2>4, <2>5 DEF Published, Content
  <2>7. Runnable' = job.image
    BY <2>2, <2>5 DEF Runnable, Content
  <2> QED
    BY <1>3, <2>5, <2>6, <2>7 DEF HoldsAll, Named
<1> QED
  BY <1>2, <1>3 DEF Kind

\* The loader keeps the promise of an upload.
LEMMA DeliveringKept ==
  ASSUME CrcDetects, IInv, IInv', Speaks, LoaderStep \/ ByteTimeOut, job \in Job, job' = job,
         faults \in 0..MaxFaults, faults' \in Nat, faults <= faults',
         NEW k \in Kind, k = "wad" => job.wad # Absent,
         NEW sent \in Int, sent <= Total(job, k), NEW done \in BOOLEAN, Delivering(k, sent, done)
  PROVE  Delivering(k, sent, done)'
<1>1. LoaderTypeOK /\ LoaderTypeOK' /\ faults \in Nat
  BY JobAssumption DEF IInv
<1>2. InStepWith(k, sent) /\ Taken(k, sent, done) /\ OkIsTrue(k, done)
  BY DEF Delivering
<1>3. InStepWith(k, sent)'
  BY <1>1, <1>2, InStepKept
<1>4. PICK acked, okay : acked = Acked(job, k) /\ okay = Okay(k)
  OBVIOUS
<1>5. ~Dull(acked) /\ acked.of = Named(k, "NEXT", "WAD_NEXT") /\ acked.n = Total(job, k)
  BY <1>4, NotDull
<1>6. acked = Acked(job', k) /\ okay = Okay(k)'
  BY <1>4
<1>7. /\ Len(toHost) \in Nat /\ Len(toHost') \in Nat /\ Len(toHost) <= Len(toHost')
      /\ \A i \in 1..Len(toHost) : toHost'[i] = toHost[i]
      /\ \A i \in Len(toHost) + 1..Len(toHost') : SaidBy(toHost'[i])
      /\ \A i, m \in Len(toHost) + 1..Len(toHost') :
           i < m => toHost'[m] = Line("GO") /\ pc' = "app" /\ Dull(toHost'[i])
      /\ \A i \in 1..Len(toHost') : i \in 1..Len(toHost) \/ i \in Len(toHost) + 1..Len(toHost')
  BY DEF Speaks
<1>8. CASE Answered(k, done)
  <2>1. /\ rx = <<>> /\ sent = Total(job, k)
        /\ pc \in {"data", "verify", "publish", "idle", "app"} /\ Whole(k)
    BY <1>2, <1>8 DEF Taken
  <2>2. pc \notin {"idle", "app"} /\ rx' = <<>> /\ pc' \in {"publish", "idle", "app"} /\ Whole(k)'
    BY <2>1, WholeKept
  <2>3. ~Receive
    BY <2>1 DEF Receive
  <2>4. Taken(k, sent, done)'
    BY <2>1, <2>2 DEF Taken
  <2>5. ASSUME NEW m \in 1..Len(toHost'), toHost'[m] = okay,
               done \/ \E i \in 1..m - 1 : toHost'[i] = acked
        PROVE  HoldsAll(Named(k, Absent, job.wad))' /\ OnlyGo(m)'
    <3>1. CASE m \in 1..Len(toHost)
      <4>1. toHost[m] = okay /\ \A i \in 1..m - 1 : toHost'[i] = toHost[i]
        BY <1>7, <2>5, <3>1
      <4>2. done \/ \E i \in 1..m - 1 : toHost[i] = acked
        BY <2>5, <4>1
      <4>3. HoldsAll(Named(k, Absent, job.wad))
        BY <1>2, <1>4, <3>1, <4>1, <4>2, Zenon DEF OkIsTrue
      <4> QED
        BY <2>2, <4>3 DEF HoldsAll
    <3>2. CASE m \in Len(toHost) + 1..Len(toHost')
      <4>1. SaidBy(okay)
        BY <1>7, <2>5, <3>2
      <4>2. HoldsAll(Named(k, Absent, job.wad))'
        BY <1>4, <2>1, <2>3, <4>1, OkayTrue
      <4>3. OnlyGo(m)'
        BY <1>7, <3>2 DEF OnlyGo
      <4> QED
        BY <4>2, <4>3
    <3> QED
      BY <1>7, <3>1, <3>2
  <2>6. OkIsTrue(k, done)'
    BY <1>6, <2>5 DEF OkIsTrue
  <2> QED
    BY <1>3, <2>4, <2>6 DEF Delivering
<1>9. CASE ~Answered(k, done)
  <2>1. ~done /\ \A i \in 1..Len(toHost) : toHost[i] # acked
    BY <1>4, <1>9 DEF Answered, Hears
  <2>2. \A i \in 1..Len(toHost') : toHost'[i] = acked => i \in Len(toHost) + 1..Len(toHost')
    BY <1>7, <2>1
  <2>3. Taken(k, sent, done)'
    <3>1. ASSUME NEW i \in 1..Len(toHost'), toHost'[i] = acked
          PROVE  /\ rx' = <<>> /\ sent = Total(job, k)
                 /\ pc' \in {"data", "verify", "publish", "idle", "app"} /\ Whole(k)'
      <4>1. SaidBy(acked)
        BY <1>7, <2>2, <3>1
      <4>2. ReadData /\ offset + 1 = Total(job, k) /\ (IsWad <=> acked.of = "WAD_NEXT")
        BY <1>5, <4>1 DEF SaidBy, Kind, Named
      <4>3. OfKind(k)
        BY <1>5, <4>2 DEF OfKind, Kind, Named
      <4> QED
        BY <1>2, <4>2, <4>3, AllTaken
    <3>2. Hears(acked)' => \E i \in 1..Len(toHost') : toHost'[i] = acked
      BY DEF Hears
    <3> QED
      BY <1>4, <2>1, <3>1, <3>2 DEF Taken, Answered
  <2>4. OkIsTrue(k, done)'
    <3>1. ASSUME NEW m \in 1..Len(toHost'), toHost'[m] = okay, NEW i \in 1..m - 1, toHost'[i] = acked
          PROVE  FALSE
      <4>1. i \in 1..Len(toHost') /\ i < m
        BY <1>7
      <4>2. i \in Len(toHost) + 1..Len(toHost') /\ m \in Len(toHost) + 1..Len(toHost')
        BY <1>7, <2>2, <3>1, <4>1
      <4>3. Dull(toHost'[i])
        BY <1>7, <4>1, <4>2
      <4> QED
        BY <1>5, <3>1, <4>3
    <3> QED
      BY <1>6, <2>1, <3>1 DEF OkIsTrue
  <2> QED
    BY <1>3, <2>3, <2>4 DEF Delivering
<1> QED
  BY <1>8, <1>9

\* The loader keeps what is promised at any place of the script.
LEMMA LoaderKept ==
  ASSUME CrcDetects, IInv, IInv', HostInv, LoaderMoves, ~cut,
         NEW p, NEW fast, NEW r, At(p, fast, r), Promised(p, fast, r)
  PROVE  Promised(p, fast, r)'
<1>1. /\ LoaderStep \/ ByteTimeOut
      /\ job' = job /\ faults' \in Nat /\ faults <= faults' /\ faults \in 0..MaxFaults /\ job \in Job
  BY JobAssumption DEF LoaderMoves, OneFault, hostVars, HostInv
<1>2. LoaderTypeOK /\ Speaks
  BY <1>1, SpeaksFacts DEF IInv, HostInv
<1>3. /\ Calm => Calm'
      /\ OneAnswer => OneAnswer'
  BY <1>1, <1>2, AnswersKept
<1>4. CASE p = "ask"
  BY <1>3, <1>4 DEF Promised, Kind
<1>5. CASE p \in Kind /\ r = 1
  <2>1. Calm /\ (p = "wad" => HoldsAll(Absent))
    BY <1>5 DEF Promised
  <2>2. ~Receive /\ pc # "app" /\ (pc = "idle" => Receive)
    BY <1>1, <1>2, <2>1, AnswersKept, MoveFacts
  <2>3. p # "wad"
    BY <2>1, <2>2 DEF HoldsAll
  <2> QED
    BY <1>3, <1>5, <2>1, <2>3 DEF Promised, Kind
<1>6. CASE p \in Kind /\ r = 2
  <2>1. Asked(p)'
    BY <1>1, <1>2, <1>6, AskedKept DEF Promised
  <2> QED
    BY <1>6, <2>1 DEF Promised, Kind
<1>7. CASE p \in Kind /\ r >= 3 /\ r # 1 /\ r # 2
  <2>1. PICK sent, done : sent = SentAt(job, p, fast, r) /\ done = (r = LastStep(job, p, fast))
    OBVIOUS
  <2>2. Delivering(p, sent, done)
    BY <1>7, <2>1 DEF Promised
  <2>3. /\ sent \in Int /\ done \in BOOLEAN /\ (p = "wad" => job.wad # Absent)
        /\ UploadStep(job, p, fast, LastStep(job, p, fast), r, Steps(job, p, fast)[r])
    BY <1>1, <1>7, <2>1, UploadPlace DEF At
  <2>4. sent <= Total(job, p)
    BY <1>7, <2>1, <2>3, FileFacts DEF UploadStep
  <2>5. Delivering(p, sent, done)'
    BY <1>1, <1>2, <1>7, <2>2, <2>3, <2>4, DeliveringKept
  <2>6. sent = SentAt(job', p, fast, r) /\ done = (r = LastStep(job', p, fast))
    BY <1>1, <2>1
  <2>7. Delivering(p, SentAt(job, p, fast, r), r = LastStep(job, p, fast))'
    BY <2>5, <2>6
  <2> QED
    BY <1>7, <2>7 DEF Promised, Kind
<1>8. CASE p \in {"info", "end"}
  <2>1. PICK waits \in BOOLEAN : waits = (r = Len(Steps(job, p, fast)))
    OBVIOUS
  <2>2. Queried(waits)'
    BY <1>1, <1>2, <1>8, <2>1, QueriedKept DEF Promised
  <2>3. waits = (r = Len(Steps(job', p, fast)))
    BY <1>1, <2>1
  <2> QED
    BY <1>8, <2>2, <2>3 DEF Promised, Kind
<1>9. p \in ScriptPart /\ (p \in Kind => r = 1 \/ r = 2 \/ (r >= 3 /\ r # 1 /\ r # 2))
  BY <1>1, UploadPlace DEF At, Place
<1> QED
  BY <1>4, <1>5, <1>6, <1>7, <1>8, <1>9 DEF ScriptPart, Kind

-----------------------------------------------------------------------------
\* The uploader sends a token; when anything else arrives that is a fault.
Sends(t) ==
  /\ Sending(t) /\ UNCHANGED loaderVars /\ faults' \in Nat /\ faults <= faults'
  /\ ~Host!SendToken => faults' = faults + 1
Queues(u) ==
  /\ u \in Token /\ Len(rx') = Len(rx) + 1 /\ rx'[Len(rx) + 1] = u
  /\ \A i \in 1..Len(rx) : rx'[i] = rx[i]
Receives(u) ==
  /\ rx \in Seq(Token) /\ rx' \in Seq(Token) /\ UNCHANGED <<job, toHost, loaderVars>>
  /\ faults \in Nat /\ faults' \in Nat /\ faults <= faults'
  /\ \/ rx' = rx
     \/ Queues(u)
     \/ faults' = faults + 1 /\ \E t \in Token : Queues(t)

\* What a token that is sent does to the line.
LEMMA SentFacts ==
  ASSUME IInv, HostInv, NEW t \in Token, Sends(t), NEW p, NEW fast, NEW r, At(p, fast, r)
  PROVE  /\ StepAt(p, fast, r).do = "send" /\ (p = "ask" => r \in {1, 3}) /\ Host!GoOn
         /\ Receives(StepAt(p, fast, r).token)
<1>0. rx \in Seq(Token) /\ job \in Job /\ Sending(t) /\ faults \in 0..MaxFaults
  BY DEF IInv, LoaderTypeOK, HostInv, Sends
<1>1. PICK u : u = StepAt(p, fast, r).token
  OBVIOUS
<1>2. /\ StepAt(p, fast, r).do = "send" /\ (p = "ask" => r \in {1, 3}) /\ Host!GoOn
      /\ u \in Token /\ UNCHANGED toHost /\ rx' \in Seq(Token)
      /\ Host!SendToken => Arrive(u)
      /\ Host!SendLost => UNCHANGED rx
      /\ Host!SendGarbled(t) => Arrive(t)
  BY <1>0, <1>1, SendStepFacts
<1>3. Arrive(u) => rx' = rx \/ Queues(u)
  BY <1>0, <1>2, TokenFacts DEF Queues
<1>4. Arrive(t) => rx' = rx \/ Queues(t)
  BY <1>0, TokenFacts DEF Queues
<1>5. job' = job
  BY <1>2 DEF Host!GoOn
<1>6. \/ rx' = rx
      \/ Queues(u)
      \/ faults' = faults + 1 /\ \E v \in Token : Queues(v)
  <2>1. CASE Host!SendToken
    BY <1>2, <1>3, <2>1
  <2>2. CASE ~Host!SendToken
    BY <1>0, <1>2, <1>4, <2>2 DEF Sends, Sending
  <2> QED
    BY <2>1, <2>2, Zenon
<1>7. faults \in Nat
  BY <1>0, JobAssumption
<1> QED
  BY <1>0, <1>1, <1>2, <1>5, <1>6, <1>7 DEF Receives, Sends

\* A command is sent to a board that has answered everything.
LEMMA CommandSent ==
  ASSUME NEW u, Receives(u), Calm
  PROVE  OneAnswer' /\ AllDull'
<1>1. rx = <<>> /\ AllDull /\ toHost' = toHost /\ rx' \in Seq(Token)
  BY DEF Calm, Receives
<1>2. AllDull'
  BY <1>1 DEF AllDull, Dull
<1>3. Len(rx') <= 1
  <2>1. PICK n, m : n = Len(rx) /\ m = Len(rx')
    OBVIOUS
  <2>2. n = 0
    BY <1>1, <2>1
  <2>3. m = n \/ m = n + 1
    BY <2>1 DEF Receives, Queues
  <2>4. m <= 1
    BY <2>2, <2>3
  <2> QED
    BY <2>1, <2>4, Zenon
<1>4. \A i, m \in 1..Len(toHost') : ~Dull(toHost'[i]) /\ ~Dull(toHost'[m]) => i = m
  BY <1>2 DEF AllDull, Dull
<1> QED
  BY <1>2, <1>3, <1>4 DEF OneAnswer, Dull

\* The next token of the header or of the payload is sent.
LEMMA TokenSent ==
  ASSUME LoaderTypeOK, NEW k \in Kind, NEW sent \in Int, sent >= -3, sent < Total(job, k), Total(job, k) \in Nat,
         Receives(Stream(job, k, sent + 1)), Delivering(k, sent, FALSE)
  PROVE  Delivering(k, sent + 1, FALSE)'
<1>0. /\ rx \in Seq(Token) /\ rx' \in Seq(Token) /\ UNCHANGED <<job, toHost, loaderVars>>
      /\ faults \in Nat /\ faults' \in Nat /\ faults <= faults' /\ Len(rx) \in Nat /\ Len(rx') \in Nat
  BY DEF Receives
<1>1. /\ Past' = Past /\ InUpload' = InUpload /\ OfKind(k)' = OfKind(k) /\ Held(k)' = Held(k)
      /\ pc' = pc /\ (\A i : Kept(k, i)' = Kept(k, i)) /\ \A w : HoldsAll(w)' = HoldsAll(w)
  BY <1>0, BoardFacts
<1>2. Past \in Int /\ Past >= -3
  BY PastFacts
<1>3. InStepWith(k, sent) /\ Taken(k, sent, FALSE) /\ OkIsTrue(k, FALSE)
  BY DEF Delivering
<1>4. PICK u : u = Stream(job, k, sent + 1)
  OBVIOUS
<1>5. \/ rx' = rx
      \/ Queues(u)
      \/ faults' = faults + 1 /\ \E t \in Token : Queues(t)
  BY <1>4 DEF Receives
<1>6. Past + Len(rx) <= sent /\ (rx' = rx \/ Len(rx') = Len(rx) + 1)
  BY <1>3, <1>5 DEF InStepWith, Queues
<1>7. Past' + Len(rx') <= sent + 1
  BY <1>0, <1>1, <1>2, <1>6
<1>8. ASSUME InUpload', OfKind(k)', Past' + Len(rx') = sent + 1
      PROVE  Cardinality(Garbled(k, sent + 1)') <= faults' /\ Held(k)'
  <2>1. rx' # rx /\ Past + Len(rx) = sent
    BY <1>0, <1>1, <1>2, <1>6, <1>8
  <2>2. Cardinality(Garbled(k, sent)) <= faults /\ Held(k)
    BY <1>1, <1>3, <1>8, <2>1 DEF InStepWith
  <2>3. PICK v \in Token : Queues(v) /\ (v = u \/ faults' = faults + 1)
    BY <1>5, <2>1 DEF Queues
  <2>4. PICK old, new : old = Garbled(k, sent) /\ new = Garbled(k, sent + 1)'
    OBVIOUS
  <2>5. ASSUME NEW i \in -2..sent
        PROVE  Delivered(k, i)' = Delivered(k, i) /\ Stream(job, k, i)' = Stream(job, k, i)
    <3>1. CASE i > Past
      <4>1. i - Past \in 1..Len(rx)
        BY <1>0, <1>2, <2>1, <3>1
      <4>2. rx'[i - Past] = rx[i - Past]
        BY <2>3, <4>1 DEF Queues
      <4> QED
        BY <1>0, <1>1, <3>1, <4>2 DEF Delivered
    <3>2. CASE ~(i > Past)
      BY <1>0, <1>1, <3>2 DEF Delivered
    <3> QED
      BY <3>1, <3>2
  <2>6. Delivered(k, sent + 1)' = v /\ Stream(job, k, sent + 1)' = u
    <3>1. sent + 1 > Past /\ sent + 1 - Past = Len(rx) + 1
      BY <1>0, <1>2, <2>1
    <3>2. rx'[sent + 1 - Past] = v
      BY <2>3, <3>1 DEF Queues
    <3>3. PICK i \in Int : i = sent + 1
      OBVIOUS
    <3>5. PICK q : q = Past'
      OBVIOUS
    <3>8. q = Past /\ q \in Int
      BY <1>1, <1>2, <3>5
    <3>9. i > q /\ i - q = sent + 1 - Past
      BY <1>2, <3>1, <3>3, <3>8
    <3>6. i > q /\ rx'[i - q] = v
      BY <3>2, <3>9, Zenon
    <3>7. Delivered(k, i)' = IF i > q THEN rx'[i - q] ELSE Kept(k, i)'
      BY <3>5, Zenon DEF Delivered
    <3>4. Delivered(k, i)' = v
      BY <3>6, <3>7, Zenon
    <3> QED
      BY <1>0, <1>4, <3>3, <3>4
  <2>7. ASSUME NEW i \in new, i \notin old PROVE i = sent + 1 /\ v # u
    <3>1. i \in -2..sent + 1 /\ Delivered(k, i)' # Stream(job, k, i)'
      BY <2>4, <2>7 DEF Garbled
    <3>2. i \notin -2..sent
      <4> SUFFICES ASSUME i \in -2..sent PROVE FALSE
        OBVIOUS
      <4>1. Delivered(k, i) # Stream(job, k, i)
        BY <2>5, <3>1
      <4> QED
        BY <2>4, <2>7, <4>1 DEF Garbled
    <3>3. i = sent + 1
      BY <3>1, <3>2
    <3> QED
      BY <2>6, <3>1, <3>3
  <2>8. IsFiniteSet(old) /\ Cardinality(old) \in Nat
    BY <2>4, GarbledFacts
  <2>9. CASE v = u
    <3>1. new \subseteq old
      BY <2>7, <2>9
    <3>2. Cardinality(new) <= Cardinality(old) /\ Cardinality(new) \in Nat
      BY <2>8, <3>1, FS_Subset, FS_CardinalityType
    <3> QED
      BY <1>0, <1>1, <2>2, <2>4, <2>8, <3>2
  <2>10. CASE v # u
    <3>1. new \subseteq old \cup {sent + 1}
      BY <2>7
    <3>2. /\ IsFiniteSet(old \cup {sent + 1})
          /\ Cardinality(old \cup {sent + 1}) \in {Cardinality(old), Cardinality(old) + 1}
      BY <2>8, FS_AddElement
    <3>3. IsFiniteSet(new) /\ Cardinality(new) <= Cardinality(old \cup {sent + 1})
      BY <3>1, <3>2, FS_Subset
    <3>4. faults' = faults + 1 /\ Cardinality(new) \in Nat
      BY <2>3, <2>10, <3>3, FS_CardinalityType
    <3> QED
      BY <1>0, <1>1, <2>2, <2>4, <2>8, <3>2, <3>3, <3>4
  <2> QED
    BY <2>9, <2>10
<1>9. InStepWith(k, sent + 1)'
  BY <1>7, <1>8 DEF InStepWith
<1>10. Taken(k, sent + 1, FALSE)'
  <2>0. sent # Total(job, k)
    OBVIOUS
  <2>1. ~Answered(k, FALSE)
    BY <1>3, <2>0, Zenon DEF Taken
  <2>2. ~Answered(k, FALSE)'
    BY <1>0, <2>1, Zenon DEF Answered, Hears
  <2> QED
    BY <2>2 DEF Taken
<1>11. OkIsTrue(k, FALSE)'
  <2>1. PICK w, acked : w = Named(k, Absent, job.wad) /\ acked = Acked(job, k)
    OBVIOUS
  <2>2. w = Named(k, Absent, job.wad)' /\ acked = Acked(job, k)' /\ HoldsAll(w)' = HoldsAll(w)
    BY <1>0, <1>1, <2>1
  <2>3. \A m : OnlyGo(m) => OnlyGo(m)'
    BY <1>0, <1>1 DEF OnlyGo
  <2>4. Okay(k)' = Okay(k)
    OBVIOUS
  <2> QED
    BY <1>0, <1>3, <2>1, <2>2, <2>3, <2>4 DEF OkIsTrue
<1> QED
  BY <1>9, <1>10, <1>11 DEF Delivering

\* The last step of a part does not send.
LEMMA SendNotLast ==
  ASSUME NEW j \in Job, NEW t, NEW p, NEW fast, NEW r, Place(j, t, p, fast, r),
         Steps(j, p, fast)[r].do = "send"
  PROVE  /\ r < Len(Steps(j, p, fast)) /\ r \in Nat
         /\ p \in {"info", "end"} => r + 1 = Len(Steps(j, p, fast))
<1>1. p \in ScriptPart /\ fast \in BOOLEAN /\ HasPart(j, p) /\ r \in 1..Len(Steps(j, p, fast))
  BY DEF Place
<1>2. CASE p = "ask"
  <2>1. Len(Steps(j, p, fast)) = 4
    <3>1. GoesOnFrom(j, t, p, fast, r)
      BY PlaceFacts, Zenon
    <3> QED
      BY <1>2, <3>1 DEF GoesOnFrom
  <2>2. r \in {1, 3}
    <3>1. StepKind(j, p, fast, r, Steps(j, p, fast)[r])
      BY StepKinds, Zenon
    <3> QED
      BY <1>2, <3>1, Zenon DEF StepKind
  <2> QED
    BY <1>2, <2>1, <2>2
<1>3. CASE p \in Kind
  <2>1. PICK last : last = LastStep(j, p, fast)
    OBVIOUS
  <2>2. /\ r \in Nat /\ (r = 1 \/ r = 2 \/ (r >= 3 /\ r # 1 /\ r # 2))
        /\ r \in 1..last /\ Len(Steps(j, p, fast)) = last
        /\ UploadStep(j, p, fast, last, r, Steps(j, p, fast)[r])
    BY <1>3, <2>1, UploadPlace
  <2>3. /\ last \in Nat /\ last >= 8
        /\ r = 2 => Steps(j, p, fast)[r].do = "wait"
        /\ r >= 3 => r < last - 1
    BY <2>2 DEF UploadStep
  <2>4. r < last
    BY <2>2, <2>3
  <2> QED
    BY <1>3, <2>2, <2>4 DEF Kind
<1>4. CASE p \in {"info", "end"}
  <2>1. PICK q : q = Steps(j, p, fast)
    OBVIOUS
  <2>2. IsQuery(j, p, q)
    BY <1>1, <1>4, <2>1, QueryFacts
  <2>3. Len(q) \in {1, 2} /\ q[Len(q)].do = "wait"
    BY <2>2 DEF IsQuery
  <2>4. r \in 1..Len(q) /\ q[r].do = "send"
    BY <1>1, <2>1
  <2>5. r # Len(q)
    BY <2>3, <2>4
  <2>6. r = 1 /\ Len(q) = 2
    BY <2>3, <2>4, <2>5
  <2> QED
    BY <2>1, <2>6
<1> QED
  BY <1>1, <1>2, <1>3, <1>4 DEF ScriptPart, Kind

\* What is promised is promised at the next step when a token is sent.
LEMMA SendKept ==
  ASSUME IInv, HostInv, NEW t \in Token, Sends(t), NEW p, NEW fast, NEW r, At(p, fast, r), Promised(p, fast, r)
  PROVE  At(p, fast, r + 1)' /\ Promised(p, fast, r + 1)'
<1>0. LoaderTypeOK /\ job \in Job /\ Place(job, todo, p, fast, r)
  BY DEF IInv, HostInv, At
<1>1. PICK u : u = StepAt(p, fast, r).token
  OBVIOUS
<1>2. /\ StepAt(p, fast, r).do = "send" /\ (p = "ask" => r \in {1, 3}) /\ Host!GoOn /\ Receives(u)
  BY <1>1, SentFacts
<1>3. Steps(job, p, fast)[r].do = "send" /\ u = Steps(job, p, fast)[r].token
  BY <1>1, <1>2 DEF StepAt
<1>4. /\ r < Len(Steps(job, p, fast)) /\ r \in Nat
      /\ p \in {"info", "end"} => r + 1 = Len(Steps(job, p, fast))
  BY <1>0, <1>3, SendNotLast
<1>5. At(p, fast, r + 1)' /\ job' = job
  <2>1. p = "ask" => r # 4
    BY <1>2
  <2> QED
    BY <1>0, <1>2, <1>4, <2>1, GoOnFacts
<1>6. /\ toHost' = toHost /\ UNCHANGED loaderVars /\ pc' = pc
      /\ \A w : HoldsAll(w)' = HoldsAll(w)
  BY <1>2, <1>5, BoardFacts DEF Receives
<1>7. Calm => OneAnswer' /\ AllDull'
  BY <1>2, CommandSent
<1>8. CASE p = "ask"
  <2>1. Calm /\ r + 1 \in {2, 4}
    BY <1>2, <1>8 DEF Promised
  <2>2. r + 1 \notin {1, 3}
    BY <2>1
  <2> QED
    BY <1>5, <1>7, <1>8, <2>1, <2>2 DEF Promised, Kind
<1>9. CASE p \in Kind
  <2>1. PICK last : last = LastStep(job, p, fast)
    OBVIOUS
  <2>2. /\ (r = 1 \/ r = 2 \/ (r >= 3 /\ r # 1 /\ r # 2)) /\ (p = "wad" => job.wad # Absent)
        /\ UploadStep(job, p, fast, last, r, Steps(job, p, fast)[r])
    BY <1>0, <1>9, <2>1, UploadPlace
  <2>3. r # 2
    BY <1>3, <2>2 DEF UploadStep
  <2>4. CASE r = 1
    <3>1. Calm /\ (p = "wad" => HoldsAll(Absent))
      BY <1>9, <2>4 DEF Promised
    <3>2. ~Hears(Ready(p))'
      <4>1. ~Dull(Ready(p)) /\ Ready(p)' = Ready(p)
        BY <1>9, NotDull
      <4> QED
        BY <1>6, <1>7, <3>1, <4>1 DEF Hears, AllDull, Dull
    <3>3. Asked(p)'
      BY <1>6, <1>7, <3>1, <3>2 DEF Asked
    <3>4. r + 1 = 2
      BY <2>4
    <3> QED
      BY <1>5, <1>9, <3>3, <3>4 DEF Promised, Kind
  <2>5. CASE r >= 3 /\ r # 1 /\ r # 2
    <3>1. PICK sent : sent = SentAt(job, p, fast, r)
      OBVIOUS
    <3>2. /\ r < last - 1 /\ last \in Nat /\ sent < Total(job, p) /\ sent \in -3..Total(job, p)
          /\ SentAt(job, p, fast, r + 1) = sent + 1 /\ u = Stream(job, p, sent + 1)
      BY <1>3, <2>2, <2>5, <3>1 DEF UploadStep
    <3>3. r # last /\ r + 1 # last /\ r + 1 >= 3 /\ r + 1 # 1 /\ r + 1 # 2
      BY <1>4, <2>5, <3>2
    <3>4. Delivering(p, sent, FALSE)
      BY <1>9, <2>1, <2>5, <3>1, <3>3 DEF Promised
    <3>5. Total(job, p) \in Nat
      BY <1>0, <1>9, <2>2, FileFacts
    <3>6. sent \in Int /\ sent >= -3
      BY <3>2, <3>5
    <3>7. Delivering(p, sent + 1, FALSE)'
      BY <1>0, <1>2, <1>9, <3>2, <3>4, <3>5, <3>6, TokenSent
    <3>8. /\ sent + 1 = SentAt(job', p, fast, r + 1)
          /\ FALSE = (r + 1 = LastStep(job', p, fast))
      BY <1>5, <2>1, <3>2, <3>3
    <3>9. Delivering(p, SentAt(job, p, fast, r + 1), r + 1 = LastStep(job, p, fast))'
      BY <3>7, <3>8
    <3> QED
      BY <1>5, <1>9, <3>3, <3>9 DEF Promised, Kind
  <2> QED
    BY <2>2, <2>3, <2>4, <2>5
<1>10. CASE p \in {"info", "end"}
  <2>1. r # Len(Steps(job, p, fast))
    BY <1>4
  <2>2. Queried(FALSE)
    BY <1>10, <2>1 DEF Promised
  <2>3. PICK w : w = job.wad
    OBVIOUS
  <2>4. HoldsAll(w)' = HoldsAll(w) /\ w = job'.wad
    BY <1>5, <1>6, <2>3
  <2>5. SaysSo'
    BY <1>6, <2>2, <2>3, <2>4 DEF Queried, SaysSo
  <2>6. Queried(TRUE)'
    BY <1>6, <1>7, <2>2, <2>3, <2>4, <2>5 DEF Queried
  <2>7. TRUE = (r + 1 = Len(Steps(job', p, fast)))
    BY <1>4, <1>5, <1>10
  <2> QED
    BY <1>5, <1>10, <2>6, <2>7 DEF Promised, Kind
<1> QED
  BY <1>0, <1>8, <1>9, <1>10 DEF Place, ScriptPart, Kind

\* Once the answer is heard nothing is on its way any more.
LEMMA AnswerTaken ==
  ASSUME toHost \in Seq(HostLine), OneAnswer, TakesLine, ~Dull(Head(toHost)), rx' = rx
  PROVE  rx = <<>> /\ Calm'
<1>1. /\ Len(toHost) \in Nat /\ Len(toHost') \in Nat /\ Len(toHost) = Len(toHost') + 1
      /\ \A i \in 1..Len(toHost') : toHost'[i] = toHost[i + 1]
      /\ Head(toHost) = toHost[1]
  BY DropFacts DEF Drops
<1>2. 1 \in 1..Len(toHost) /\ ~Dull(toHost[1])
  BY <1>1
<1>3. rx = <<>>
  BY <1>2, LastAnswer
<1>4. ASSUME NEW i \in 1..Len(toHost'), ~Dull(toHost'[i]) PROVE FALSE
  <2>1. i + 1 \in 1..Len(toHost) /\ i + 1 # 1 /\ ~Dull(toHost[i + 1])
    BY <1>1, <1>4
  <2> QED
    BY <1>2, <2>1 DEF OneAnswer
<1>5. \A i \in 1..Len(toHost') : Dull(toHost'[i])
  BY <1>4
<1> QED
  BY <1>3, <1>5 DEF Calm, AllDull, Dull

\* The loader is ready: nothing of the upload has been sent.
LEMMA ReadyHeard ==
  ASSUME rx \in Seq(Token), toHost \in Seq(HostLine), faults \in Nat, NEW k \in Kind, Asked(k), TakesLine, Head(toHost) = Ready(k),
         UNCHANGED <<rx, job, loaderVars, faults>>
  PROVE  Delivering(k, -3, FALSE)'
<1>1. ~Dull(Ready(k)) /\ Head(toHost) = toHost[1] /\ 1 \in 1..Len(toHost)
  <2>1. toHost # <<>>
    BY DEF TakesLine
  <2>2. Head(toHost) = toHost[1] /\ Len(toHost) \in Nat \ {0}
    BY <2>1, RestFacts
  <2> QED
    BY <2>2, NotDull
<1>2. rx = <<>> /\ Calm'
  BY <1>1, AnswerTaken DEF Asked
<1>3. pc \in {"magic", "idle"} /\ (pc = "magic" => OfKind(k) /\ Held(k))
  BY <1>1 DEF Asked, Hears
<1>4. /\ Past' = Past /\ InUpload' = InUpload /\ OfKind(k)' = OfKind(k) /\ Held(k)' = Held(k) /\ pc' = pc
  BY BoardFacts
<1>5. Past = -3 /\ (InUpload => Held(k))
  BY <1>3 DEF Past, InUpload
<1>6. ~Hears(Acked(job, k))'
  <2>1. PICK acked : acked = Acked(job, k)
    OBVIOUS
  <2>2. ~Dull(acked) /\ acked = Acked(job', k)
    BY <2>1, NotDull
  <2> QED
    BY <1>2, <2>2 DEF Hears, Calm, AllDull, Dull
<1>7. Len(rx') = 0
  BY <1>2
<1>8. Past' + Len(rx') <= -3
  BY <1>4, <1>5, <1>7
<1>9. Cardinality(Garbled(k, -3)') <= faults'
  <2>1. PICK garbled : garbled = Garbled(k, -3)'
    OBVIOUS
  <2>2. -2..-3 = {}
    OBVIOUS
  <2>3. garbled = {}
    BY <2>1, <2>2 DEF Garbled
  <2>4. Cardinality(garbled) = 0
    BY <2>3, FS_EmptySet
  <2> QED
    BY <2>1, <2>4
<1>10. InStepWith(k, -3)'
  BY <1>4, <1>5, <1>8, <1>9 DEF InStepWith
<1>11. Taken(k, -3, FALSE)'
  BY <1>6 DEF Taken, Answered
<1>12. OkIsTrue(k, FALSE)'
  <2>1. \A m \in 1..Len(toHost') : \A i \in 1..m - 1 : i \in 1..Len(toHost')
    <3>1. Len(toHost') \in Nat
      BY DropFacts DEF Drops
    <3> QED
      BY <3>1
  <2>2. \A i \in 1..Len(toHost') : toHost'[i] # Acked(job, k)'
    BY <1>6 DEF Hears
  <2> QED
    BY <2>1, <2>2, Zenon DEF OkIsTrue
<1> QED
  BY <1>10, <1>11, <1>12 DEF Delivering

\* The uploader hears that the loader has received as many tokens as were to be
\* sent.
LEMMA AllAcknowledged ==
  ASSUME Passes, TakesLine, NEW k \in Kind, NEW sent \in Int, Delivering(k, sent, FALSE),
         Head(toHost) = Acked(job, k)
  PROVE  Delivering(k, sent, TRUE)'
<1>0. toHost \in Seq(HostLine) /\ UNCHANGED <<job, loaderVars>>
  BY DEF Passes
<1>1. Delivering(k, sent, FALSE)'
  BY PassingUpload
<1>2. /\ Len(toHost) \in Nat /\ Len(toHost') \in Nat /\ Len(toHost) = Len(toHost') + 1
      /\ \A i \in 1..Len(toHost') : toHost'[i] = toHost[i + 1]
      /\ Head(toHost) = toHost[1]
  BY <1>0, DropFacts DEF Drops
<1>3. PICK acked, okay : acked = Acked(job, k) /\ okay = Okay(k)
  OBVIOUS
<1>4. toHost[1] = acked /\ 1 \in 1..Len(toHost)
  BY <1>2, <1>3
<1>5. Answered(k, FALSE)
  BY <1>3, <1>4 DEF Answered, Hears
<1>6. /\ pc' = pc /\ Whole(k)' = Whole(k) /\ \A w : HoldsAll(w)' = HoldsAll(w)
  BY <1>0, BoardFacts
<1>7. Taken(k, sent, TRUE)'
  <2>1. /\ rx = <<>> /\ sent = Total(job, k)
        /\ pc \in {"data", "verify", "publish", "idle", "app"} /\ Whole(k)
    BY <1>5 DEF Delivering, Taken
  <2>2. rx' = <<>>
    BY <2>1, PassingLines
  <2> QED
    BY <1>0, <1>6, <2>1, <2>2 DEF Taken
<1>8. OkIsTrue(k, TRUE)'
  <2>1. ASSUME NEW m \in 1..Len(toHost'), toHost'[m] = okay
        PROVE  HoldsAll(Named(k, Absent, job.wad)) /\ OnlyGo(m)'
    <3>1. m + 1 \in 1..Len(toHost) /\ toHost[m + 1] = okay /\ 1 \in 1..(m + 1) - 1
      BY <1>2, <2>1
    <3>2. HoldsAll(Named(k, Absent, job.wad)) /\ OnlyGo(m + 1)
      BY <1>3, <1>4, <3>1, Zenon DEF Delivering, OkIsTrue
    <3>3. ASSUME NEW n \in m + 1..Len(toHost') PROVE toHost'[n] = Line("GO") /\ pc' = "app"
      <4>1. n \in 1..Len(toHost') /\ n + 1 \in (m + 1) + 1..Len(toHost)
        BY <1>2
      <4>2. toHost'[n] = toHost[n + 1]
        BY <1>2, <4>1
      <4> QED
        BY <1>6, <3>2, <4>1, <4>2 DEF OnlyGo
    <3> QED
      BY <3>2, <3>3 DEF OnlyGo
  <2>2. PICK w : w = Named(k, Absent, job.wad)
    OBVIOUS
  <2>3. w = Named(k, Absent, job.wad)' /\ okay = Okay(k)' /\ HoldsAll(w)' = HoldsAll(w)
    BY <1>0, <1>3, <1>6, <2>2
  <2> QED
    BY <2>1, <2>2, <2>3 DEF OkIsTrue
<1>9. InStepWith(k, sent)'
  BY <1>1 DEF Delivering
<1> QED
  BY <1>7, <1>8, <1>9 DEF Delivering

\* Nothing is asked and the board holds what was uploaded.
Settled(w) == Calm /\ HoldsAll(w) /\ (w = job.wad => SaysSo)

\* The uploader hears that the upload has succeeded.
LEMMA OkayHeard ==
  ASSUME Passes, TakesLine, rx' = rx, NEW k \in Kind, NEW sent \in Int, Delivering(k, sent, TRUE),
         Head(toHost) = Okay(k)
  PROVE  Settled(Named(k, Absent, job.wad))'
<1>0. toHost \in Seq(HostLine) /\ UNCHANGED <<job, loaderVars>>
  BY DEF Passes
<1>1. /\ Len(toHost) \in Nat /\ Len(toHost') \in Nat /\ Len(toHost) = Len(toHost') + 1
      /\ \A i \in 1..Len(toHost') : toHost'[i] = toHost[i + 1]
      /\ Head(toHost) = toHost[1]
  BY <1>0, DropFacts DEF Drops
<1>2. 1 \in 1..Len(toHost) /\ toHost[1] = Okay(k)
  BY <1>1
<1>3. HoldsAll(Named(k, Absent, job.wad)) /\ OnlyGo(1)
  BY <1>2, Zenon DEF Delivering, OkIsTrue
<1>4. rx' = <<>>
  BY DEF Delivering, Taken, Answered
<1>5. \A i \in 1..Len(toHost') : toHost'[i] = Line("GO") /\ pc = "app"
  <2> TAKE i \in 1..Len(toHost')
  <2>1. i + 1 \in 1 + 1..Len(toHost)
    BY <1>1
  <2> QED
    BY <1>1, <1>3, <2>1 DEF OnlyGo
<1>6. Line("GO").of = "GO"
  BY NameFacts
<1>7. Calm'
  BY <1>4, <1>5, <1>6 DEF Calm, AllDull, Dull
<1>8. PICK w : w = Named(k, Absent, job.wad)
  OBVIOUS
<1>9. w = Named(k, Absent, job.wad)' /\ HoldsAll(w)' /\ pc' = pc
  BY <1>0, <1>3, <1>8, BoardFacts
<1>10. w = job'.wad => SaysSo'
  BY <1>5, <1>6, <1>9 DEF SaysSo
<1> QED
  BY <1>7, <1>8, <1>9, <1>10, Zenon DEF Settled

\* A settled board may be asked what it holds.
LEMMA SettledQuery ==
  ASSUME Settled(job.wad)', NEW waits \in BOOLEAN
  PROVE  Queried(waits)'
<1>1. Calm' /\ HoldsAll(job.wad)' /\ SaysSo'
  BY DEF Settled
<1>2. OneAnswer'
  <2>1. rx' = <<>> /\ AllDull' /\ Len(<<>>) = 0
    BY <1>1 DEF Calm
  <2>2. Len(rx') <= 1
    BY <2>1
  <2> QED
    BY <2>1, <2>2 DEF OneAnswer, AllDull
<1> QED
  BY <1>1, <1>2 DEF Queried, HoldsAll

\* The uploader's success is one, and nothing is left on the line that the
\* loader would take for a command.
UploadIsTrue ==
  /\ Runnable = job.image /\ Published = job.wad /\ (pc = "app") = job.run
  /\ pc = "app" \/ (pc = "idle" /\ rx = <<>>)

\* What is promised when a part of the script is over is promised for the next.
LEMMA NextPart ==
  ASSUME NEW k \in Kind, k = "wad" => job.wad # Absent, job' = job, Settled(Named(k, Absent, job.wad))', NEW fast
  PROVE  Promised(Following(job, k), fast, 1)'
<1>1. PICK waits \in BOOLEAN : waits = (1 = Len(Steps(job, Following(job, k), fast)))
  OBVIOUS
<1>2. CASE k = "app" /\ job.wad # Absent
  <2>1. Following(job, k) = "wad"
    BY <1>2 DEF Following
  <2>2. Calm' /\ HoldsAll(Absent)'
    BY <1>2 DEF Settled, Named
  <2> QED
    BY <2>1, <2>2 DEF Promised, Kind
<1>3. CASE ~(k = "app" /\ job.wad # Absent)
  <2>1. Following(job, k) \in {"info", "end"}
    BY <1>3 DEF Following, Kind
  <2>2. Settled(job.wad)'
    <3>1. Named(k, Absent, job.wad) = job.wad
      BY <1>3 DEF Named, Kind
    <3> QED
      BY <3>1
  <2>3. Queried(waits)'
    BY <2>2, SettledQuery
  <2>4. waits = (1 = Len(Steps(job', Following(job', k), fast)))
    BY <1>1
  <2> QED
    BY <2>1, <2>3, <2>4 DEF Promised, Kind
<1> QED
  BY <1>2, <1>3

\* What the uploader does when it waits in an upload.
LEMMA UploadHears ==
  ASSUME Passes, UNCHANGED <<rx, faults>>, job \in Job, TakesLine, NEW p \in Kind, NEW fast, NEW r, At(p, fast, r), Promised(p, fast, r),
         StepAt(p, fast, r).do # "send", Head(toHost) = StepAt(p, fast, r).line, Host!GoOn
  PROVE  /\ outcome' = "busy"
         /\ \/ At(p, fast, r + 1)' /\ Promised(p, fast, r + 1)'
            \/ At(Following(job, p), fast, 1)' /\ Promised(Following(job, p), fast, 1)'
<1>0. /\ UNCHANGED <<job, loaderVars, faults, rx>> /\ toHost \in Seq(HostLine) /\ faults \in Nat
      /\ Place(job, todo, p, fast, r) /\ rx \in Seq(Token)
  BY DEF Passes, At
<1>1. PICK last : last = LastStep(job, p, fast)
  OBVIOUS
<1>2. PICK s : s = Steps(job, p, fast)[r]
  OBVIOUS
<1>3. /\ r \in Nat /\ (r = 1 \/ r = 2 \/ (r >= 3 /\ r # 1 /\ r # 2)) /\ (p = "wad" => job.wad # Absent)
      /\ r \in 1..last /\ Len(Steps(job, p, fast)) = last
      /\ UploadStep(job, p, fast, last, r, s)
      /\ r >= 3 => SentAt(job, p, fast, r) \in Int
  BY <1>0, <1>1, <1>2, UploadPlace
<1>4. s.do # "send" /\ Head(toHost) = s.line
  BY <1>2 DEF StepAt
<1>5. /\ last \in Nat /\ last >= 8 /\ SentAt(job, p, fast, 3) = -3
      /\ s \in ScriptStep /\ r # 1
      /\ r = 2 => s.line = Ready(p)
      /\ r >= 3 /\ s.do = "wait" /\ r < last => SentAt(job, p, fast, r + 1) = SentAt(job, p, fast, r)
      /\ r = last - 1 => s.line = Acked(job, p)
      /\ r = last => s.line = Okay(p)
  BY <1>3, <1>4 DEF UploadStep
<1>6. s.do = "wait"
  BY <1>4, <1>5 DEF ScriptStep
<1>7. /\ r < last => outcome' = "busy" /\ At(p, fast, r + 1)'
      /\ r = last => outcome' = "busy" /\ At(Following(job, p), fast, 1)'
      /\ r < last \/ r = last
  BY <1>3, GoOnFacts DEF Kind
<1>8. CASE r = 2
  <2>1. Asked(p) /\ Head(toHost) = Ready(p)
    BY <1>4, <1>5, <1>8 DEF Promised
  <2>2. Delivering(p, -3, FALSE)'
    BY <1>0, <2>1, ReadyHeard
  <2>3. r + 1 = 3 /\ 3 # last /\ r < last
    BY <1>5, <1>8
  <2>4. /\ SentAt(job', p, fast, r + 1) = -3 /\ FALSE = (r + 1 = LastStep(job', p, fast))
    BY <1>0, <1>1, <1>5, <2>3
  <2>5. Delivering(p, SentAt(job, p, fast, r + 1), r + 1 = LastStep(job, p, fast))'
    BY <2>2, <2>4
  <2>6. r + 1 >= 3 /\ r + 1 # 1 /\ r + 1 # 2
    BY <1>8
  <2>7. Promised(p, fast, r + 1)'
    BY <2>5, <2>6 DEF Promised, Kind
  <2> QED
    BY <1>7, <2>3, <2>7
<1>9. CASE r >= 3 /\ r # 1 /\ r # 2 /\ r < last
  <2>1. PICK sent \in Int : sent = SentAt(job, p, fast, r)
    BY <1>3, <1>9
  <2>2. r # last /\ r + 1 >= 3 /\ r + 1 # 1 /\ r + 1 # 2 /\ (r + 1 = last => r = last - 1)
    BY <1>3, <1>5, <1>9
  <2>3. Delivering(p, sent, FALSE)
    BY <1>1, <1>9, <2>1, <2>2 DEF Promised
  <2>4. PICK done \in BOOLEAN : done = (r + 1 = last)
    OBVIOUS
  <2>5. Delivering(p, sent, done)'
    <3>1. CASE done
      <4>1. Head(toHost) = Acked(job, p)
        BY <1>4, <1>5, <2>2, <2>4, <3>1
      <4> QED
        BY <2>3, <3>1, <4>1, AllAcknowledged
    <3>2. CASE ~done
      BY <2>3, <3>2, PassingUpload
    <3> QED
      BY <3>1, <3>2
  <2>6. sent = SentAt(job', p, fast, r + 1) /\ done = (r + 1 = LastStep(job', p, fast))
    BY <1>0, <1>1, <1>5, <1>6, <1>9, <2>1, <2>4
  <2>7. Delivering(p, SentAt(job, p, fast, r + 1), r + 1 = LastStep(job, p, fast))'
    BY <2>5, <2>6
  <2>8. Promised(p, fast, r + 1)'
    BY <2>2, <2>7 DEF Promised, Kind
  <2> QED
    BY <1>7, <1>9, <2>8
<1>10. CASE r >= 3 /\ r # 1 /\ r # 2 /\ r = last
  <2>1. PICK sent \in Int : sent = SentAt(job, p, fast, r)
    BY <1>3, <1>10
  <2>2. Delivering(p, sent, TRUE)
    BY <1>1, <1>10, <2>1 DEF Promised
  <2>3. Head(toHost) = Okay(p)
    BY <1>4, <1>5, <1>10
  <2>4. Settled(Named(p, Absent, job.wad))'
    BY <1>0, <2>2, <2>3, OkayHeard
  <2>5. Promised(Following(job, p), fast, 1)'
    BY <1>0, <1>3, <2>4, NextPart
  <2> QED
    BY <1>7, <1>10, <2>5
<1> QED
  BY <1>3, <1>5, <1>7, <1>8, <1>9, <1>10

\* What the uploader does when it has asked what the board holds.
LEMMA QueryHears ==
  ASSUME Passes, UNCHANGED rx, job \in Job, TakesLine, NEW p \in {"info", "end"}, NEW fast, NEW r, At(p, fast, r), Promised(p, fast, r),
         StepAt(p, fast, r).do # "send", Head(toHost) = StepAt(p, fast, r).line, Host!GoOn
  PROVE  /\ p = "info" => outcome' = "busy" /\ At("end", fast, 1)' /\ Promised("end", fast, 1)'
         /\ p = "end" => outcome' = "ok" /\ UploadIsTrue'
<1>0. /\ UNCHANGED <<job, loaderVars, rx>> /\ toHost \in Seq(HostLine)
      /\ Place(job, todo, p, fast, r)
  BY DEF Passes, At
<1>1. PICK q : q = Steps(job, p, fast)
  OBVIOUS
<1>2. /\ p \in ScriptPart /\ fast \in BOOLEAN /\ HasPart(job, p) /\ r \in 1..Len(q)
      /\ p = "info" => job.wad # Absent
  BY <1>0, <1>1 DEF Place, HasPart
<1>3. IsQuery(job, p, q)
  BY <1>1, <1>2, QueryFacts
<1>4. r = Len(q) /\ Head(toHost) = IF p = "info" THEN InfoLine(job) ELSE EndLine(job)
  <2>1. /\ Len(q) \in {1, 2}
        /\ \A i \in 1..Len(q) - 1 : q[i].do = "send"
        /\ q[Len(q)].line = IF p = "info" THEN InfoLine(job) ELSE EndLine(job)
    BY <1>3 DEF IsQuery
  <2>2. q[r].do # "send" /\ Head(toHost) = q[r].line
    BY <1>1 DEF StepAt
  <2>3. r \notin 1..Len(q) - 1
    BY <2>1, <2>2
  <2>4. r = Len(q)
    BY <1>2, <2>1, <2>3
  <2> QED
    BY <2>1, <2>2, <2>4
<1>5. Queried(TRUE)
  <2>1. TRUE = (r = Len(Steps(job, p, fast)))
    BY <1>1, <1>4
  <2> QED
    BY <2>1 DEF Promised
<1>6. OneAnswer /\ SaysSo /\ pc \in {"idle", "magic", "app"}
  BY <1>5 DEF Queried
<1>7. toHost[1] = Head(toHost) /\ 1 \in 1..Len(toHost)
  <2>1. toHost # <<>>
    BY DEF TakesLine
  <2> QED
    BY <1>0, <2>1, RestFacts
<1>8. pc' = pc /\ Runnable' = Runnable /\ Published' = Published /\ \A w : HoldsAll(w)' = HoldsAll(w)
  <2>1. Runnable' = Runnable /\ Published' = Published
    BY <1>0 DEF loaderVars, Runnable, Published, Content
  <2> QED
    BY <1>0, <2>1, BoardFacts
<1>9. ASSUME p = "info"
      PROVE  outcome' = "busy" /\ At("end", fast, 1)' /\ Promised("end", fast, 1)'
  <2>1. Head(toHost).of = "WAD_INFO"
    BY <1>4, <1>9 DEF InfoLine
  <2>2. ~Dull(Head(toHost))
    BY <2>1 DEF Dull
  <2>3. rx = <<>> /\ Calm'
    BY <1>0, <1>6, <2>2, AnswerTaken
  <2>4. HoldsAll(job.wad)
    BY <1>6, <1>7, <2>1 DEF SaysSo
  <2>5. PICK w : w = job.wad
    OBVIOUS
  <2>6. HoldsAll(w) /\ HoldsAll(w)' /\ job'.wad = w
    BY <1>0, <1>8, <2>4, <2>5
  <2>7. SaysSo'
    <3>1. Drops(1)
      BY <1>0, DropFacts
    <3>2. \A i \in 1..Len(toHost') : toHost'[i] = toHost[i + 1] /\ i + 1 \in 1..Len(toHost)
      BY <3>1 DEF Drops
    <3> QED
      BY <1>6, <1>8, <2>5, <2>6, <3>2 DEF SaysSo
  <2>8. Settled(job.wad)'
    BY <2>3, <2>5, <2>6, <2>7 DEF Settled
  <2>9. PICK waits \in BOOLEAN : waits = (1 = Len(Steps(job', "end", fast)))
    OBVIOUS
  <2>10. Queried(waits)'
    BY <2>8, SettledQuery
  <2>11. Promised("end", fast, 1)'
    BY <2>9, <2>10 DEF Promised, Kind
  <2>12. outcome' = "busy" /\ At(Following(job, p), fast, 1)'
    BY <1>1, <1>4, <1>9, GoOnFacts
  <2>13. Following(job, p)' = "end"
    BY <1>9 DEF Following
  <2> QED
    BY <2>11, <2>12, <2>13
<1>10. ASSUME p = "end"
       PROVE  outcome' = "ok" /\ UploadIsTrue'
  <2>1. outcome' = "ok"
    BY <1>1, <1>4, <1>10, GoOnFacts
  <2>2. Head(toHost) = EndLine(job) /\ job.run \in BOOLEAN
    BY <1>4, <1>10, JobAssumption
  <2>3. HoldsAll(job.wad) /\ (pc = "app") = job.run /\ (pc = "app" \/ (pc = "idle" /\ rx = <<>>))
    <3>1. CASE job.run
      <4>1. Head(toHost).of = "GO"
        BY <2>2, <3>1, NameFacts DEF EndLine
      <4> QED
        BY <1>6, <1>7, <3>1, <4>1 DEF SaysSo
    <3>2. CASE ~job.run
      <4>1. Head(toHost).of = "INFO"
        BY <2>2, <3>2 DEF EndLine
      <4>2. pc = "idle" /\ HoldsAll(job.wad)
        BY <1>6, <1>7, <4>1 DEF SaysSo
      <4>3. rx = <<>>
        <5>1. ~Dull(Head(toHost))
          BY <4>1 DEF Dull
        <5> QED
          BY <1>0, <1>6, <5>1, AnswerTaken
      <4> QED
        BY <2>2, <3>2, <4>2, <4>3
    <3> QED
      BY <3>1, <3>2
  <2>4. Runnable = job.image /\ Published = job.wad
    BY <2>3 DEF HoldsAll
  <2> QED
    BY <1>0, <1>8, <2>1, <2>3, <2>4 DEF UploadIsTrue
<1> QED
  BY <1>9, <1>10

\* To name the place is enough.
LEMMA PlaceNamed ==
  ASSUME NEW p, NEW fast, NEW r, At(p, fast, r)', Promised(p, fast, r)'
  PROVE  OnCourse'
<1>1. p \in ScriptPart /\ fast \in BOOLEAN /\ r \in 1..Len(Steps(job', p, fast))
  BY DEF At, Place
<1>2. r \in Nat
  BY <1>1
<1> QED
  BY <1>1, <1>2 DEF OnCourse

\* The uploader that hears a line, or gives up, keeps the promise and may
\* report it.
LEMMA WaitKept ==
  ASSUME IInv, HostInv, Host!HearLine \/ Host!TimeOut, UNCHANGED <<loaderVars, faults>>,
         NEW p, NEW fast, NEW r, At(p, fast, r), Promised(p, fast, r)
  PROVE  /\ outcome' = "busy" => OnCourse'
         /\ outcome' = "ok" => UploadIsTrue'
<1>0. /\ rx \in Seq(Token) /\ toHost \in Seq(HostLine) /\ job \in Job /\ faults \in Nat
  BY JobAssumption DEF IInv, LoaderTypeOK, HostInv
<1>1. /\ outcome = "busy" /\ StepAt(p, fast, r).do # "send" /\ UNCHANGED rx
      /\ p = "ask" => r \in {2, 4}
      /\ Hearing(p, fast, r)
  BY <1>0, WaitStepFacts
<1>2. UNCHANGED toHost \/ TakesLine => (job' = job => Passes)
  BY <1>0, <1>1 DEF Passes
<1>3. p \in ScriptPart
  BY DEF At, Place
<1>4. CASE Host!GiveUp
  BY <1>4 DEF Host!GiveUp
<1>5. CASE TakesLine /\ UNCHANGED <<job, todo, outcome>>
  <2>1. Promised(p, fast, r)'
    BY <1>0, <1>2, <1>5, PassingPromise
  <2>2. At(p, fast, r)'
    BY <1>5 DEF At
  <2> QED
    BY <1>1, <1>5, <2>1, <2>2, PlaceNamed
<1>6. CASE TakesLine /\ p = "ask" /\ r = 2 /\ Head(toHost).of = "WAD_INFO" /\ Host!GoOn
  <2>1. OneAnswer
    BY <1>6 DEF Promised
  <2>2. Calm'
    <3>1. ~Dull(Head(toHost))
      BY <1>6 DEF Dull
    <3> QED
      BY <1>0, <1>1, <1>6, <2>1, <3>1, AnswerTaken
  <2>3. outcome' = "busy" /\ At("ask", fast, 3)'
    <3>1. Len(Steps(job, p, fast)) = 4
      <4>1. GoesOnFrom(job, todo, p, fast, r)
        BY <1>0, PlaceFacts, Zenon DEF At
      <4> QED
        BY <1>6, <4>1 DEF GoesOnFrom
    <3>2. r < Len(Steps(job, p, fast)) /\ r + 1 = 3 /\ r # 4
      BY <1>6, <3>1
    <3> QED
      BY <1>0, <1>6, <3>2, GoOnFacts
  <2>4. Promised("ask", fast, 3)'
    BY <2>2 DEF Promised, Kind
  <2> QED
    BY <2>3, <2>4, PlaceNamed
<1>7. CASE \/ TakesLine /\ p = "ask" /\ r = 4 /\ Head(toHost) = Line("CAPS") /\ Host!Answer(TRUE)
           \/ toHost = <<>> /\ toHost' = <<>> /\ rx = <<>> /\ p = "ask" /\ r = 4 /\ Host!Answer(FALSE)
  <2>1. OneAnswer /\ p = "ask" /\ r = 4
    <3>1. 4 \notin {1, 3}
      OBVIOUS
    <3> QED
      BY <1>7, <3>1 DEF Promised
  <2>2. Calm'
    <3>1. CASE TakesLine /\ Head(toHost) = Line("CAPS")
      <4>1. ~Dull(Head(toHost))
        BY <3>1, NameFacts DEF Dull
      <4> QED
        BY <1>0, <1>1, <2>1, <3>1, <4>1, AnswerTaken
    <3>2. CASE rx = <<>> /\ toHost' = <<>>
      BY <1>1, <3>2 DEF Calm, AllDull
    <3> QED
      BY <1>7, <3>1, <3>2
  <2>3. PICK a \in BOOLEAN : Host!Answer(a)
    <3>1. TRUE \in BOOLEAN /\ FALSE \in BOOLEAN
      OBVIOUS
    <3> QED
      BY <1>7, <3>1
  <2>4. outcome' = outcome /\ At("app", a, 1)'
    BY <1>0, <2>1, <2>3, AnswerFacts
  <2>5. Promised("app", a, 1)'
    BY <2>2 DEF Promised, Kind
  <2> QED
    BY <1>1, <2>4, <2>5, PlaceNamed
<1>8. CASE TakesLine /\ p # "ask" /\ Head(toHost) = StepAt(p, fast, r).line /\ Host!GoOn
  <2>1. Passes
    BY <1>2, <1>8 DEF Host!GoOn
  <2>2. CASE p \in Kind
    <3>1. /\ outcome' = "busy"
          /\ \/ At(p, fast, r + 1)' /\ Promised(p, fast, r + 1)'
             \/ At(Following(job, p), fast, 1)' /\ Promised(Following(job, p), fast, 1)'
      BY <1>0, <1>1, <1>8, <2>1, <2>2, UploadHears
    <3>2. PICK q : q = Following(job', p)
      OBVIOUS
    <3>3. At(q, fast, 1)' /\ Promised(q, fast, 1)' => OnCourse'
      BY PlaceNamed
    <3>4. At(p, fast, r + 1)' /\ Promised(p, fast, r + 1)' => OnCourse'
      BY PlaceNamed
    <3> QED
      BY <3>1, <3>2, <3>3, <3>4
  <2>3. CASE p \in {"info", "end"}
    <3>1. /\ p = "info" => outcome' = "busy" /\ At("end", fast, 1)' /\ Promised("end", fast, 1)'
          /\ p = "end" => outcome' = "ok" /\ UploadIsTrue'
      BY <1>0, <1>1, <1>8, <2>1, <2>3, QueryHears
    <3> QED
      BY <2>3, <3>1, PlaceNamed
  <2> QED
    BY <1>3, <1>8, <2>2, <2>3 DEF ScriptPart, Kind
<1> QED
  BY <1>1, <1>4, <1>5, <1>6, <1>7, <1>8, Zenon DEF Hearing

-----------------------------------------------------------------------------
\* Every step of the system keeps an upload on its course, and one that ends it
\* with success ends it on a board that holds what was uploaded.
LEMMA NextUploadInv ==
  ASSUME CrcDetects, SystemInv, SystemInv', UploadInv, [Next]_vars
  PROVE  /\ UploadInv'
         /\ outcome = "busy" /\ outcome' = "ok" /\ ~cut => job' = job /\ UploadIsTrue'
<1>0. /\ IInv /\ IInv' /\ HostInv /\ rx \in Seq(Token) /\ toHost \in Seq(HostLine) /\ job \in Job
      /\ faults \in Nat /\ \A n \in 0..MaxFaults : n \in Nat
  BY JobAssumption DEF SystemInv, IInv, LoaderTypeOK, HostInv
<1>a. outcome = "busy" /\ ~cut => \E p, fast, r : At(p, fast, r) /\ Promised(p, fast, r)
  BY DEF UploadInv, OnCourse
<1>b. ASSUME Passes, UNCHANGED <<hostVars, cut>>
      PROVE  UploadInv' /\ ~(outcome = "busy" /\ outcome' = "ok")
  <2>1. ASSUME outcome' = "busy", ~cut' PROVE OnCourse'
    <3>1. PICK p, fast, r : At(p, fast, r) /\ Promised(p, fast, r)
      BY <1>a, <1>b, <2>1 DEF hostVars
    <3>2. At(p, fast, r)' /\ Promised(p, fast, r)'
      BY <1>0, <1>b, <3>1, PassingPromise DEF At, hostVars
    <3> QED
      BY <3>2, PlaceNamed
  <2> QED
    BY <1>b, <2>1 DEF UploadInv, hostVars
<1>c. ASSUME NEW t \in Token, Sends(t), UNCHANGED cut
      PROVE  UploadInv' /\ ~(outcome = "busy" /\ outcome' = "ok" /\ ~cut)
  <2>1. outcome = "busy"
    BY <1>0, <1>c, SendingNow DEF Sends
  <2>2. CASE cut
    BY <1>c, <2>2 DEF UploadInv
  <2>3. CASE ~cut
    <3>1. PICK p, fast, r : At(p, fast, r) /\ Promised(p, fast, r)
      BY <1>a, <2>1, <2>3
    <3>2. At(p, fast, r + 1)' /\ Promised(p, fast, r + 1)'
      BY <1>0, <1>c, <3>1, SendKept
    <3>3. OnCourse'
      BY <3>2, PlaceNamed
    <3>4. outcome' = "busy"
      <4>1. Steps(job, p, fast)[r].do = "send" /\ Host!GoOn /\ (p = "ask" => r # 4)
        BY <1>0, <1>c, <3>1, SentFacts DEF StepAt
      <4>2. r < Len(Steps(job, p, fast))
        BY <1>0, <3>1, <4>1, SendNotLast DEF At
      <4> QED
        BY <1>0, <3>1, <4>1, <4>2, GoOnFacts
    <3> QED
      BY <3>3, <3>4 DEF UploadInv
  <2> QED
    BY <2>2, <2>3
<1>1. CASE LoaderMoves
  <2>1. ASSUME outcome' = "busy", ~cut' PROVE OnCourse'
    <3>1. PICK p, fast, r : At(p, fast, r) /\ Promised(p, fast, r)
      BY <1>1, <1>a, <2>1 DEF LoaderMoves, hostVars
    <3>2. At(p, fast, r)'
      BY <1>1, <3>1 DEF At, LoaderMoves, hostVars
    <3>3. Promised(p, fast, r)'
      BY <1>0, <1>1, <2>1, <3>1, LoaderKept DEF LoaderMoves
    <3> QED
      BY <3>2, <3>3, PlaceNamed
  <2> QED
    BY <1>1, <2>1 DEF UploadInv, LoaderMoves, hostVars
<1>2. CASE AppReads
  <2>1. Passes /\ UNCHANGED <<hostVars, cut>>
    BY <1>0, <1>2 DEF AppReads, Passes, hostVars
  <2> QED
    BY <1>b, <2>1
<1>3. CASE UserUploads
  <2>1. PICK j \in Job : Host!Open(j)
    BY <1>3 DEF UserUploads
  <2>2. /\ toHost' = <<>> /\ rx' = <<>> /\ outcome # "busy"
        /\ At("ask", TRUE, 1)' \/ At("app", TRUE, 1)'
    BY <2>1, OpenFacts
  <2>3. Calm'
    BY <2>2 DEF Calm, AllDull
  <2>4. Promised("ask", TRUE, 1)' /\ Promised("app", TRUE, 1)'
    BY <2>3 DEF Promised, Kind
  <2>5. OnCourse'
    BY <2>2, <2>4, PlaceNamed
  <2> QED
    BY <2>2, <2>5 DEF UploadInv
<1>4. CASE PowerCycle
  BY <1>4 DEF PowerCycle, Restart, hostVars, UploadInv
<1>5. CASE Host!SendToken /\ UNCHANGED <<loaderVars, session, faults, cut>>
  <2>1. 0 \in Token /\ Sends(0)
    BY <1>0, <1>5, TokenAssumption DEF Sends, Sending
  <2> QED
    BY <1>5, <1>c, <2>1
<1>6. CASE (Host!HearLine \/ Host!TimeOut) /\ UNCHANGED <<loaderVars, session, faults, cut>>
  <2>1. outcome = "busy" /\ job' = job
    BY <1>6, Zenon DEF Host!HearLine, Host!TimeOut, Host!Doing, Host!GoOn, Host!GiveUp, Host!Answer
  <2>2. CASE cut
    BY <1>6, <2>2 DEF UploadInv
  <2>3. CASE ~cut
    <3>1. PICK p, fast, r : At(p, fast, r) /\ Promised(p, fast, r)
      BY <1>a, <2>1, <2>3
    <3>2. (outcome' = "busy" => OnCourse') /\ (outcome' = "ok" => UploadIsTrue')
      BY <1>0, <1>6, <3>1, WaitKept
    <3> QED
      BY <2>1, <3>2 DEF UploadInv
  <2> QED
    BY <2>2, <2>3
<1>7. CASE FaultOnLine
  <2>1. faults' = faults + 1 /\ faults' \in Nat /\ faults <= faults' /\ UNCHANGED <<loaderVars, cut>>
    BY <1>0, <1>7 DEF FaultOnLine
  <2>2. CASE Host!LoseLine
    <3>1. Passes /\ UNCHANGED <<hostVars, cut>>
      BY <1>0, <2>1, <2>2 DEF Host!LoseLine, Passes, TakesLine, hostVars
    <3> QED
      BY <1>b, <3>1
  <2>3. CASE \E t \in Token : Sending(t)
    <3>1. PICK t \in Token : Sending(t)
      BY <2>3
    <3>2. Sends(t)
      BY <2>1, <3>1 DEF Sends
    <3> QED
      BY <1>c, <2>1, <3>2
  <2> QED
    BY <1>7, <2>2, <2>3 DEF FaultOnLine
<1>8. CASE Plays
  BY <1>0, <1>8 DEF Plays, HostInv, hostVars, UploadInv
<1>9. CASE Elsewhere
  <2>1. Passes /\ UNCHANGED <<hostVars, cut>>
    BY <1>0, <1>9 DEF Elsewhere, OneFault, Passes, hostVars, lineVars
  <2> QED
    BY <1>b, <2>1
<1> QED
  BY <1>0, <1>1, <1>2, <1>3, <1>4, <1>5, <1>6, <1>7, <1>8, <1>9, SystemCases

\* Whatever the line loses or garbles, up to MaxFaults times, however slow the
\* board and whatever it was told before: when ddr_upload.ps1 reports success and
\* the board was not powered up meanwhile, the board holds what was uploaded.
THEOREM UploadsAreRight ==
  ASSUME CrcDetects
  PROVE  Spec => HostAgrees
<1>1. Init => UploadInv
  BY DEF Init, Host!HostInit, UploadInv
<1>2. SystemInv /\ SystemInv' /\ UploadInv /\ [Next]_vars => UploadInv'
  BY NextUploadInv
<1>3. SystemInv /\ SystemInv' /\ UploadInv /\ [Next]_vars =>
        [outcome = "busy" /\ outcome' = "ok" /\ ~cut =>
           Runnable' = job.image /\ Published' = job.wad /\ (pc' = "app") = job.run]_vars
  BY NextUploadInv DEF UploadIsTrue
<1> QED
  BY <1>1, <1>2, <1>3, SystemInvariance, PTL DEF Spec, HostAgrees
-----------------------------------------------------------------------------
(***************************************************************************)
(* What DOOM reads.                                                        *)
(***************************************************************************)

\* After a success nothing happens on the board but the application that was
\* uploaded, until the user presses BTN0 or uploads again.
SuccessInv ==
  outcome = "ok" /\ ~cut =>
    \/ pc = "app" /\ Published = job.wad
    \/ pc \in {"wait", "idle"} /\ rx = <<>>

\* DOOM has found its WAD, and it stays.
FilesInv == session = "files" => handoff.magic

\* The loader does nothing while nothing is sent to it.
LEMMA LoaderAtRest ==
  ASSUME LoaderStep \/ ByteTimeOut, pc \in {"wait", "idle"}, rx = <<>>
  PROVE  pc' = "idle" /\ rx' = <<>>
BY DEF LoaderStep, ByteTimeOut, MemoryReady, VerifyApp, VerifyWad, PublishWad, BeginUpload, BeginWad,
   GoCommand, OtherCommand, ReadMagic, ReadSize, ReadCrc, ReadData, Receive, lineVars

\* Every step of the system keeps both.
LEMMA NextSuccessInv ==
  ASSUME CrcDetects, SystemInv, SystemInv', UploadInv, SuccessInv, [Next]_vars
  PROVE  SuccessInv'
<1>0. HostInv /\ rx \in Seq(Token)
  BY DEF SystemInv, IInv, LoaderTypeOK
<1> SUFFICES ASSUME outcome' = "ok", ~cut' PROVE SuccessInv'
  BY DEF SuccessInv
<1>a. UNCHANGED loaderVars => Published' = Published /\ pc' = pc
  BY DEF loaderVars, Published, Content
<1>b. CASE outcome = "busy" /\ ~cut
  BY <1>b, NextUploadInv DEF UploadIsTrue, SuccessInv
<1>c. CASE UNCHANGED <<loaderVars, outcome, job, cut>> /\ (pc = "app" \/ UNCHANGED rx)
  BY <1>a, <1>c DEF SuccessInv
<1>1. CASE LoaderMoves
  <2>1. pc # "app" /\ outcome = "ok" /\ ~cut
    BY <1>1, LoaderAwake DEF LoaderMoves, hostVars
  <2>2. pc \in {"wait", "idle"} /\ rx = <<>>
    BY <2>1 DEF SuccessInv
  <2> QED
    BY <1>1, <2>2, LoaderAtRest DEF LoaderMoves, SuccessInv
<1>2. CASE AppReads
  BY <1>2, <1>c DEF AppReads, hostVars
<1>3. CASE UserUploads
  BY <1>3 DEF UserUploads, Host!Open
<1>4. CASE PowerCycle
  BY <1>4 DEF PowerCycle, Restart, LoaderReset, SuccessInv
<1>5. CASE (Host!SendToken \/ Host!HearLine \/ Host!TimeOut) /\ UNCHANGED <<loaderVars, session, faults, cut>>
  <2>1. outcome = "busy"
    BY <1>5, Zenon DEF Host!SendToken, Host!HearLine, Host!TimeOut, Host!Doing
  <2> QED
    BY <1>5, <1>b, <2>1
<1>6. CASE FaultOnLine
  <2>1. CASE Host!LoseLine
    BY <1>6, <1>c, <2>1 DEF FaultOnLine, Host!LoseLine
  <2>2. CASE \E t \in Token : Sending(t)
    <3>1. outcome = "busy"
      BY <1>0, <2>2, SendingNow
    <3> QED
      BY <1>6, <1>b, <3>1 DEF FaultOnLine
  <2> QED
    BY <1>6, <2>1, <2>2 DEF FaultOnLine
<1>7. CASE Plays
  BY <1>0, <1>7, <1>c DEF Plays, HostInv, hostVars
<1>8. CASE Elsewhere
  BY <1>8, <1>c DEF Elsewhere, hostVars, lineVars
<1> QED
  BY <1>0, <1>1, <1>2, <1>3, <1>4, <1>5, <1>6, <1>7, <1>8, SystemCases

\* The record is written while no application runs.
LEMMA NextFilesInv ==
  ASSUME HostInv, FilesInv, [Next]_vars
  PROVE  FilesInv'
<1> SUFFICES ASSUME session' = "files" PROVE handoff'.magic
  BY DEF FilesInv
<1>1. CASE DoomBegins
  BY <1>1 DEF DoomBegins, Sessions, Files!DoomMain, Files!HandoffInfo, loaderVars
<1>2. CASE UNCHANGED <<session, handoff>>
  BY <1>2 DEF FilesInv
<1>3. CASE Loader
  <2>1. session = "files" /\ (LoaderStep \/ ByteTimeOut)
    BY <1>3 DEF Loader, doomVars
  <2> QED
    BY <2>1, LoaderAwake DEF HostInv
<1>4. CASE UserResets \/ Fault
  BY <1>2, <1>4, LoaderAwake DEF UserResets, Fault, UploadFault, PictureFault, Restart, HostInv, doomVars, loaderVars
<1>5. CASE HostStep \/ UserUploads \/ AppReads \/ Loads \/ Draws \/ Plays \/ UNCHANGED vars
  BY <1>2, <1>5 DEF HostStep, UserUploads, AppReads, Loads, Draws, Plays, doomVars, loaderVars, vars
<1> QED
  BY <1>1, <1>3, <1>4, <1>5 DEF Next

\* A lump of the file that the loader has verified is inside it.
LEMMA LumpWithin ==
  ASSUME IInv, handoff.magic, NEW i \in Lumps(Published)
  PROVE  /\ Published = Content(wad, handoff.size) /\ handoff.size \in 0..WadMax
         /\ Position(Published, i) \in Nat /\ Length(Published, i) \in Nat
         /\ Length(Published, i) # 0 => Position(Published, i) + Length(Published, i) <= handoff.size
<1>1. PICK size, p : size = handoff.size /\ p = Published
  OBVIOUS
<1>2. /\ p = Content(wad, size) /\ p \in Wad /\ WellFormed(p, size)
  BY <1>1, IInvReadable DEF HandoffIsReadable, Published, Readable
<1>3. size \in HeaderLen..WadMax /\ size \in 0..WadMax /\ size \in Nat
  BY <1>1, SizeFacts DEF IInv, HandoffIsSound, Sealed
<1>4. \A k \in 1..size : p[k] \in Nat
  <2>1. p \in Seq(Token \cap 0..Word - 1) /\ Word \in Nat
    BY <1>2, FileAssumption
  <2>2. DOMAIN p = 1..size
    BY <1>2 DEF Content
  <2>3. \A k \in DOMAIN p : p[k] \in 0..Word - 1
    BY <2>1, LenProperties
  <2> QED
    BY <2>1, <2>2, <2>3
<1>5. /\ Directory(p) \in Nat /\ Count(p) \in Nat /\ i \in Nat /\ i < Count(p)
      /\ Directory(p) + Count(p) * 3 <= size
  <2>1. 2 \in 1..size /\ 3 \in 1..size
    BY <1>3, SizeFacts
  <2>2. Directory(p) \in Nat /\ Count(p) \in Nat
    BY <1>4, <2>1 DEF Directory, Count
  <2>3. i \in Nat /\ i < Count(p)
    BY <1>1, FileAssumption DEF Lumps
  <2> QED
    BY <1>2, <2>2, <2>3 DEF WellFormed, EntryLen
<1>6. Directory(p) + i * 3 + 1 \in 1..size /\ Directory(p) + i * 3 + 2 \in 1..size
  BY <1>3, <1>5, EntryWithin
<1>7. Position(p, i) \in Nat /\ Length(p, i) \in Nat
  BY <1>4, <1>6 DEF Position, Length, EntryLen
<1>8. Length(p, i) # 0 => Position(p, i) + Length(p, i) <= size
  BY <1>1, <1>2 DEF WellFormed
<1> QED
  BY <1>1, <1>2, <1>3, <1>7, <1>8

\* What is read of the file in memory is read of its content.
ReadsSame(m, size, from, n) ==
  SubSeq(m, from + 1, from + n) = SubSeq(Content(m, size), from + 1, from + n)

\* It is, of what is inside the file.
LEMMA ReadOfContent ==
  ASSUME NEW max \in Nat, NEW m \in [1..max -> Token], NEW size \in 0..max,
         NEW from \in Nat, NEW n \in Nat, n # 0 => from + n <= size
  PROVE  ReadsSame(m, size, from, n)
<1> USE DEF ReadsSame
<1>1. CASE n = 0
  <2>1. from + n < from + 1 /\ from + n \in Int /\ from + 1 \in Int
    BY <1>1
  <2> QED
    BY <2>1, SubSeqEmpty
<1>2. CASE n # 0
  <2> DEFINE s == SubSeq(m, from + 1, from + n)
             t == SubSeq(Content(m, size), from + 1, from + n)
  <2>1. \A k \in from + 1..from + n : k \in 1..size /\ k \in 1..max
    BY <1>2
  <2>2. \A k \in from + 1..from + n : m[k] \in Token /\ Content(m, size)[k] = m[k]
    BY <2>1 DEF Content
  <2>3. from + 1 \in Int /\ from + n \in Int
    OBVIOUS
  <2>4. /\ s \in Seq(Token) /\ Len(s) = n
        /\ \A k \in 1..n : s[k] = m[from + k]
    <3>1. /\ s \in Seq(Token)
          /\ Len(s) = IF from + 1 <= from + n THEN from + n - (from + 1) + 1 ELSE 0
          /\ \A k \in 1..from + n - (from + 1) + 1 : s[k] = m[from + 1 + k - 1]
      BY <2>2, <2>3, SubSeqProperties
    <3>2. from + n - (from + 1) + 1 = n /\ from + 1 <= from + n
      BY <1>2
    <3>3. \A k \in 1..n : from + 1 + k - 1 = from + k
      OBVIOUS
    <3> QED
      BY <3>1, <3>2, <3>3
  <2>5. /\ t \in Seq(Token) /\ Len(t) = n
        /\ \A k \in 1..n : t[k] = Content(m, size)[from + k]
    <3>1. /\ t \in Seq(Token)
          /\ Len(t) = IF from + 1 <= from + n THEN from + n - (from + 1) + 1 ELSE 0
          /\ \A k \in 1..from + n - (from + 1) + 1 : t[k] = Content(m, size)[from + 1 + k - 1]
      BY <2>2, <2>3, SubSeqProperties
    <3>2. from + n - (from + 1) + 1 = n /\ from + 1 <= from + n
      BY <1>2
    <3>3. \A k \in 1..n : from + 1 + k - 1 = from + k
      OBVIOUS
    <3> QED
      BY <3>1, <3>2, <3>3
  <2>6. \A k \in 1..n : from + k \in from + 1..from + n
    OBVIOUS
  <2>7. \A k \in 1..Len(s) : s[k] = t[k]
    BY <2>2, <2>4, <2>5, <2>6
  <2> QED
    BY <2>4, <2>5, <2>7, SeqEqual
<1> QED
  BY <1>1, <1>2

\* A read of the length of a lump from its position gets the lump: the count
\* is not cut, and the file is the content of the memory.
LEMMA LumpIsRead ==
  ASSUME IInv, handoff.magic, NEW s, NEW count, Files!ReadWad(s, count),
         NEW i \in Lumps(Published),
         result'.from = Position(Published, i), result'.asked = Length(Published, i)
  PROVE  result'.data = SubSeq(Published, Position(Published, i) + 1,
                               Position(Published, i) + Length(Published, i))
<1>1. PICK from, n, size : from = Position(Published, i) /\ n = Length(Published, i) /\ size = handoff.size
  OBVIOUS
<1>2. /\ Published = Content(wad, size) /\ size \in 0..WadMax /\ from \in Nat /\ n \in Nat
      /\ n # 0 => from + n <= size
  BY <1>1, LumpWithin
<1>3. PICK r : r = [asked |-> count, from |-> files[s],
                    data |-> SubSeq(wad, files[s] + 1, files[s] + IF count > size - files[s] THEN size - files[s] ELSE count)]
  OBVIOUS
<1>4. result' = r /\ files[s] <= size
  BY <1>1, <1>3 DEF Files!ReadWad
<1>5. r.asked = count /\ r.from = files[s]
      /\ r.data = SubSeq(wad, files[s] + 1, files[s] + IF count > size - files[s] THEN size - files[s] ELSE count)
  BY <1>3
<1>6. count = n /\ files[s] = from
  BY <1>1, <1>4, <1>5
<1>7. ~(n > size - from)
  BY <1>2, <1>4, <1>6
<1>8. result'.data = SubSeq(wad, from + 1, from + n)
  BY <1>4, <1>5, <1>6, <1>7
<1>9. WadMax \in Nat /\ wad \in [1..WadMax -> Token]
  BY SizeFacts DEF IInv, LoaderTypeOK
<1>10. SubSeq(wad, from + 1, from + n) = SubSeq(Content(wad, size), from + 1, from + n)
  <2>1. ReadsSame(wad, size, from, n)
    BY <1>2, <1>9, ReadOfContent
  <2> QED
    BY <2>1 DEF ReadsSame
<1> QED
  BY <1>1, <1>2, <1>8, <1>10

\* Calls that read nothing have nothing to show.
LEMMA NothingIsRead ==
  ASSUME IInv, handoff.magic, result' = Files!Nothing, NEW i \in Lumps(Published)
  PROVE  result'.from # Position(Published, i)
<1>1. result'.from = -1
  BY DEF Files!Nothing, Files!Closed
<1> QED
  BY <1>1, LumpWithin

\* What a step of the system reads.
LEMMA StepReads ==
  ASSUME SystemInv, SuccessInv, FilesInv, FilesInv', [Next]_vars, session' = "files", result' # result
  PROVE  /\ outcome = "ok" /\ ~cut => Published = job.wad
         /\ \A i \in Lumps(Published) :
              result'.from = Position(Published, i) /\ result'.asked = Length(Published, i) =>
                result'.data = SubSeq(Published, Position(Published, i) + 1,
                                      Position(Published, i) + Length(Published, i))
<1>1. Loads
  BY DEF Next, UserResets, Fault, UploadFault, PictureFault, Loader, HostStep, UserUploads, AppReads,
     Draws, Plays, DoomBegins, Files!DoomMain, Restart, doomVars, fileVars, vars
<1>2. session = "files" /\ handoff.magic /\ IInv /\ pc = "app"
  BY <1>1 DEF Loads, FilesInv, SystemInv, HostInv
<1>3. outcome = "ok" /\ ~cut => Published = job.wad
  BY <1>2 DEF SuccessInv
<1>4. (\E s, n : Files!ReadWad(s, n)) \/ result' = Files!Nothing
  BY <1>1 DEF Loads, Files!EngineCalls, Files!OpenWad, Files!CloseWad, Files!SeekWad, Files!Sbrk
<1>5. ASSUME NEW i \in Lumps(Published),
             result'.from = Position(Published, i), result'.asked = Length(Published, i)
      PROVE  result'.data = SubSeq(Published, Position(Published, i) + 1,
                                   Position(Published, i) + Length(Published, i))
  BY <1>2, <1>4, <1>5, LumpIsRead, NothingIsRead
<1> QED
  BY <1>3, <1>5

\* Whatever calls the engine makes, in whatever order, with several descriptors
\* and after any uploads: a lump it reads is the lump of the WAD that was
\* verified, and after a success of the WAD that was uploaded.
THEOREM LumpsStayWhole ==
  ASSUME CrcDetects
  PROVE  Spec => LumpsReadWhole
<1>1. Init => UploadInv /\ SuccessInv /\ FilesInv
  BY DEF Init, Host!HostInit, UploadInv, SuccessInv, FilesInv
<1>2. SystemInv /\ SystemInv' /\ UploadInv /\ [Next]_vars => UploadInv'
  BY NextUploadInv
<1>3. SystemInv /\ SystemInv' /\ UploadInv /\ SuccessInv /\ [Next]_vars => SuccessInv'
  BY NextSuccessInv
<1>4. SystemInv /\ FilesInv /\ [Next]_vars => FilesInv'
  BY NextFilesInv DEF SystemInv
<1>5. SystemInv /\ SuccessInv /\ FilesInv /\ FilesInv' /\ [Next]_vars =>
        [session' = "files" /\ result' # result =>
           /\ outcome = "ok" /\ ~cut => Published = job.wad
           /\ \A i \in Lumps(Published) :
                result'.from = Position(Published, i) /\ result'.asked = Length(Published, i) =>
                  result'.data = SubSeq(Published, Position(Published, i) + 1,
                                        Position(Published, i) + Length(Published, i))]_vars
  BY StepReads
<1> QED
  BY <1>1, <1>2, <1>3, <1>4, <1>5, SystemInvariance, PTL DEF Spec, LumpsReadWhole
=============================================================================
