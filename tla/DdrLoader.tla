----------------------------- MODULE DdrLoader -----------------------------
(***************************************************************************)
(* The loader of the DDR boards (phase8/software/ddr_loader.c): it         *)
(* receives an application and then a WAD file into DDR, with a timeout on *)
(* every byte, and leaves a handoff record for the application where the   *)
(* WAD is (ddr_wad_handoff.h).                                             *)
(*                                                                         *)
(* MEMINFO does not change once the memory is calibrated                   *)
(* (soc_core_txn.sv:359-364), so memory_ready() is only waited for once    *)
(* and the errors it would cause later (DDR) do not occur.                 *)
(***************************************************************************)
EXTENDS SerialLine, WadFormat

CONSTANTS
  Token,
  Upload, UploadRun, WadUpload, FastWad, Go, Info, WadInfo, Caps,  \* U A W F G I J K
  AppMagic, WadMagic,      \* "RDD1" and "RDDW"
  AppMax, WadMax,          \* APP_MAX and WAD_MAX
  Block, FastBlock,        \* BLOCK_BYTES and FAST_WAD_BLOCK_BYTES
  Crc(_),                  \* CRC32 of a sequence of tokens
  Image, Wad               \* the applications and files somebody meant to load

Absent == <<>>

ASSUME TokenAssumption ==
  /\ Token \subseteq Nat /\ 0 \in Token
  /\ {Upload, UploadRun, WadUpload, FastWad, Go, Info, WadInfo, Caps,
      AppMagic, WadMagic} \subseteq Token
  /\ {Upload, UploadRun} \cap {WadUpload, FastWad} = {}
  /\ AppMax \in Nat /\ WadMax \in Nat
  /\ Block \in Nat \ {0} /\ FastBlock \in Nat \ {0}

ASSUME FileAssumption ==
  /\ \A s \in Image : s \in Seq(Token) /\ Len(s) \in 1..AppMax
  /\ \A s \in Wad : s \in Seq(Token \cap 0..Word - 1) /\ Len(s) \in 0..WadMax
  /\ Word \in Nat /\ WadMax < Word

VARIABLES
  pc,         \* "wait", "idle", "magic", "size", "crc", "data", "verify", "publish" or "app"
  command,    \* the command that is being executed
  app, wad,   \* the memory from APP_BASE and from WAD_BASE
  loadedSize, \* loaded_size
  wadSize,    \* wad_size
  handoff,    \* the record at DDR_WAD_HANDOFF_ADDR
  offset, expectedSize, expectedCrc  \* locals of a transfer

loaderVars == <<pc, command, app, wad, loadedSize, wadSize, handoff, offset, expectedSize,
                expectedCrc>>

Content(mem, n) == [i \in 1..n |-> mem[i]]
NoHandoff == [magic |-> FALSE, size |-> 0, crc |-> 0]

Locals == <<offset, expectedSize, expectedCrc>>
NoTransfer == offset' = 0 /\ expectedSize' = 0 /\ expectedCrc' = 0

LoaderInit ==
  /\ pc = "wait" /\ command = Info
  /\ app = [i \in 1..AppMax |-> 0] /\ wad = [i \in 1..WadMax |-> 0]
  /\ loadedSize = 0 /\ wadSize = 0 /\ handoff = NoHandoff
  /\ offset = 0 /\ expectedSize = 0 /\ expectedCrc = 0

\* BTN0: the startup code clears the loader's variables, the UART's queue is
\* emptied, DDR keeps its contents.
LoaderReset ==
  /\ pc' = "wait" /\ command' = Info
  /\ loadedSize' = 0 /\ wadSize' = 0 /\ NoTransfer
  /\ rx' = <<>> /\ overflow' = FALSE
  /\ UNCHANGED <<app, wad, handoff, toHost>>

\* main() once memory_ready().
MemoryReady ==
  /\ pc = "wait"
  /\ pc' = "idle" /\ handoff' = [handoff EXCEPT !.magic = FALSE]
  /\ UNCHANGED <<command, app, wad, loadedSize, wadSize, Locals, lineVars>>

-----------------------------------------------------------------------------
(***************************************************************************)
(* The command loop.  Unknown commands, error replies among them, are      *)
(* passed over in silence.                                                 *)
(***************************************************************************)
BackToIdle == pc' = "idle" /\ command' = Info /\ NoTransfer
Fail == BackToIdle /\ Say(<<Line("ERR")>>)

IsWad == command \in {WadUpload, FastWad}
Of(appLine, wadLine) == IF IsWad THEN wadLine ELSE appLine
BlockBytes == IF command = FastWad THEN FastBlock ELSE Block

\* Mutant: the image before stays loaded.
BeginUploadKept ==
  /\ pc = "idle" /\ Receive /\ Received \in {Upload, UploadRun}
  /\ pc' = "magic" /\ command' = Received
  /\ wadSize' = 0
  /\ handoff' = [handoff EXCEPT !.magic = FALSE]
  /\ Say(<<Line("READY")>>)
  /\ UNCHANGED <<app, wad, loadedSize, Locals>>

BeginUpload ==
  /\ pc = "idle" /\ Receive /\ Received \in {Upload, UploadRun}
  /\ pc' = "magic" /\ command' = Received
  /\ loadedSize' = 0 /\ wadSize' = 0
  /\ handoff' = [handoff EXCEPT !.magic = FALSE]
  /\ Say(<<Line("READY")>>)
  /\ UNCHANGED <<app, wad, Locals>>

\* upload_wad() is refused before an application is loaded.
BeginWad ==
  /\ pc = "idle" /\ Receive /\ Received \in {WadUpload, FastWad}
  /\ wadSize' = 0
  /\ IF loadedSize = 0
       THEN Fail /\ UNCHANGED handoff
       ELSE /\ pc' = "magic" /\ command' = Received
            /\ handoff' = [handoff EXCEPT !.magic = FALSE]
            /\ Say(<<Line("WAD_READY")>>)
            /\ UNCHANGED Locals
  /\ UNCHANGED <<app, wad, loadedSize>>

\* run()
Run(lines) == pc' = "app" /\ command' = Info /\ NoTransfer /\ Say(lines \o <<Line("GO")>>)

GoCommand ==
  /\ pc = "idle" /\ Receive /\ Received = Go
  /\ IF loadedSize # 0 THEN Run(<<>>) ELSE Fail
  /\ UNCHANGED <<app, wad, loadedSize, wadSize, handoff>>

OtherCommand ==
  /\ pc = "idle" /\ Receive
  /\ Received \notin {Upload, UploadRun, WadUpload, FastWad, Go}
  /\ Say(CASE Received = Info -> <<[of |-> "INFO", n |-> loadedSize]>>
           [] Received = WadInfo -> <<[of |-> "WAD_INFO", n |-> wadSize]>>
           [] Received = Caps -> <<Line("CAPS")>>
           [] OTHER -> <<>>)
  /\ UNCHANGED loaderVars

-----------------------------------------------------------------------------
(***************************************************************************)
(* upload() and upload_wad(), which differ in their limits, their checks   *)
(* and what they do at the end.                                            *)
(***************************************************************************)
\* read_byte() gives up after BYTE_TIMEOUT_TICKS without a byte.
ByteTimeOut ==
  /\ pc \in {"magic", "size", "crc", "data"} /\ rx = <<>>
  /\ Fail
  /\ UNCHANGED <<app, wad, loadedSize, wadSize, handoff, rx, overflow>>

ReadMagic ==
  /\ pc = "magic" /\ Receive
  /\ IF Received = Of(AppMagic, WadMagic)
       THEN pc' = "size" /\ UNCHANGED <<command, Locals, toHost>>
       ELSE Fail
  /\ UNCHANGED <<app, wad, loadedSize, wadSize, handoff>>

ReadSize ==
  /\ pc = "size" /\ Receive
  /\ pc' = "crc" /\ expectedSize' = Received
  /\ UNCHANGED <<command, app, wad, loadedSize, wadSize, handoff, offset, expectedCrc, toHost>>

LegalSizes == IF IsWad THEN HeaderLen..WadMax ELSE 1..AppMax

ReadCrc ==
  /\ pc = "crc" /\ Receive
  /\ IF expectedSize \in LegalSizes
       THEN /\ pc' = "data" /\ expectedCrc' = Received
            /\ Say(<<Line(Of("HEADER_OK", "WAD_HEADER_OK"))>>)
            /\ UNCHANGED <<command, offset, expectedSize>>
       ELSE Fail
  /\ UNCHANGED <<app, wad, loadedSize, wadSize, handoff>>

ReadData ==
  /\ pc = "data" /\ Receive
  /\ LET n == offset + 1
         last == n = expectedSize
     IN /\ IF IsWad THEN wad' = [wad EXCEPT ![n] = Received] /\ UNCHANGED app
                    ELSE app' = [app EXCEPT ![n] = Received] /\ UNCHANGED wad
        /\ offset' = n
        /\ pc' = IF last THEN "verify" ELSE "data"
        /\ Say(IF n % BlockBytes = 0 \/ last
               THEN <<[of |-> Of("NEXT", "WAD_NEXT"), n |-> n]>> ELSE <<>>)
  /\ UNCHANGED <<command, loadedSize, wadSize, handoff, expectedSize, expectedCrc>>

\* Mutant: no look at the CRC.
VerifiedBlindly(mem) == ~overflow

\* The sticky overflow flag, and the CRC over what is now in DDR.
Verified(mem) == ~overflow /\ Crc(Content(mem, expectedSize)) = expectedCrc

VerifyApp ==
  /\ pc = "verify" /\ ~IsWad
  /\ IF ~Verified(app)
       THEN Fail /\ UNCHANGED loadedSize
       ELSE /\ loadedSize' = expectedSize
            /\ IF command = UploadRun THEN Run(<<Line("OK")>>)
                                      ELSE BackToIdle /\ Say(<<Line("OK")>>)
  /\ UNCHANGED <<app, wad, wadSize, handoff, rx, overflow>>

VerifyWad ==
  /\ pc = "verify" /\ IsWad
  /\ IF ~Verified(wad) \/ ~ValidWad(wad, expectedSize)
       THEN Fail /\ UNCHANGED handoff
       ELSE /\ pc' = "publish"
            /\ handoff' = [handoff EXCEPT !.size = expectedSize, !.crc = expectedCrc]
            /\ UNCHANGED <<command, Locals, toHost>>
  /\ UNCHANGED <<app, wad, loadedSize, wadSize, rx, overflow>>

\* After the fence.
PublishWad ==
  /\ pc = "publish"
  /\ handoff' = [handoff EXCEPT !.magic = TRUE]
  /\ wadSize' = expectedSize
  /\ BackToIdle /\ Say(<<Line("WAD_OK")>>)
  /\ UNCHANGED <<app, wad, loadedSize, rx, overflow>>

\* Everything but the timeouts.
LoaderStep ==
  \/ MemoryReady \/ VerifyApp \/ VerifyWad \/ PublishWad
  \/ BeginUpload \/ BeginWad \/ GoCommand \/ OtherCommand
  \/ ReadMagic \/ ReadSize \/ ReadCrc \/ ReadData

\* The other end of the line, and the application once it runs: anything may
\* arrive, nothing else touches the loader's memory.
Environment == rx' \in Seq(Token) /\ UNCHANGED loaderVars

LoaderNext == LoaderStep \/ ByteTimeOut \/ LoaderReset \/ Environment

LoaderSpec == LoaderInit /\ LineInit /\ [][LoaderNext]_<<loaderVars, lineVars>>

-----------------------------------------------------------------------------
\* What 'G' would start.
Runnable == Content(app, loadedSize)
Published == IF handoff.magic THEN Content(wad, handoff.size) ELSE Absent

Promise == INSTANCE VerifiedImage WITH
  image <- Runnable, running <- (pc = "app"), None <- Absent

\* The loader keeps a loader's promise for applications.
ImplementsVerifiedImage == Promise!Spec

\* Whenever the handoff record is valid, also after a reset in the middle of
\* anything and before main() has cleared it, the file it describes is in DDR
\* as a whole, is one somebody meant to load, and can be read by the programs
\* without leaving it ("a bounded WAD view", docs/doom_feasibility.md:768).
HandoffIsReadable ==
  handoff.magic =>
    /\ Published \in Wad /\ Crc(Published) = handoff.crc
    /\ Readable(Published, handoff.size)
=============================================================================
