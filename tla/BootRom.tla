------------------------------ MODULE BootRom ------------------------------
(***************************************************************************)
(* The resident boot ROM (phase8/software/bootloader.c): it copies an      *)
(* image from the QSPI flash, or receives one over the UART, checks length *)
(* and CRC, and jumps to it.                                               *)
(*                                                                         *)
(* Lines to the host: those that uart_upload.ps1 tells apart.  Banners,    *)
(* FLASH_* reports, INFO and GO are left out.                              *)
(***************************************************************************)
EXTENDS SerialLine

CONSTANTS
  Token,
  Upload, UploadRun, Go, FlashRetry, Info, LineEnd,  \* U, A, G, F, I, CR and LF
  Magic,         \* "RVBL"
  MaxSize,       \* APP_MAX_BYTES
  Block,         \* TRANSFER_BLOCK_BYTES
  CrcStart,      \* 0xFFFFFFFF
  CrcByte(_, _), \* crc32_byte
  Crc(_),        \* the CRC of a sequence of tokens
  Image,         \* the images somebody meant to load: sent by the host, or in the flash
  FlashContents  \* what the flash can hold at FLASH_IMAGE_OFFSET

None == <<>>  \* no image: images are not empty

\* The tokens at mem[1..n].
Content(mem, n) == [i \in 1..n |-> mem[i]]

ASSUME TokenAssumption ==
  /\ Token \subseteq Nat /\ 0 \in Token
  /\ {Upload, UploadRun, Go, FlashRetry, Info, LineEnd, Magic} \subseteq Token
  /\ MaxSize \in Nat /\ Block \in Nat \ {0}

ASSUME ImageAssumption ==
  \A s \in Image : \E n \in 1..MaxSize : s \in [1..n -> Token]

\* crc32_byte extends the CRC by one byte.
ASSUME CrcAssumption ==
  /\ \A s \in [1..0 -> Token] : Crc(s) = CrcStart
  /\ \A n \in 1..MaxSize : \A s \in [1..n -> Token] :
       Crc(s) = CrcByte(Crc(Content(s, n - 1)), s[n])

\* A CRC that is on the line or in the flash is the CRC of an image somebody
\* meant to load, and no other content of a legal length has it: CRC32 never
\* passes by accident.
ASSUME CrcDetects ==
  \A n \in 1..MaxSize : \A s \in [1..n -> Token] :
    Crc(s) \in Token \cup {f.crc : f \in FlashContents} => s \in Image

\* magic and entry: whether the words are FLASH_IMAGE_MAGIC and APP_BASE.
ASSUME FlashAssumption ==
  \A f \in FlashContents :
    /\ f.magic \in BOOLEAN /\ f.entry \in BOOLEAN /\ f.size \in Nat
    /\ f.data \in [1..MaxSize -> Token]

VARIABLES
  pc,        \* where main() is: "flash", "copy", "idle", "magic", "size", "crc", "data" or "app"
  andRun,    \* the upload was begun with 'A'
  uploaded,  \* uploaded_size
  mem,       \* the memory from APP_BASE
  offset, expectedSize, expectedCrc, actualCrc,  \* locals of the transfer
  flash      \* the flash from FLASH_IMAGE_OFFSET

romVars == <<pc, andRun, uploaded, mem, offset, expectedSize, expectedCrc, actualCrc, flash>>
vars == <<romVars, lineVars>>

TypeOK ==
  /\ pc \in {"flash", "copy", "idle", "magic", "size", "crc", "data", "app"}
  /\ andRun \in BOOLEAN
  /\ uploaded \in 0..MaxSize
  /\ mem \in [1..MaxSize -> Token]
  /\ offset \in Nat /\ expectedSize \in Nat
  /\ flash \in FlashContents
  /\ rx \in Seq(Token)

-----------------------------------------------------------------------------
\* The locals of a transfer are dead outside it.
NoTransfer ==
  offset' = 0 /\ expectedSize' = 0 /\ expectedCrc' = 0 /\ actualCrc' = CrcStart

\* Power-up and BTN0: the startup code clears uploaded_size; the memory and
\* the flash keep their contents; the UART's queue is emptied.
PowerUp ==
  /\ pc' = "flash" /\ andRun' = FALSE /\ uploaded' = 0 /\ NoTransfer
  /\ rx' = <<>> /\ overflow' = FALSE

Init ==
  /\ pc = "flash" /\ andRun = FALSE /\ uploaded = 0
  /\ offset = 0 /\ expectedSize = 0 /\ expectedCrc = 0 /\ actualCrc = CrcStart
  /\ mem = [i \in 1..MaxSize |-> 0]  \* the bitstream's
  /\ flash \in FlashContents
  /\ LineInit

Reset == PowerUp /\ UNCHANGED <<mem, flash, toHost>>

\* run_application()
Run == pc' = "app" /\ andRun' = FALSE /\ NoTransfer
BackToIdle == pc' = "idle" /\ andRun' = FALSE /\ NoTransfer

-----------------------------------------------------------------------------
(***************************************************************************)
(* try_flash_boot() and load_flash_image(), entered at power-up and by 'F'. *)
(* The reads of the flash are blocking (qspi.c).                           *)
(***************************************************************************)
FlashByte(i) == flash.data[i]

CheckFlash ==
  /\ pc = "flash"
  /\ uploaded' = 0
  /\ IF flash.magic /\ flash.size \in 1..MaxSize /\ flash.entry
       THEN /\ pc' = "copy" /\ offset' = 0 /\ expectedSize' = flash.size
            /\ expectedCrc' = flash.crc /\ actualCrc' = CrcStart
            /\ UNCHANGED andRun
       ELSE BackToIdle
  /\ UNCHANGED <<mem, flash, lineVars>>

CopyFlash ==
  /\ pc = "copy" /\ offset < expectedSize
  /\ mem' = [mem EXCEPT ![offset + 1] = FlashByte(offset + 1)]
  /\ actualCrc' = CrcByte(actualCrc, FlashByte(offset + 1))
  /\ offset' = offset + 1
  /\ UNCHANGED <<pc, andRun, uploaded, expectedSize, expectedCrc, flash, lineVars>>

FinishFlash ==
  /\ pc = "copy" /\ offset = expectedSize
  /\ IF actualCrc = expectedCrc
       THEN uploaded' = expectedSize /\ Run
       ELSE UNCHANGED uploaded /\ BackToIdle
  /\ UNCHANGED <<mem, flash, lineVars>>

-----------------------------------------------------------------------------
\* get_byte() and uart_getc() block, without a timeout: every action below
\* receives one token.
Fail == BackToIdle /\ Say(<<Line("ERR")>>)

BeginUpload ==
  /\ pc = "idle" /\ Receive /\ Received \in {Upload, UploadRun}
  /\ pc' = "magic" /\ andRun' = (Received = UploadRun)
  /\ Say(<<Line("READY")>>)
  /\ UNCHANGED <<uploaded, mem, offset, expectedSize, expectedCrc, actualCrc, flash>>

\* Mutant: without the check.
GoCommandUnchecked ==
  /\ pc = "idle" /\ Receive /\ Received = Go
  /\ Run /\ UNCHANGED <<toHost, uploaded, mem, flash>>

GoCommand ==
  /\ pc = "idle" /\ Receive /\ Received = Go
  /\ IF uploaded # 0 THEN Run /\ UNCHANGED toHost ELSE Fail
  /\ UNCHANGED <<uploaded, mem, flash>>

FlashCommand ==
  /\ pc = "idle" /\ Receive /\ Received = FlashRetry
  /\ pc' = "flash"
  /\ UNCHANGED <<andRun, uploaded, mem, offset, expectedSize, expectedCrc, actualCrc,
                 flash, toHost>>

\* 'I' prints, line ends are ignored, anything else is an error.
OtherCommand ==
  /\ pc = "idle" /\ Receive /\ Received \notin {Upload, UploadRun, Go, FlashRetry}
  /\ IF Received \in {Info, LineEnd} THEN UNCHANGED toHost ELSE Say(<<Line("ERR")>>)
  /\ UNCHANGED romVars

-----------------------------------------------------------------------------
(***************************************************************************)
(* receive_image().  The comparison of the magic stops at the first byte   *)
(* that differs: what the host sent after it is read as commands.          *)
(***************************************************************************)
\* Mutant: it goes on looking for the magic.
ReadMagicForever ==
  /\ pc = "magic" /\ Receive
  /\ pc' = IF Received = Magic THEN "size" ELSE "magic"
  /\ UNCHANGED <<andRun, offset, expectedSize, expectedCrc, actualCrc, toHost,
                 uploaded, mem, flash>>

ReadMagic ==
  /\ pc = "magic" /\ Receive
  /\ IF Received = Magic
       THEN pc' = "size" /\ UNCHANGED <<andRun, offset, expectedSize, expectedCrc,
                                        actualCrc, toHost>>
       ELSE Fail
  /\ UNCHANGED <<uploaded, mem, flash>>

ReadSize ==
  /\ pc = "size" /\ Receive
  /\ pc' = "crc" /\ expectedSize' = Received
  /\ UNCHANGED <<andRun, uploaded, mem, offset, expectedCrc, actualCrc, flash, toHost>>

ReadCrc ==
  /\ pc = "crc" /\ Receive
  /\ IF expectedSize \in 1..MaxSize
       THEN /\ pc' = "data" /\ expectedCrc' = Received /\ offset' = 0 /\ actualCrc' = CrcStart
            /\ Say(<<Line("HEADER_OK")>>)
            /\ UNCHANGED <<andRun, expectedSize>>
       ELSE Fail
  /\ UNCHANGED <<uploaded, mem, flash>>

\* A block is acknowledged when it is whole or the image is.
Acknowledge(n) ==
  IF n % Block = 0 \/ n = expectedSize THEN <<NextLine(n)>> ELSE <<>>

\* The whole image has arrived: OK, or CRC_ERROR.
Good(lines) ==
  /\ uploaded' = expectedSize
  /\ IF andRun THEN Run ELSE BackToIdle
  /\ Say(lines \o <<Line("OK")>>)

\* Mutants: the image before stays runnable; the host is told OK.
BadKept(lines) == BackToIdle /\ UNCHANGED uploaded /\ Say(lines \o <<Line("ERR")>>)
BadReported(lines) == uploaded' = 0 /\ BackToIdle /\ Say(lines \o <<Line("OK")>>)

Bad(lines) ==
  /\ uploaded' = 0
  /\ BackToIdle
  /\ Say(lines \o <<Line("ERR")>>)

ReadData ==
  /\ pc = "data" /\ Receive
  /\ mem' = [mem EXCEPT ![offset + 1] = Received]
  /\ LET n == offset + 1
         crc == CrcByte(actualCrc, Received)
     IN IF n < expectedSize
        THEN /\ offset' = n /\ actualCrc' = crc
             /\ Say(Acknowledge(n))
             /\ UNCHANGED <<pc, andRun, uploaded, expectedSize, expectedCrc>>
        ELSE IF crc = expectedCrc THEN Good(Acknowledge(n)) ELSE Bad(Acknowledge(n))
  /\ UNCHANGED flash

RomStep ==
  \/ CheckFlash \/ CopyFlash \/ FinishFlash
  \/ BeginUpload \/ GoCommand \/ FlashCommand \/ OtherCommand
  \/ ReadMagic \/ ReadSize \/ ReadCrc \/ ReadData

\* The other end of the line, and the application once it runs: anything may
\* arrive, nothing else touches the ROM's memory.
Environment ==
  rx' \in Seq(Token) /\ UNCHANGED romVars

Next == RomStep \/ Reset \/ Environment

Spec == Init /\ [][Next]_vars

-----------------------------------------------------------------------------
\* What 'G' would start, and what the application area then holds.
Runnable ==
  IF uploaded = 0 \/ pc \in {"copy", "data"} THEN None ELSE Content(mem, uploaded)

\* An image that 'G' would start, or that runs, is one somebody meant to
\* load: not a partial copy of the flash, not a transfer that failed over an
\* older image, not one put together from the remains of two attempts
\* ("A failed flash attempt must never leave a runnable partial image",
\* bootloader.c:64).
RunnableIsVerified ==
  /\ Runnable # None => Runnable \in Image
  /\ pc = "app" => Runnable # None

Promise == INSTANCE VerifiedImage WITH image <- Runnable, running <- (pc = "app")

\* The boot ROM keeps a loader's promise: images become runnable whole, do
\* not change while they are, and what runs goes on until a reset.
ImplementsVerifiedImage == Promise!Spec
=============================================================================
