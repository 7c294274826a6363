----------------------------- MODULE DoomFiles -----------------------------
(***************************************************************************)
(* What the DOOM engine gets from the board instead of an operating system *)
(* (phase8/software/doom_board_syscalls.c and the checks of main() in      *)
(* doom_board.c): a heap, and the WAD in DDR as a file.                    *)
(*                                                                         *)
(* The engine is external: it makes any of the calls, with any arguments   *)
(* of small sets.  Terminal descriptors and the calls that only fail       *)
(* (_kill, _link, _unlink, mkdir) keep no state and are left out.          *)
(***************************************************************************)
EXTENDS WadFormat

CONSTANTS
  WadMax,              \* DDR_WAD_MAX
  Slots,               \* the size of wad_files
  HeapStart, HeapEnd,  \* __heap_start and __heap_end, multiples of 8
  Request,             \* the increments the C library asks _sbrk() for
  Size, Offset         \* the counts and the offsets in calls

\* Assumed where the constants get their values (DdrSystem).
HeapAssumption ==
  /\ HeapStart \in Nat /\ HeapEnd \in Nat /\ HeapStart <= HeapEnd
  /\ HeapStart % 8 = 0 /\ HeapEnd % 8 = 0
  /\ Request \subseteq Int
  \* No request is as large as the addresses left above the heap: the sum in
  \* _sbrk() has 32 bits and would wrap around.
  /\ Word \in Nat /\ \A n \in Request : HeapEnd + n + 7 < Word

VARIABLES
  handoff, wad,  \* the record and the file the loader left in DDR
  engine,        \* where main() is: "off", "no wad", "not a wad" or "engine"
  files,         \* wad_files: positions, or Closed
  heap,          \* heap_next
  blocks,        \* history: what _sbrk() has handed out, [from, size]
  result         \* what the last call has read, or Nothing

fileVars == <<engine, files, heap, blocks, result>>

Closed == -1
Nothing == [asked |-> 0, from |-> Closed, data |-> <<>>]

FilesOff ==
  /\ engine = "off" /\ files = [s \in 1..Slots |-> Closed]
  /\ heap = HeapStart /\ blocks = {} /\ result = Nothing

FilesReset ==
  /\ engine' = "off" /\ files' = [s \in 1..Slots |-> Closed]
  /\ heap' = HeapStart /\ blocks' = {} /\ result' = Nothing

\* wad_info(); the base is always DDR_WAD_BASE.
HandoffInfo == handoff.magic /\ handoff.size \in HeaderLen..WadMax

\* main() up to doomgeneric_Create(): the file it opens, it closes again.
DoomMain ==
  /\ engine = "off"
  /\ engine' = CASE ~HandoffInfo -> "no wad"
                 [] HandoffInfo /\ wad[1] \notin {Iwad, Pwad} -> "not a wad"
                 [] OTHER -> "engine"
  /\ UNCHANGED <<files, heap, blocks, result>>

-----------------------------------------------------------------------------
(***************************************************************************)
(* The calls.  Those that fail change nothing but errno.                   *)
(***************************************************************************)
Open(s) == files[s] # Closed  \* wad_fd() of descriptor s + 2

\* For reading and by the name doom1.wad; other opens fail.
OpenWad ==
  /\ HandoffInfo
  /\ \E s \in 1..Slots :
       /\ ~Open(s) /\ \A t \in 1..s - 1 : Open(t)
       /\ files' = [files EXCEPT ![s] = 0]
  /\ result' = Nothing
  /\ UNCHANGED <<engine, heap, blocks>>

CloseWad(s) ==
  /\ Open(s)
  /\ files' = [files EXCEPT ![s] = Closed]
  /\ result' = Nothing
  /\ UNCHANGED <<engine, heap, blocks>>

\* Mutant: the last byte of the file is out of reach.
ReadWadShort(s, count) ==
  /\ Open(s) /\ HandoffInfo /\ files[s] <= handoff.size
  /\ LET left == handoff.size - files[s]
         n == IF count < left THEN count ELSE left - 1
     IN /\ result' = [asked |-> count, from |-> files[s],
                      data |-> SubSeq(wad, files[s] + 1, files[s] + n)]
        /\ files' = [files EXCEPT ![s] = @ + n]
  /\ UNCHANGED <<engine, heap, blocks>>

\* _read(): the count is cut to what is left.
ReadWad(s, count) ==
  /\ Open(s) /\ HandoffInfo /\ files[s] <= handoff.size
  /\ LET left == handoff.size - files[s]
         n == IF count > left THEN left ELSE count
     IN /\ result' = [asked |-> count, from |-> files[s],
                      data |-> SubSeq(wad, files[s] + 1, files[s] + n)]
        /\ files' = [files EXCEPT ![s] = @ + n]
  /\ UNCHANGED <<engine, heap, blocks>>

\* _lseek() computes in 64 bits and refuses positions outside the file.
SeekWad(s, offset, whence) ==
  /\ Open(s) /\ HandoffInfo
  /\ LET position == offset + (CASE whence = "SET" -> 0
                                 [] whence = "CUR" -> files[s]
                                 [] whence = "END" -> handoff.size)
     IN /\ position \in 0..handoff.size
        /\ files' = [files EXCEPT ![s] = position]
  /\ result' = Nothing
  /\ UNCHANGED <<engine, heap, blocks>>

\* _sbrk()
Aligned(n) == n - (n % 8)
Sbrk(increment) ==
  LET next == Aligned((heap + increment + 7) % Word)
  IN /\ increment >= 0 /\ next <= HeapEnd
     /\ heap' = next
     /\ blocks' = blocks \cup {[from |-> heap, size |-> increment]}
     /\ result' = Nothing
     /\ UNCHANGED <<engine, files>>

EngineCalls ==
  /\ engine = "engine"
  /\ \/ OpenWad
     \/ \E s \in 1..Slots : CloseWad(s)
     \/ \E s \in 1..Slots, n \in Size : ReadWad(s, n)
     \/ \E s \in 1..Slots, n \in Offset, w \in {"SET", "CUR", "END"} : SeekWad(s, n, w)
     \/ \E n \in Request : Sbrk(n)

\* The heap in its environment: the engine, and BTN0 at any time.
HeapSpec == FilesOff /\ [][DoomMain \/ EngineCalls \/ FilesReset]_fileVars

-----------------------------------------------------------------------------
\* The blocks handed out never overlap, and lie between the program's end and
\* the handoff record.
HeapIsDisjoint ==
  /\ \A b \in blocks : HeapStart <= b.from /\ b.from + b.size <= heap
  /\ heap <= HeapEnd
  /\ \A b, c \in blocks : b # c => b.from + b.size <= c.from \/ c.from + c.size <= b.from
=============================================================================
