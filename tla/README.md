# A TLA+ model of the RISC-V SoC

This directory holds TLA+ modules for the system-on-chip in
`riscv_processor_cpu/phase8` (the "throughput" build around
`rtl/soc_core_txn.sv`), for the software that runs on it bare metal (boot ROM,
DDR loader, the DOOM port, the game in the flash) and for the host programs at
the other end of its serial line, with the TLC configurations that check them
and TLAPS proofs about the store buffer, the cache, the memory system they and
the bus masters form, the DMA at work, the timer, interrupts, the two loaders,
the WAD checks, the heap, the keys and the game. The arithmetic of the processor
is left to the repository's riscv-formal set-up. What is modelled here is what
simulation and tests on a board reach badly: several state machines that share a
bus, a memory and a clock, software that reads and writes their registers while
they run, and two programs that talk over a line that loses bytes.

One step of every hardware module is one rising clock edge. All components of
a composition step together, and what is nondeterministic is only what the RTL
does not decide: how long the memory takes and whether it fails, when a byte
arrives, what the program does next, when a calibration signal drops. One step
of a software module is one iteration of a loop or one call between two points
where the program waits for the line, and programs on the two ends of a line
interleave freely.

## 1. The system

Paths are relative to `riscv_processor_cpu/`.

| component | state | operations | talks to |
|---|---|---|---|
| store buffer, `phase8/rtl/rv_write_buffer.sv` | ring of 4 stores, head, tail, count, state, held direct request, response, fault | take and acknowledge a store, take a direct request, send, retire, latch a late error | data cache above, arbiter below (valid/ready) |
| DDR cache, `phase8/rtl/rv_ddr_cache.sv` | valid/tag/data per line, captured request and line, `write_hit`, `poisoned`, response | accept, look up, miss, refill, write through, invalidate | CPU above, store buffer (or memory) below |
| arbiter, `phase8/rtl/rv_bus_arbiter.sv` | busy, owner, last owner | choose round robin, grant, release | four masters, one target |
| fabric, `phase8/rtl/soc_core_txn.sv` | `target_state`, held reply, `agent_active` | decode, accept, answer; give the walker and the DMA exclusive ownership of memory | everything |
| DMA, `phase8/rtl/dma_controller.sv`, `phase8/software/dma.h` | configuration, progress, sticky status, five-state machine | configure, start, abort, read beat, write beat, fail, finish | arbiter (as master), fabric (as target), PLIC |
| timer, `phase8/rtl/clint.sv`, `phase8/software/interrupts.h`, `doom_board.c:65-73,178-185` | `mtime`, `mtimecmp` | tick, write a half, read a half; sleep some milliseconds | CPU |
| PLIC, `phase8/rtl/plic.sv` | pending, enable, in service, priorities, threshold | latch, claim, complete, configure | UART and DMA lines, `mip` |
| UART receive queue, `phase8/rtl/uart.sv`, `phase8/software/uart.c` | ring of 16 bytes, overflow flag | byte arrives, byte is read | serial line, fabric, PLIC |
| interrupt unit, `rtl/interrupt_unit.sv` | `mip` | register the lines | CPU trap logic |
| boot ROM, `phase8/software/bootloader.c`, `qspi.c` | the memory at APP_BASE, `uploaded_size`, the transfer under way | boot from the flash, U A G F I, receive and verify an image, jump | flash, serial line |
| DDR loader, `phase8/software/ddr_loader.c`, `ddr_wad_handoff.h` | application and WAD in DDR, `loaded_size`, `wad_size`, the handoff record | U A W F G I J K, byte timeouts, block acknowledgements, WAD checks, publish | serial line, the application it starts |
| uploaders, `phase8/software/uart_upload.ps1`, `ddr_upload.ps1` | where the script is, outcome | send, wait for a line, ask for an optional one, give up | serial line, user |
| DOOM port, files, `doom_board_syscalls.c`, `doom_board.c` | heap pointer, descriptors with positions | `_sbrk`, `_open`, `_close`, `_read`, `_lseek`, find a lump | handoff record, engine |
| DOOM port, pictures, `doom_stream.c`, `doom_board.c`; `doom_viewer.py` | previous picture, sequence number; the viewer's buffer and last picture | encode, send, find packets, decode, accept or reject | serial line |
| DOOM port, keys, `doom_viewer.py`, `doom_board.c` | pressed keys, code counts, release timers; release prefix | press, repeat, release, timer, focus lost, read a key | serial line, engine |
| game, `phase8/software/snake.c` | body, direction, food, screen | one key per tick, move, grow, die, repair the screen | UART |
| UART transmitter, bridges to AXI, instruction cache and fetch frontend, MMU walker, CPU pipeline and CSRs, serial shifters, research core | | | not modelled, or only as an environment: section 8 |

What is hard, and what must hold:

* **Stores that are acknowledged before they happen.** None may be lost,
  duplicated, reordered or overtaken, and an error that comes after the
  acknowledgement must stop the machine.
* **One memory, four masters, a cache that knows one of them.** A cached line
  must equal what the memory will hold; an agent must see every earlier store.
* **Invalidation against a refill**, partial failures of two-beat accesses,
  resets with an access outstanding.
* **Endpoints that stall the bus**: progress for everyone, and where there is
  none.
* **Registers changed under a running engine**: aborts, stray writes, status
  polled while the last beat lands.
* **Events between device and handler**: latched once, served once, not lost.
* **64-bit values through a 32-bit bus** while they count.
* **Uploads over a line that loses and garbles**, with BTN0 at any moment: no
  mixture of two images may start, the two ends must not disagree on the
  outcome, and a user who tries again must get through.
* **A record that survives a reset**: the handoff must never describe a file
  that has been overwritten since, in part or whole.
* **Words of a file used as offsets**: 32-bit sums wrap around.
* **Differences between pictures**, which must meet the picture they were made
  from, on a line that loses packets and a viewer that attaches late.
* **Two views of one keyboard**: names, codes, timers, focus and the engine's
  own idea of what is down.

`PROJECT.json` lists each of these hazards at its source line, with the
properties that cover it or the reason why none does yet.

## 2. Modules

| module | models | composed by |
|---|---|---|
| `Bus` | requests, responses, and every outcome a memory access may have, with the lemmas on them | all memory modules |
| `WriteBuffer` | the store buffer, edge by edge | `BufferedMemory`, `SocMemory` |
| `OrderedMemory` | *abstract*: a backlog of acknowledged stores in front of a memory | refined by `BufferedMemory` |
| `BufferedMemory` | store buffer + requester + memory | `MCBufferedMemory`, `BufferedMemoryProofs` |
| `DdrCache` | the cache, edge by edge | `CachedMemory`, `SocMemory` |
| `AtomicMemory` | *abstract*: each request performed at one instant | refined by `CachedMemory` |
| `CachedMemory` | cache + requester + memory + other masters | `MCCachedMemory`, `CachedMemoryProofs` |
| `BusArbiter`, `BusTarget` | the arbiter; the target state machine | `SocMemory`, `DmaSystem`, `Interrupts` |
| `SocMemory` | the wiring of cache, buffer, arbiter, target and four masters | `MCSocMemory`, `SocMemoryProofs` |
| `DmaController` | the DMA engine | `DmaSystem` |
| `DmaSystem` | engine + arbiter + target + UART + a program using `dma.h` | `MCDmaSystem`, `DmaProofs` |
| `Timer` | the timer, the 64-bit accessors of `interrupts.h` and DOOM's sleep | `Timer.cfg`, `DeviceProofs` |
| `Plic`, `UartReceiver` | interrupt controller; receive queue | `Interrupts` |
| `ByteQueue` | *abstract*: a bounded byte queue that tells when it lost one | refined by `Interrupts` |
| `Interrupts` | UART, PLIC, `mip`, bus, a polling program and a handler | `MCInterrupts`, `DeviceProofs` |
| `SerialLine` | the line between a board and its host: tokens one way, lines of text the other | `BootRom`, `DdrLoader`, `KeyLink`, `SerialHost` |
| `HostScript`, `SerialHost` | the steps an uploader's script is made of; the script being run | `BootSystem`, `DdrSystem`, `BootProofs` |
| `VerifiedImage` | *abstract*: what a loader promises about what it starts | refined by `BootRom` and `DdrLoader` |
| `BootRom` | `bootloader.c` on flash and line | `BootSystem`, `BootProofs` |
| `Snake` | the game loop, body, food and screen | `BootSystem`, `BootProofs` |
| `BootSystem` | boot ROM + `uart_upload.ps1` + user + line faults + the game | `MCBoot`, `BootProofs` |
| `WadFormat` | the WAD checks of the loader, of `doom_wad_art.c` and of `ddr_wad_probe.c` | `DdrLoader`, `DoomFiles`, `DdrProofs` |
| `DdrLoader` | `ddr_loader.c` with its handoff record | `DdrSystem`, `DdrProofs` |
| `DoomFiles` | the system calls of the DOOM port | `DdrSystem`, `DdrProofs` |
| `FrameStream`, `FrameParser` | pictures on their way out; the viewer that decodes them | `DdrSystem`, `DdrProofs` |
| `KeyLink` | keys from the player to the engine | `DdrSystem`, `MCKeys`, `DdrProofs` |
| `DdrSystem` | loader + `ddr_upload.ps1` + user + line faults + DOOM and its viewer | `MCDdr`, `DdrProofs` |

`MC*` modules give the constants their values for TLC (`Timer` needs none),
`*Proofs` modules hold the proofs: `BootProofs` those about the boot ROM, the
game it starts and the uploader at the other end of the line, `DdrProofs` those
about the DDR loader and its uploader, the WAD, the heap, the keys and the
encoding of the pictures.

### How the modules correspond to the code

*State.* A TLA+ variable is a register of the RTL or a group of registers that
is only meaningful together: `direct_addr/data/write/strobes/size` are one
record `direct`; `rsp_valid` with `rsp_rdata/rsp_err` is one value that is
`None` while not valid; `valid/tags/data` of the cache are `lines`, `None`
where not valid. Registers that nothing can read in a state (the captured
request in IDLE) are set to `None`, which removes states that differ in
nothing observable. Wires are operators with the RTL's name in CamelCase
(`req_ready` is `ReqReady`), inputs are parameters. In software, static
variables and memory keep their names; the locals of a function that waits in
the middle become variables (`expectedSize`, `offset`), and where it waits is
`pc`.

*Actions.* In each hardware module `Clock(...)` is the clocked process. Its
disjuncts are the branches of the `case (state)` and of the `if`s around it, for
instance `WriteBuffer!RetireStore` is `STORE_WAIT: if (mem_rsp_valid)`, and
independent `if`s of one process are conjoined
(`RequesterSide /\ MemorySide /\ Count`). The composing module supplies the
inputs of all components on one edge (`SocMemory!Edge`).

*Data.* An address is a byte of a small set `Byte`; a request is the set of
bytes it covers with one value, so that size codes, strobes and shifts become
set operations. A size code of 3 or strobes past the size are the field
`legal`. The decode of a straddling access looks at its first byte only, as in
the RTL (`BusTarget!External`). A failed store may have written any subset of
its bytes (`Bus!Outcomes`): the bridges split an access into two beats and stop
at the first error.

*Serial data.* A token is a unit of a protocol: a command byte, a magic of four
bytes, a 32-bit field, a payload byte. A byte lost or garbled in the middle of
a unit makes another token of it, or none. Payload tokens include the values of
commands, so that a receiver that is out of step can take payload for commands.
A WAD is a sequence of such tokens, three of header and three per directory
entry, with offsets counted in tokens and words below a small `Word` that wraps
as 2^32 does. CRC32 is an operator of the configuration; what the models and
the proofs need of it is that a CRC announced for an image is the CRC of no
other content (`CrcDetects`).

*Software on the bus.* A helper is a sequence of bus accesses; where it is in
the sequence is a program counter (`pc`, `main`, `handler`). Any number of
cycles may pass between two accesses. The repository has no interrupt handler
for the PLIC; `Interrupts` uses the one its helpers are made for: `plic_claim`,
then `uart_kbhit` and a read of the data register, or a write to the DMA's
STATUS, then `plic_complete`. An interrupt completes the instruction in EX
(`cpu_top_soc.sv:1444-1446`), so a program's store issued just before the trap
still reaches the bus first; that is how a claim can find nothing.

*Hosts.* An uploader's script is a sequence of steps, each a token to send or a
line to wait for (`HostScript`), run by `SerialHost`: a matching line goes on,
an `ERR` line or a time-out of some seconds ends the attempt. The DDR script
branches on an optional line (`CAPS`), which selects the fast WAD upload. The
boot ROM has no timeouts; the DDR loader times out after every byte. The user
may upload again and press BTN0, in the middle of everything too.

## 3. Runs

| run | question | states | about |
|---|---|---|---|
| `write_buffer` | Is the store buffer an ordered memory? | 122,888 | s. 4.1 |
| `ddr_cache` | Can the cache be told from the memory? | 102,556 | s. 4.2 |
| `soc_memory` | Are four masters coherent, and does a fault stop them all? | 375,240 | s. 4.3 |
| `soc_progress` | Does any master starve? | 25,456 | s. 4.3 |
| `dma` | Does a transfer do what its registers say? | 440,004 | s. 4.4 |
| `dma_progress` | Do transfers end? | 22,576 | s. 4.4 |
| `dma_priority` | Does the CPU have priority over the DMA? (violated) | stops at the first | s. 5 |
| `timer` | Are half-word accesses to the timer safe, and does a sleep last? | 5,685,943 | s. 4.5 |
| `interrupts` | Is every event served once, and none lost? | 175,239 | s. 4.6 |
| `boot` | From power-up to a running game: is only a verified image started? | 171,792 | s. 4.7, 4.8 |
| `upload` | The whole way of a DDR board, from the loader to DOOM and back. | 482,340 | s. 4.9 to 4.12 |
| `stuck_key` | Is every key that has been released up? (violated) | stops at the first | s. 5 |

Every property of a passing run has a mutant: a definition with the suffix of
a plausible bug (`ReqReadyOverfull`, `GoCommandUnchecked`, `ValidLumpWrapping`,
...) kept beside the one it would replace. TLC finds the property violated with
it, so each property is known to depend on the code it is about.

Type invariants and some stepping stones of the proofs are not checked by the
runs: they are proved for the proved modules (section 6), and elsewhere the
invariants that are checked imply what matters of them.

## 4. What is checked

### 4.1 Store buffer
`NoLostStore` relates three things over many cycles: what the requester has
been promised (`view`, a history variable), the memory, and the ring. It fails
if a simultaneous push and pop miscounts, if a pointer wraps wrongly or if an
acknowledgement comes without an entry. `DirectSeesAllStores` is the ordering
promise of the file's first comment. `FailStop` is the second comment: after a
late error nothing changes in memory until reset. `ImplementsOrderedMemory` is
the refinement: head, tail, count and the five states disappear into a backlog.
`Progress` says that a held request is taken and that stores drain.
*Bounds.* Three entries instead of four: wrap-around, full, empty, and a push
and pop at each fill level all occur, and the proofs (section 6) hold for any
depth. The requests are one of each class the buffer distinguishes: a posted
store of one byte and of two, one that straddles the end of DDR, a malformed
one, a read.

### 4.2 DDR cache
`LinesMirrorMemory` (a valid line equals memory on every cycle) is the
invariant everything else needs. `ImplementsAtomicMemory` is the interface
promise: each request takes effect at one instant between its acceptance and
its response, whatever invalidations and foreign writes happen meanwhile.
Other masters write only on edges with `invalidate` high; that is the contract
of `rv_ddr_cache.sv:2-3`, and `SocMemory` does not assume it but composes the
real ownership logic.
*Bounds.* Two lines, three words, two of which share a line; loads of part of
a word and of a word, hits and conflicts, a straddling store, a malformed one.

### 4.3 The composed memory system
`AgentsOwnMemory` states the four steps of the comment at
`soc_core_txn.sv:225`: an agent's access is outstanding only with the CPU's
access finished, the ring drained and the lines dropped. `LoadsAreCurrent`
judges each load at the moment the CPU receives it. `FaultStopsTheBus` is the
comment at line 253. `AgentsAreServed` and `CpuIsServed` are the progress side
of the same ownership rules: round robin keeps fetches from starving agents,
and the CPU gets in whenever agents pause. Agents that never pause do starve
the CPU: `agent_pending` gates it; the property says so in its premise.
*Bounds.* Two DDR words competing for one line, one MMIO byte, a ring of two
(of one in the liveness run); four CPU requests, one per other master.

### 4.4 DMA
`ProgressIsTrue` ties the progress registers to memory and UART contents for
every prefix of a transfer, under aborts and stray register writes.
`WaitMeansCopied` follows `dma_copy` through the three cycles between the
sampling of STATUS and its use. `NoOrphan` holds because an abort is itself a
bus access: with one access outstanding the engine cannot be waiting when it
arrives. `EndsAreReported` covers all five ways a transfer ends.
*Bounds.* Up to three bytes with half-word beats: a full beat and a tail; one
job of each kind, including self access, an unmapped target, an illegal width
and an empty transfer. The receive queue has one entry, which makes the empty
and the full queue frequent.

### 4.5 Timer
`NoTransientMatch`: during the three stores of `clint_mtimecmp_write` the
interrupt is up only if the old or the new deadline has passed, and it is up
whenever it should be. While the high half is all ones a match is possible in
the last 2^32 cycles before the counter overflows; the property excludes just
that. `ReadIsTrue`: the value returned lies between call and return.
`SleepLasts`: `DG_SleepMs` returns no earlier than one millisecond short of what
was asked for (it counts milliseconds that begin, not that pass), although the
two halves of the counter are read while it runs and the milliseconds wrap
around: the comparison is of differences (`doom_board.c:181`). That it also
returns in time is not stated: nothing in the code bounds the time between two
looks at the clock, and if none falls between the end of the sleep and the next
wrap of the difference, it sleeps on.
*Bounds.* Halves count to six, so the low half rolls over as fast as the reader
runs; six cycles to a millisecond, and milliseconds that wrap to zero after four,
once within the horizon, before a sleep or during one. `Horizon` stops the counter before it wraps, and
the run does not check deadlock because the horizon is one.

### 4.6 Interrupts
`ServedOnce`, `HandlerNeverStalls` and `ForemostIsServed` together describe the
life of an event: latched while not in service, handed out once, completed,
and latched again if its line is still or again high. `ImplementsByteQueue`
says that bytes leave in order, that one is dropped only at a full queue that
is not being read, and that the overflow flag then shows it.
`ForemostIsServed` is conditional on the source being the most urgent enabled
one from some time on (the PLIC has fixed priorities, others may starve) and on
the program not hanging on the empty queue.
*Bounds.* Two sources (the other three are tied low), a queue of two bytes, two
byte values, three register writes by the program, among them one that masks a
source whose interrupt is being taken.

### 4.7 Boot ROM and its uploader
`RunnableIsVerified`: what G would start, or runs, is an image somebody meant to
load, whole. The bytes at APP_BASE are overwritten by every attempt, so what is
at stake is `uploaded_size` after an attempt that fails half-way: from the
flash, in the header, in the data, at the checksum. `ImplementsVerifiedImage`
adds the steps: what may be started does not change while it may, and once
started runs until reset. `HostAgrees` relates the two ends: success on the
host means that very image on the board, whatever attempts came before and
whatever the line did; a stale `OK` in the host's buffer or an `OK` sent for
something else would break it. `UploadRecovers`: although the ROM has no
timeouts, and a lost byte leaves it in the middle of a transfer, a user who
retries gets through: his next attempts are taken as the payload of the old
one, which ends, and fails its checksum.
*Bounds.* Images of two and three tokens in blocks of two, so that there are a
whole and a partial block; payloads that read as the commands G and A; five
flashes: good, without magic, wrong entry, size too large, wrong data. One fault
(a token or line lost, a token replaced by any other, BTN0 in the middle); more
attempts than one follow it. A queue of three tokens.

### 4.8 The game
`Game` runs in the same system, as the image of the flash (`Makefile`,
`FLASH_BIN`). `BodyIsWhole`: no cell twice, every two neighbours adjacent, all
in the field, food beside it. The collision check passes over the tail, since
the tail moves on (`snake.c:225`); when the snake eats it does not, and only
the position of food outside the body makes that right. `NeckIsSafe`: one key
per tick, and none that turns the head into the neck. `ScreenShowsGame`: the
screen is repaired cell by cell and never redrawn, and still shows the game.
It excludes one thing found while writing it: at the greatest length, eating
does not lengthen the snake but does not erase the tail either
(`snake.c:240-244`), so an `o` stays behind (`fedAtMax`).
*Bounds.* A field of three by three, two to five cells of snake: it can turn
into itself, run along its own tail, fill more than half of the field and
reach the greatest length.

### 4.9 DDR loader and its uploader
`HandoffIsReadable` is what an application trusts: while the magic is there, the
memory behind it is a WAD somebody meant to load, with the CRC the record says,
and every lump of its directory is inside the file. It takes the checks in
32-bit arithmetic of `valid_wad`, the order of writes in `upload_wad` (magic
last) and the clearing of the magic at start, upload and WAD upload (the
behaviour `docs/doom_feasibility.md:767` describes). `HostAgrees` includes the
handoff: with success on the host, the record describes the WAD of this upload,
and none if there was none. `ImplementsVerifiedImage` is the same abstract
module as for the boot ROM. `UploadRecovers` needs more here: a byte timeout
can fire while the host sends, the rest of the payload is read as commands, and
an overflow of the receive queue sets a flag that only a reset clears
(`uart.sv:104,117,134`), after which every transfer fails. The property has the
user press BTN0 then; the advice of `docs/doom_feasibility.md:790` to retry
after `OVERFLOW` is not enough by itself.
*Bounds.* Applications of two and three tokens, five WADs of seven (good; a
lump whose position and length wrap; a lump past the end; a directory past the
end; the magic `iwad`, which passes the script's comparison, as PowerShell's
`-ne` ignores case, and not the loader's); blocks of two and four, words below
32; one fault as above, or a byte timeout or an overflow while the host sends.

### 4.10 Files and heap of the DOOM port
`LumpsReadWhole` follows a lump from the file the user chose to the buffer of
the engine: through both uploads, the handoff record, `_open`, `_lseek`, `_read`
and two descriptors, whatever order the engine makes its calls in. What it reads
is the lump of the verified WAD, and after an upload that has succeeded that is
the WAD of that upload; DOOM may also run with the WAD of an earlier one, when a
token of the next upload arrives as the loader's `G`. That the
blocks of `_sbrk` are disjoint is proved (`HeapCorrect`), under the assumption
that no request is as large as the addresses above the heap: `_sbrk` adds
before it compares (`doom_board_syscalls.c:43`).

### 4.11 Pictures
`RleIsLossless`: what `rle_size` announces is what `send_rle` sends, and the
viewer's decoder gets the picture back from it, in full or as a difference.
`ShownIsDrawn`: the viewer shows only the board's latest picture, whatever was
lost or garbled and whenever it was opened. `ViewerResyncs`: it is in step again
sooner or later (`docs/doom_feasibility.md:1487`).
*Bounds.* Six pixels, three pictures (all equal, incompressible, incompressible
with a compressible difference), runs of at most four, a key frame every four
pictures, sequence numbers below eight, text between frames. One token lost,
one garbled token between packets, or the viewer opened anew.

### 4.12 Keys
`KeysAgree`: once everything sent has been read, the engine's keys are those
whose count the viewer holds above zero, no release prefix is left over, and
without the focus nothing is down. Two keys with one code, auto-repeat,
releases that are delayed by a timer, a second release that replaces the
timer's entry while the timer runs on (`doom_viewer.py:311`), and the loss of
the focus all meet. `KeyUpIsTransmitted` is the claim of the documentation, and
is violated: section 5.
*Bounds.* W, Up (which has the code of W) and Shift; two timers at a time. In
`stuck_key` the window keeps the focus; in `upload` it comes and goes.

### Fairness
The clock runs: weak fairness of `Next`. Beyond it, only what the environment
must do: the memory answers what it has taken, an endpoint accepts in the end
(`soc_progress`), bytes go on arriving where a property says so in its premise
(`TransfersEnd`), the fabric takes the handler's access (`interrupts`). The
arbiter's fairness is never assumed; it is checked. `write_buffer` has no
arbiter in it and assumes what `soc_progress` checks: the fabric takes and
answers what it is offered.

In `boot` and `upload` the programs on both ends go on (weak fairness of the
ROM or loader, of an application that reads its input, and of the uploader), and
the user of `UploadRecovers` retries a failed upload. He presses BTN0 when an
application runs in the way; in `upload` also after an overflow, and sooner or
later (strong fairness, as attempts in between make it possible only now and
then). `ViewerResyncs` assumes that the engine goes on drawing and the viewer
reading as long as a game is played (`DrawsFairly`, weak fairness of an action
that is enabled throughout such a session, written without ENABLED for TLC).
Faults are bounded by `MaxFaults` and never fair.

## 5. Divergences
`dma_priority` checks what `phase8/README.md:119` says: "CPU/host accesses have
priority". TLC finds a behaviour in which they do not. The DMA is programmed to
receive from the UART; the round-robin arbiter selects its read of the receive
register; the queue is empty, so the endpoint is not ready
(`soc_core_txn.sv:335-336`); the selection does not move on, since it changes
only after a response. Data accesses and fetches of the CPU now wait for a byte
from outside, and so does `dma_abort()`, which would end it. The sentence is
true of `soc_top.sv:205-228`, which `soc_core_txn.sv` replaced.

`stuck_key` checks what `docs/doom_feasibility.md:975` says: "Key-up is
transmitted when a key is released". In this run the window keeps the focus
(`KeysInFocus`), so that the viewer is told of every press and release. TLC finds
ten states to the contrary: the key is pressed as `w`, Shift goes down, the key
is released as `W`, Shift is released. The viewer looks the name of the release
up among those of the presses (`doom_viewer.py:309`), finds no `W` and sends
nothing; the release of Shift is sent when its timer ends. In the last state
nothing is held, no timer runs and everything sent has been read, but
`sources = {"w"}` and the engine goes on walking. Pressing the key and releasing
it as `w` ends that (the release is then found), and so does a loss of the focus,
which releases every code. The opposite order is as short: pressed as `W` with
Shift down, released as `w` after Shift; `sources` is then `{"W"}`, and a press
and release with Shift down end it. TLC prints the one it finds first.

## 6. Proofs
Each proof shows an inductive invariant for every value of the constants that
satisfies the named assumptions, and derives the properties from it. TLC
evaluates the assumptions in the runs, and has checked each inductive invariant
on the configuration of its run.

| module | theorems | property of a run that each one states |
|---|---|---|
| `BufferedMemoryProofs` | `Invariance`, `TypeCorrect` | |
| | `StoresAreKept`, `DirectIsOrdered`, `FaultStops`, `BufferIsOrdered` | `NoLostStore`, `DirectSeesAllStores`, `FailStop`, `ImplementsOrderedMemory` |
| `CachedMemoryProofs` | `CacheInvariance`, `CacheTypeCorrect` | |
| | `LinesAreTrue`, `CacheIsTransparent` | `LinesMirrorMemory`, `ImplementsAtomicMemory` |
| `SocMemoryProofs` | `SocInvariance` | |
| | `AgentsStayOwners`, `LoadsStayCurrent`, `FaultStaysFatal` | `AgentsOwnMemory`, `LoadsAreCurrent`, `FaultStopsTheBus` |
| `DmaProofs` | `DmaInvariance` | |
| | `NoAccessIsOrphaned`, `EndsStayReported` | `NoOrphan`, `EndsAreReported` |
| | `ProgressStaysTrue`, `WaitStaysMeaningful` | `ProgressIsTrue`, `WaitMeansCopied` |
| `DeviceProofs` | `TimerInvariance` | |
| | `NoEarlyInterrupt`, `ReadIsATime`, `SleepIsLongEnough` | `NoTransientMatch`, `ReadIsTrue`, `SleepLasts` |
| | `InterruptsInvariance` | |
| | `SourcesServedOnce`, `HandlerRunsOn`, `RingIsQueue` | `ServedOnce`, `HandlerNeverStalls`, `ImplementsByteQueue` |
| `BootProofs` | `RomInvariance`, `RomTypeCorrect` | |
| | `OnlyVerifiedRuns`, `RomKeepsPromise` | `RunnableIsVerified`, `ImplementsVerifiedImage` |
| | `SystemInvariance`, `PartsKeepTheirSpecs` | |
| | `UploadsAreRight` | `HostAgrees` |
| | `SnakeInvariance` | |
| | `BodyStaysWhole`, `NeckStaysSafe`, `ScreenStaysTrue` | `BodyIsWhole`, `NeckIsSafe`, `ScreenShowsGame` |
| `DdrProofs` | `LoaderInvariance`, `ValidIsReadable`, `HeapCorrect` | |
| | `HandoffStaysReadable`, `LoaderKeepsPromise` | `HandoffIsReadable`, `ImplementsVerifiedImage` |
| | `KeysStayAgreed` | `KeysAgree` |
| | `EncodingIsLossless`, `PicturesAreLossless` | `RleIsLossless` |
| | `SystemKeepsLoader`, `SystemKeepsKeys` | `HandoffIsReadable`, `ImplementsVerifiedImage`, `KeysAgree` |
| | `SystemKeepsHeap` | |
| | `UploadsAreRight` | `HostAgrees` |
| | `LumpsStayWhole` | `LumpsReadWhole` |

`Bus` holds the lemmas on the outcomes of a memory access that the first three use.

### 6.1 Store buffer
For every ring size, memory and set of requests, from `DepthAssumption` (at
least one entry), `RequestAssumption` (requests have the shape of a request, DDR
is part of the address space) and `NoneAssumption` (the absent value is neither
a request nor a response).

`IInv` is `TypeOK /\ RingShape /\ OneAccess /\ NoLostStore`. `NoLostStore`
alone is not inductive: a store leaves the ring when the memory answers, and
that preserves it only if the access the memory answers *is* the oldest entry
(`OneAccess`: state machine, ring and fabric agree on the access under way),
and a store that enters must land just behind the newest one (`RingShape`:
`tail` is `count` entries after `head`). The lemmas go from the bus
(`OutcomeFacts`) over ring arithmetic (`NthFacts`, `NthAfterPop`) to what an
edge does to each register (`ClockFacts`, `ClockStates`, `RingStep`), then one
lemma per action (`QuietStep`, `AnswerStep`, `ResetStep`).

`BufferIsOrdered` maps every step under `IInv` to a step of `OrderedMemory` or a
stutter. The backlog is the ring read from `head`; a simultaneous push and pop
is two things at once in the concrete memory and one step in the abstract one,
which is why the abstract step appends and removes together.

### 6.2 Cache
For any division of DDR into words, any number of lines, any memory and
requests, and for both values of `FAST_HIT`, from the assumptions of `Bus` and
`DdrCache` (`WordAssumption`: words are disjoint, cover DDR and have a line
each; `BytesAssumption`: a request covers some byte).

`LinesMirrorMemory` alone is not inductive: a store may change any of its bytes
when the memory answers, so no line may hold one of them then
(`StoreUncached`, the reason a store gives up its line in LOOKUP and a bypassing
store all of them); the word kept after a store that hit is merged from the line
captured at acceptance, which must still be true (`CapturedLine`, unless
poisoned) and must be the line of the request (`WriteHit`); and the access the
memory answers must be the one the cache holds, widened to a word for a load
(`Registers`). `StepIsEdge` brings the three environment actions to one form,
and then there is one lemma per state of the machine, which shows both that
`IInv` is kept and which step of `AtomicMemory` it is: a request is opened in
`AcceptStep`, performed in `HitStep` or `FinishStep`, and every other edge is
another master's.

### 6.3 The memory system composed
For any words, lines, ring size, memory and requests of the four masters, for
both values of `FAST_HIT` and whatever `ext_mem_ready` does, from the
assumptions of `Bus` and `ShapeAssumption`, `WordAssumption` and
`MasterAssumption` of `SocMemory` (an access covers some byte; a fetch does not
write: `cpu_top_soc.sv:248` ties its `ibus_req_write` to zero).

`View` is the memory with the stores in the ring applied, oldest first: what the
CPU should read. The invariant has two halves.

* `Wired` says that the components agree, and is inductive by itself:
  the ring is one (`RingShape`); owner, target state, pending reply and the
  access in the external memory belong to one access, the CPU's exactly when the
  buffer waits for an answer (`OneAccess`); the buffer has a direct access or an
  answer only while the cache waits for it, with the ring drained (`InStep`); a
  store that hit has the line it is to be merged into (`WriteHit`); data that
  will be looked at covers the bytes asked for (`AnswerShape`); and
  `AgentsOwnMemory`. `AgentsOwnMemory` needs `OneAccess` and `InStep`: the grant
  samples idle wires, and that they stay idle until the agent is answered is a
  matter of what a pending agent shuts off (`QuietFacts`).
* `Current` says that until a late store error everything the CPU may read is
  true to `View`: the lines; the line captured for the access in hand, but for
  the bytes it stores; the reply in the target, in the buffer and in the cache.
  A load's reply waits in two registers while posted stores could
  still arrive; that none does is `InStep` (a direct access is alone), and that
  no agent writes under it is `AgentsOwnMemory`. `StoreUncached` is needed as in
  6.2, with a difference: its bytes must be out of the lines when it is *posted*,
  which is when `View` has it, long before the memory performs it.

An edge is one conjunction of five components' steps, with wires between them.
`StepMoves` turns it into moves named for what happens (`Rests`, `Grants`,
`Collects`, ... of the fabric; `Posts`, `Opens`, `Pops`, ... of the buffer;
`Looks`, `Hits`, `Gets`, ... of the cache) with the wires worked out under
`Wired`. `ViewMoves` then says that `View` changes only by a store that is
posted, in the very bytes of that store, and by a direct store in its own
(`DdrMoves`): popping a store from the ring and performing it in memory
cancel out, which `ViewStep` shows for a ring of any size. One lemma for each
part of the invariant follows. `FaultStopsTheBus` is an action
property and follows from `Wired`: after the fault nothing is presented to the
arbiter.

### 6.4 DMA
For every memory, receive queue and set of jobs, with aborts and stray register
writes at any moment, from `MemoryAssumption` (memory, the UART's data registers
and the engine's own window do not overlap) and `JobAssumption`: jobs are of the
kinds `dma.h` has (memory is walked through, the UART is not and is accessed
byte by byte), a source and a destination in memory lie inside it for their
whole length, and no job overwrites what a job reads. The last clause is what
makes "the source" mean one thing: of an overlapping copy the code promises
nothing. Addresses that nothing answers to, illegal widths, empty transfers and
the engine's own registers as source or destination are allowed.

* `NoOrphan` needs `Wired`: that the abort is a bus access itself, so that while
  it is answered the arbiter's owner is the CPU and the engine, which waits
  exactly when it is the owner, does not wait.
* `EndsAreReported` needs `Unreported`: done and error were cleared when the
  transfer started, so that what is set at its end is its own.
* `ProgressIsTrue` counts beats, but a beat takes two accesses, and the bytes
  are in the reply, in the read buffer or in memory before they are counted.
  `BeatHeld` says where the beat in flight is, `BeatsLanded` that in
  ST_WRITE_WAIT it is in memory already, `SourcesKept` that what is still to be
  read is as it was. That neither property has to speak of unmapped addresses
  comes from the last clause of both: where nothing answers, the first access
  fails, so `transferred` is still zero. `Programmed` follows the four
  configuration stores of `dma_start`, and `Setup => ~Busy` is why none of them
  is ignored: the program has seen BUSY clear and nobody else starts transfers.
* `WaitMeansCopied` is about a status sampled edges before it is used. `Waited`
  says that it is still true then: once not busy, the engine stays so while the
  program waits.

`EdgeShape` reduces an edge to one of five (nothing taken, an access of the
fetch, the CPU or the engine taken, an access answered), and each part of the
invariant is shown for each of them.

### 6.5 Timer
For every width of the halves, any deadlines and any sleeps below the wrap of
the milliseconds (`HalfAssumption`, `HorizonAssumption`, `SleepAssumption`).
The invariant is `TimerInv`. `Compared` says what the comparator holds between the three stores: with the
high half all ones it is above every time but those of the last rollover, and
after the second store its low half is the new one. `Sampled` says that the
halves a read has loaded belong to moments of the call: the low one was read at
some `t`, the high ones before and after it, so that two equal high halves leave
no room for a rollover. `SleepIsLongEnough` then needs that both times a sleep
compares were times of the sleep (`Began`) and that a difference taken modulo the
wrap is at most the difference.

### 6.6 Interrupts
For any sources, priorities, thresholds, bytes and depth of the queue, and any
register writes that `plic_priority_set`, `plic_source_enable` and
`plic_threshold_set` can make (`SettingAssumption`; in particular the program
claims and completes nothing itself). `ServedOnce` needs `Service`: what is in
service is exactly what the handler holds (`InHand`), which passes through the
reply on the bus between claim and handler, and out of its hands with the store
to COMPLETE; and nothing is pending and in service at once. `HandlerNeverStalls`
needs `ByteStays`: once the handler has read a status with a byte in it, the
byte stays, because an access of the interrupted program that was in EX is on
the bus before the handler's claim and nowhere after it (`BusShape`).
`RingIsQueue` maps the ring with its two pointers to the sequence between them;
`RingFacts` and
`AtFacts` do the modular arithmetic.

### 6.7 Boot ROM
For any images, flash contents and sizes, and *whatever* arrives over the line
and whenever the board is reset, from `CrcAssumption` (the CRC is extended token
by token) and `CrcDetects` (a CRC that is announced on the line or in the flash
belongs to a meant image and no other content has it).

`RunnableIsVerified` is not inductive: that the image is whole after the last
token follows from `TransferIsSound` (the CRC so far is that of the tokens so
far, and the size was checked before the first of them), and that an older
image is not started in the middle of a transfer from `UploadedIsSound`
(`uploaded` is zero while its bytes are overwritten, or the ROM is in a state
that cannot start it).

*With the uploader.* For any images and jobs, any block size and any number of
faults, from `LineAssumption`: lengths and CRCs are sent as tokens, no two
images have one CRC, and `MaxFaults` garbled tokens do not make of an image and
its CRC another image of that length with its CRC. The last part is what a CRC
is for; without it, and with enough faults, the uploader would be told `OK` for
another image, and rightly so as far as either end can tell.

The tokens of an upload get places: -2, -1 and 0 for magic, length and CRC, and
from 1 for the payload. `SentUpTo` is the place the uploader has sent, `Past`
the place the ROM has taken, and `Delivered` what lies at each place, in the
ROM's variables up to `Past` and in the receive queue beyond. `HostAgrees` is
not inductive; `UploadInv` says of an upload under way what makes it so:
* `Called`: the command is sent into a silent line, so that the `READY` that is
  heard answers this command and not one of an earlier attempt;
* `InStep`: the ROM never has more than was sent, and while it has all of it,
  the places where something else was delivered than sent (`Garbled`) are at
  most the faults so far. A loss leaves the ROM behind for good, since a token
  takes one place;
* `Taken`: once the `NEXT` of full length is on the line, nothing is left in
  the receive queue, so that nothing arrives late;
* `OkIsTrue`: an `OK` *behind* the `NEXT` of full length speaks of this image.
  An `OK` before it does not matter, since the uploader would stop at it.

`RightImage` is the step where the checksum is compared: if another image had
arrived, its CRC and `MaxFaults` of its tokens would be garbled, one more than
there were faults. What the uploader sends is a closed form (`Payload`), so that
`SentStep` and `PayloadEnds` are division with remainder and no induction over
the blocks is needed. `PartsKeepTheirSpecs` shows that the ROM and the game in
the system do what they do alone, which carries their theorems over.

### 6.8 DDR loader
The same, with byte timeouts and overflows, and for its WAD. `CrcDetects` is a
hypothesis of each theorem here and not an assumption that TLC evaluates: it
speaks of all contents of the length of a WAD, too many to enumerate.

The invariant seals the file instead of naming its content: a valid record
means that no transfer is under way and that the file has the record's CRC and
has passed `ValidWad` (`HandoffIsSound`); in the state between verification and
the writing of the magic the file is sealed already. `HandoffIsReadable` follows
with `ValidIsReadable`: the comparisons of `valid_wad` subtract where a sum
would wrap, so a directory of any words that passes has every lump inside the
file.

`HeapCorrect` (`HeapSpec => []HeapIsDisjoint`) has `HeapAssumption` as its
hypothesis, which `DdrSystem` assumes and TLC evaluates.

### 6.9 The DDR board and its uploader
For any applications, WADs and jobs, any lengths and block sizes and any number
of faults, with byte timeouts, overflows, BTN0, other applications and DOOM on
the same line.

`SystemInv` is `IInv /\ HostInv /\ SessionInv`: the loader's invariant, the
uploader at a place of its script, and the keys' invariant while DOOM is
looked at for its keys (and no keys otherwise). It gives `SystemIsEnvironment`:
what the uploader, the user, the faults and DOOM do to the line is among what
the loader alone is proved correct against. `SystemKeepsLoader`,
`SystemKeepsKeys` and `SystemKeepsHeap` carry the theorems of the parts over.

`UploadsAreRight` is the theorem of 6.7 for the other loader, and harder: the
loader gives up in the middle by itself (`ByteTimeOut`) and then takes payload
for commands, it has two uploads and two protocols in one script, and `HostAgrees`
speaks of the WAD and its record too. The script is cut into *parts* (`"ask"`,
`"app"`, `"wad"`, `"info"`, `"end"`), and `At(p, fast, r)` says that the uploader
is before step `r` of part `p`; `UploadParts` and `GoOnFrom` say of a script of
any length which step that is and which one follows. `Promised(p, fast, r)` is
what is so there as long as the board is not powered up, and `UploadInv` that
the uploader is always at a place where it is so:
* `Calm`, `OneAnswer`: nothing is on its way but the last token or the line that
  answers it. So a `READY` answers this command (`Asked`), an `INFO` this query
  (`Queried`), and nothing is left over when the next part begins;
* `InStepWith`: as in 6.7, the loader is never further than the uploader, and
  if it has everything, what was delivered otherwise than sent is at most the
  faults so far. One that has timed out or overflowed is behind for good;
* `Taken`, `Whole`: with the acknowledgement of the full length on the line the
  receive queue is empty, and what is in memory is the file or its CRC fails
  (`OnlyTheFile`: another file with its CRC would differ in more places than
  there are faults). A WAD arrives over an application that is still there
  (`Held`), and an application clears the record of the WAD before it;
* `OkIsTrue`: an `OK` behind that acknowledgement is a true one, and behind it
  comes only `GO` with the application running.

*What DOOM reads.* `LumpsStayWhole` needs two invariants more. `SuccessInv`:
after a success nothing happens on the board but the application that was
uploaded, or the loader is at rest with an empty receive queue, so that no later
token can exchange the WAD or start another application. `FilesInv`: while DOOM
reads files, the handoff record is valid. `StepReads` then takes each call of
the engine: the lump it has looked up lies inside the file (`LumpWithin`, from
`HandoffIsReadable` and `ValidIsReadable`), and what `_read` copies from the
descriptor's position is that range of the file (`LumpIsRead`).

Assumptions: `JobAssumption` (jobs are made of the files), `LineAssumption` (as
in 6.7, for files of each kind) and `CrcDetects` as a hypothesis, as in 6.8.
`cut` stays in both properties: they say nothing of an upload during which the
board was powered up.

### 6.10 Pictures
`EncodingIsLossless` is about the loops of `rle_size`, `send_rle` and the
decoder for every sequence of pixels and every greatest run length
(`StreamAssumption`). The loops are recursive functions over positions: size and
code of what follows position `i` depend on later positions only.
`BackwardRecursion` shows that such a function exists and takes the value its
equation gives, from the library's theorem on recursion over well-founded
relations, whose parameter is a *set*. The induction over positions is done on
sets too: the positions at which the claim fails have no smallest one
(`WFMin`). `LiteralEnd` needs a lemma of its own: a literal ends before the
next run of three, after 128 pixels or with the picture, and never empty, so
that both loops cut the data at the same positions.

### 6.11 Keys
For any keys, names, codes and depth of the queue, and any number of presses,
repeats, timers and losses of focus. `KeysAgree` speaks of an empty line only; the
invariant (`KeysOnTheWay`) says what is on a line that is not empty: release
prefixes come in pairs with a code, and the *last word* about each code, in the
queue or heard already, is whether its count is above zero. `ToldStep` shows
that of whatever the viewer appends, `TakeFacts` of what the engine takes. With
`KeyTyped` the counts are those of the pressed names, which is why a loss of
focus, which releases every name, leaves no count behind, and every timer that
is known of runs.

### 6.12 The game
For a field of any size and any greatest length (`GameAssumption`), and for any
keys and any free cells for the food. `BodyIsWhole` needs `LooksAhead` to be
inductive: the head is one step from the neck in the direction of the last move,
so that a direction other than the opposite one leads to another cell than the
neck; the heart is that a body whose head enters a free cell, or the cell its
tail leaves, stays injective.

### 6.13 Only model-checked
* `ShownIsDrawn`: the viewer takes a picture from a garbled packet if its CRC
  agrees. Here a packet may be cut or run into the next, so that the hypothesis
  on the CRC, and on headers that come about by accident, would be about all
  sequences of tokens on the line. TLC decides it for the tokens of the run.
* What `Crc` is: the models have it as a constant, in the boot ROM related to
  `CrcByte` by an assumption.
* All liveness: `Progress`, `AgentsAreServed`, `CpuIsServed`, `TransfersEnd`,
  `ForemostIsServed`, `UploadRecovers`, `ViewerResyncs`. Fairness and ENABLED
  are beyond the proof system.

## 7. Plan
1. (done) store buffer, cache, fabric, DMA, timer, interrupts; proofs of the
   store buffer and of the cache.
2. (done) boot ROM, DDR loader, uploaders, DOOM port and viewer, game; proofs of
   both loaders, the WAD checks, the heap and the game.
3. `AxiBridge`: the two-beat accesses of `rv_bus_to_axi128.sv` and the channel
   handshakes of both bridges, implementing `Bus!Outcomes`.  Below the whole of
   `SocMemory` the two-beat state machine multiplies its states past 2.5 million
   before the search ends, so it belongs below a single requester, as in
   `CachedMemory`, or needs `Outcomes` assumed of the bridge there and shown here.
4. `InstructionCache` and `FetchFrontend`: refill against `fence.i`, killed
   responses, the streaming fetch of `cpu_top_soc.sv:202-350`.
5. `PageWalker`: TLB fills, walks abandoned by `sfence`, fault attribution.
6. `TrapUnit`: `mie`, delegation, interrupt priority, trap entry and `mret`.
7. (done) proofs of the store buffer's refinement, the DMA at work, the timer,
   interrupts and the keys.
8. (done) proofs of the composed memory system: ownership, current loads, the
   fault stop.
9. Proofs that relate a board and its host through the line: (done) `HostAgrees`
   of both loaders, the parts of the DDR board in their system, and the encoding
   of the pictures, and `LumpsReadWhole`. Left: `ShownIsDrawn`.

Abstract specifications still worth stating: a coherent memory that
`SocMemory` implements, and a copy service that `DmaSystem` implements. Steps 3
to 6 are best taken by composing the new modules into the existing runs
(`ddr_cache`, `soc_memory`, `interrupts`), which keeps one question per run.

## 8. Not modelled
* The instruction set, the pipeline's hazards and the arithmetic units:
  covered by the repository's riscv-formal set-up and test benches.
* PMP and pair-issue rules: combinational, planned as pure operators.
* The shared-cache profile (`LOCAL_DCACHE = 0` with a cache at the DDR port):
  the same cache module with a simpler environment.
* The DTCM port of the block RAM, the QSPI shifter, `fault_addr`, `msip`,
  CONTROL read-back. MEMINFO is constant after calibration
  (`soc_core_txn.sv:359-364`), so the loader's later `DDR` errors cannot occur.
* Serial bits and baud rates: the models see whole bytes or protocol units.
* Of the software: banners and progress output, the score, pseudo-random
  numbers (any free cell), palette and sampling of pictures, the counters of
  `DG_DrawFrame`, `_fstat`/`_stat` and the system calls that only fail,
  `doom_decode_patch` (used by the title picture demo alone), the demo and test
  programs. The branch of the literal loop in `doom_stream.c` that would take
  more than one pixel never does, and has no counterpart.
* Of the hosts: command lines, the uploader's own check of a WAD (the loader
  must not rely on it), RVF1 packets, and the queue between the viewer's two
  threads (`frames.full()` followed by `get_nowait()` while the other thread
  empties it).
* The legacy `soc_top.sv`, board tops, vendor IP, the simulation-only research
  core, Vivado flows.
