-------------------------------- MODULE Timer --------------------------------
(***************************************************************************)
(* The timer of the core-local interruptor, phase8/rtl/clint.sv: a counter *)
(* that advances on every clock edge and a comparator, each twice as wide  *)
(* as the bus; and the software that reads and writes them in halves,      *)
(* clint_mtime_read() and clint_mtimecmp_write() of interrupts.h, with any *)
(* number of clock cycles between two bus accesses, and DG_SleepMs() of    *)
(* the DOOM port, whose ticks_ms() reads the time in the same way.  The    *)
(* counter does not wrap within a run: 2^64 cycles are longer than the     *)
(* machine lives.  The milliseconds of 32 bits do.  msip, one bit that     *)
(* nothing but software touches, is left out.                              *)
(***************************************************************************)
EXTENDS Integers, Sequences

CONSTANTS
  Half,      \* what a half holds is 0 .. Half - 1; the RTL has 2^32
  Deadline,  \* the deadlines the program sets
  Horizon,   \* bound: the last value of mtime that is explored
  Millisecond, MsWrap,  \* 25000 cycles, and the 2^32 of uint32_t
  Sleep      \* the milliseconds the program sleeps

ASSUME HalfAssumption == Half \in Nat \ {0, 1}

Full == 0 .. Half * Half - 1

ASSUME HorizonAssumption == Horizon \in Full /\ Deadline \subseteq Full

ASSUME SleepAssumption ==
  /\ Millisecond \in Nat \ {0} /\ MsWrap \in Nat \ {0}
  /\ Sleep \subseteq 0 .. MsWrap - 1

VARIABLES
  mtime, mtimecmp,           \* u_clint
  pc,                        \* the next access of the helper being run
  deadline,                  \* the argument of clint_mtimecmp_write()
  hiBefore, lo, hiAfter,     \* the locals of clint_mtime_read() and ticks_ms()
  caller,                    \* "read", or DG_SleepMs() at its "start" or in its "poll"
  ms, start,                 \* its argument and its local
  begun,                     \* history: mtime when it was called
  called,                    \* history: mtime when the helper was called
  previous                   \* history: the deadline before this one

clintVars == <<mtime, mtimecmp>>
locals == <<hiBefore, lo, hiAfter>>
sleepVars == <<caller, ms, start, begun>>
timerVars == <<clintVars, pc, deadline, locals, sleepVars, called, previous>>

-----------------------------------------------------------------------------
(***************************************************************************)
(* The registers.                                                          *)
(***************************************************************************)
Lo(n) == n % Half
Hi(n) == n \div Half

\* n with one half replaced.
SetLo(n, half) == Hi(n) * Half + half
SetHi(n, half) == half * Half + Lo(n)

ClintInit == mtime = 0 /\ mtimecmp = Half * Half - 1

TimerIrq == mtime >= mtimecmp

\* What a load from each register gives.
ReadRegister(register) ==
  [MTIMECMP_LO |-> Lo(mtimecmp), MTIMECMP_HI |-> Hi(mtimecmp),
   MTIME_LO |-> Lo(mtime), MTIME_HI |-> Hi(mtime)][register]

Tick == (mtime + 1) % (Half * Half)

\* One rising edge of the clock; a write to half of mtime leaves the other half
\* to the counter.
ClintClock(register, value) ==
  /\ mtime' = IF register = "MTIME_LO" THEN SetLo(Tick, value)
              ELSE IF register = "MTIME_HI" THEN SetHi(Tick, value) ELSE Tick
  /\ mtimecmp' = IF register = "MTIMECMP_LO" THEN SetLo(mtimecmp, value)
                 ELSE IF register = "MTIMECMP_HI" THEN SetHi(mtimecmp, value) ELSE mtimecmp

-----------------------------------------------------------------------------
(***************************************************************************)
(* The programs.                                                           *)
(***************************************************************************)
TimerInit ==
  /\ ClintInit
  /\ pc = "idle"
  /\ deadline = mtimecmp /\ previous = mtimecmp
  /\ hiBefore = 0 /\ lo = 0 /\ hiAfter = 0
  /\ called = 0
  /\ caller = "read" /\ ms = 0 /\ start = 0 /\ begun = 0

\* A cycle without a bus access.
Elapse ==
  ClintClock("none", 0) /\ UNCHANGED <<pc, deadline, locals, sleepVars, called, previous>>

-----------------------------------------------------------------------------
(***************************************************************************)
(* clint_mtimecmp_write(): high half all ones, low half, high half.        *)
(***************************************************************************)
CallWrite ==
  /\ pc = "idle"
  /\ pc' = "mask"
  /\ deadline' \in Deadline
  /\ previous' = deadline
  /\ called' = mtime
  /\ ClintClock("none", 0) /\ UNCHANGED <<locals, sleepVars>>

\* Mutant: without the first store.
MaskHiSkipped ==
  /\ pc = "mask"
  /\ pc' = "writeLo"
  /\ ClintClock("none", 0)
  /\ UNCHANGED <<deadline, locals, sleepVars, called, previous>>

MaskHi ==
  /\ pc = "mask"
  /\ pc' = "writeLo"
  /\ ClintClock("MTIMECMP_HI", Half - 1)
  /\ UNCHANGED <<deadline, locals, sleepVars, called, previous>>

WriteLo ==
  /\ pc = "writeLo"
  /\ pc' = "writeHi"
  /\ ClintClock("MTIMECMP_LO", Lo(deadline))
  /\ UNCHANGED <<deadline, locals, sleepVars, called, previous>>

WriteHi ==
  /\ pc = "writeHi"
  /\ pc' = "idle"
  /\ ClintClock("MTIMECMP_HI", Hi(deadline))
  /\ UNCHANGED <<deadline, locals, sleepVars, called, previous>>

-----------------------------------------------------------------------------
(***************************************************************************)
(* clint_mtime_read(): high, low, high again until both highs agree.       *)
(***************************************************************************)
CallRead ==
  /\ pc = "idle"
  /\ pc' = "readHi"
  /\ called' = mtime
  /\ ClintClock("none", 0)
  /\ UNCHANGED <<deadline, locals, sleepVars, previous>>

ReadHiBefore ==
  /\ pc = "readHi"
  /\ pc' = "readLo"
  /\ hiBefore' = ReadRegister("MTIME_HI")
  /\ ClintClock("none", 0)
  /\ UNCHANGED <<deadline, lo, hiAfter, sleepVars, called, previous>>

ReadLo ==
  /\ pc = "readLo"
  /\ pc' = "readHiAgain"
  /\ lo' = ReadRegister("MTIME_LO")
  /\ ClintClock("none", 0)
  /\ UNCHANGED <<deadline, hiBefore, hiAfter, sleepVars, called, previous>>

ReadHiAfter ==
  /\ pc = "readHiAgain"
  /\ pc' = "compare"
  /\ hiAfter' = ReadRegister("MTIME_HI")
  /\ ClintClock("none", 0)
  /\ UNCHANGED <<deadline, hiBefore, lo, sleepVars, called, previous>>

\* Mutant: the loop runs once.
CompareOnce ==
  /\ pc = "compare"
  /\ pc' = "return"
  /\ ClintClock("none", 0)
  /\ UNCHANGED <<deadline, locals, sleepVars, called, previous>>

Compare ==
  /\ pc = "compare"
  /\ pc' = IF hiBefore # hiAfter THEN "readHi" ELSE "return"
  /\ ClintClock("none", 0)
  /\ UNCHANGED <<deadline, locals, sleepVars, called, previous>>

Return ==
  /\ pc = "return" /\ caller = "read"
  /\ pc' = "idle"
  /\ ClintClock("none", 0)
  /\ UNCHANGED <<deadline, locals, sleepVars, called, previous>>

-----------------------------------------------------------------------------
(***************************************************************************)
(* DG_SleepMs(): ticks_ms() once, and again until the difference is there. *)
(***************************************************************************)
CallSleep ==
  /\ pc = "idle"
  /\ pc' = "readHi" /\ caller' = "start"
  /\ ms' \in Sleep
  /\ begun' = mtime /\ called' = mtime
  /\ ClintClock("none", 0)
  /\ UNCHANGED <<deadline, locals, start, previous>>

\* What ticks_ms() returns.
TicksMs == ((hiAfter * Half + lo) \div Millisecond) % MsWrap

StartSleep ==
  /\ pc = "return" /\ caller = "start"
  /\ pc' = "readHi" /\ caller' = "poll"
  /\ start' = TicksMs
  /\ called' = mtime
  /\ ClintClock("none", 0)
  /\ UNCHANGED <<deadline, locals, ms, begun, previous>>

\* Mutant: compares points in time instead of durations.
AsleepUntil == TicksMs < (start + ms) % MsWrap

Asleep == (TicksMs - start) % MsWrap < ms

PollSleep ==
  /\ pc = "return" /\ caller = "poll"
  /\ IF Asleep THEN pc' = "readHi" /\ called' = mtime /\ UNCHANGED caller
               ELSE pc' = "idle" /\ caller' = "read" /\ UNCHANGED called
  /\ ClintClock("none", 0)
  /\ UNCHANGED <<deadline, locals, ms, start, begun, previous>>

TimerNext ==
  /\ mtime < Horizon
  /\ \/ Elapse
     \/ CallWrite \/ MaskHi \/ WriteLo \/ WriteHi
     \/ CallRead \/ ReadHiBefore \/ ReadLo \/ ReadHiAfter \/ Compare \/ Return
     \/ CallSleep \/ StartSleep \/ PollSleep

TimerSpec == TimerInit /\ [][TimerNext]_timerVars

-----------------------------------------------------------------------------
(***************************************************************************)
(* The timer interrupt is up only when the old or the new deadline has     *)
(* passed, also between the three stores that set a deadline               *)
(* (interrupts.h:42, "Prevent a transient match while updating a 64-bit    *)
(* register on RV32"), and it is not missed once the deadline is set.      *)
(***************************************************************************)
NoTransientMatch ==
  /\ TimerIrq => \/ mtime >= deadline
                 \/ mtime >= previous
                 \/ Hi(mtime) = Half - 1
  /\ pc \notin {"mask", "writeLo", "writeHi"} /\ mtime >= deadline => TimerIrq

(***************************************************************************)
(* The value clint_mtime_read() returns is the time at some moment of the  *)
(* call, whatever half rolls over between its loads.                       *)
(***************************************************************************)
ReadIsTrue ==
  pc = "return" => hiAfter * Half + lo \in called .. mtime

(***************************************************************************)
(* DG_SleepMs(ms) does not return before ms - 1 periods are over, where    *)
(* the halves of the timer roll over and where the 32-bit milliseconds do  *)
(* (doom_board.c:178-183; a begun millisecond counts as a whole one).      *)
(***************************************************************************)
SleepLasts ==
  [][caller = "poll" /\ caller' = "read" => mtime > begun + (ms - 1) * Millisecond]_timerVars
=============================================================================
