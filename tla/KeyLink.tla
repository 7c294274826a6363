------------------------------ MODULE KeyLink ------------------------------
(***************************************************************************)
(* Keys on their way from the player to the DOOM engine: the viewer's      *)
(* bookkeeping of what is pressed (doom_viewer.py), the codes it sends,    *)
(* 0xF0 and the code for a release, the UART's receive queue, and          *)
(* DG_GetKey() in doom_board.c.                                            *)
(*                                                                         *)
(* A key reports itself by a name that depends on Shift ('w' and 'W'); two *)
(* keys may stand for the same code.                                       *)
(***************************************************************************)
EXTENDS SerialLine, FiniteSets

CONSTANTS
  Key, Shift,      \* keys of the keyboard; Shift is one of them
  Reported,        \* Reported[key][with Shift]: its keysym
  Keysym, KeyCode, \* keysyms, and key_code() of each
  Release,         \* 0xF0
  MaxTimers        \* bound: the timers of one keysym

ASSUME KeyAssumption ==
  /\ Shift \in Key
  /\ Reported \in [Key -> [BOOLEAN -> Keysym]]
  /\ \A s \in Keysym : KeyCode[s] # Release
  /\ MaxTimers \in Nat \ {0}

VARIABLES
  held,     \* keys the player holds
  focus,    \* the viewer's window has the keyboard
  sources,  \* keysyms that are pressed, as far as the viewer knows
  counts,   \* code_counts
  pending,  \* pending_releases: keysyms with a 30 ms timer that is known
  timers,   \* how many timers of each keysym run, known or forgotten
  prefix,   \* release_prefix of the board
  down      \* codes the engine takes for pressed

keyVars == <<held, focus, sources, counts, pending, timers, prefix, down>>
viewerVars == <<sources, counts, pending, timers>>

Code == {KeyCode[s] : s \in Keysym}
NoKeys == [c \in Code |-> 0]
NoTimers == [s \in Keysym |-> 0]

KeysOff ==
  /\ held = {} /\ focus = TRUE
  /\ sources = {} /\ counts = NoKeys /\ pending = {} /\ timers = NoTimers
  /\ prefix = FALSE /\ down = {}

KeysReset ==
  /\ held' = {} /\ focus' = TRUE
  /\ sources' = {} /\ counts' = NoKeys /\ pending' = {} /\ timers' = NoTimers
  /\ prefix' = FALSE /\ down' = {}

-----------------------------------------------------------------------------
Keyname(k) == LET shifted == Shift \in held IN Reported[k][shifted]

Unsent == UNCHANGED <<rx, overflow>>

\* key_down(): a press during the 30 ms after a release is an auto-repeat.
KeyDown(s) ==
  IF s \in pending
  THEN /\ pending' = pending \ {s} /\ timers' = [timers EXCEPT ![s] = @ - 1]
       /\ UNCHANGED <<sources, counts>> /\ Unsent
  ELSE IF s \in sources THEN UNCHANGED viewerVars /\ Unsent
  ELSE /\ sources' = sources \cup {s}
       /\ counts' = [counts EXCEPT ![KeyCode[s]] = @ + 1]
       /\ IF counts[KeyCode[s]] = 0 THEN ArriveAll(<<KeyCode[s]>>) ELSE Unsent
       /\ UNCHANGED <<pending, timers>>

\* key_up().  A timer that runs already is forgotten, not cancelled.
KeyUp(s) ==
  /\ IF s \in sources
     THEN /\ timers[s] < MaxTimers
          /\ pending' = pending \cup {s} /\ timers' = [timers EXCEPT ![s] = @ + 1]
     ELSE UNCHANGED <<pending, timers>>
  /\ UNCHANGED <<sources, counts>> /\ Unsent

PressKey(k) ==
  /\ k \notin held /\ held' = held \cup {k}
  /\ IF focus THEN KeyDown(Keyname(k)) ELSE UNCHANGED viewerVars /\ Unsent
  /\ UNCHANGED <<focus, prefix, down, toHost>>

\* Auto-repeat: a press, or a release and a press at once, which is the same
\* to the viewer.
RepeatKey(k) ==
  /\ k \in held /\ focus
  /\ KeyDown(Keyname(k))
  /\ UNCHANGED <<held, focus, prefix, down, toHost>>

ReleaseKey(k) ==
  /\ k \in held /\ held' = held \ {k}
  /\ IF focus THEN KeyUp(Keyname(k)) ELSE UNCHANGED viewerVars /\ Unsent
  /\ UNCHANGED <<focus, prefix, down, toHost>>

\* Mutant: without counting the keys of a code.
FinishReleaseAlways(s) ==
  /\ timers[s] > 0 /\ timers' = [timers EXCEPT ![s] = @ - 1]
  /\ pending' = pending \ {s}
  /\ IF s \in sources
     THEN /\ sources' = sources \ {s}
          /\ counts' = [counts EXCEPT ![KeyCode[s]] = @ - 1]
          /\ ArriveAll(<<Release, KeyCode[s]>>)
     ELSE UNCHANGED <<sources, counts>> /\ Unsent
  /\ UNCHANGED <<held, focus, prefix, down, toHost>>

\* A timer: finish_release()
FinishRelease(s) ==
  /\ timers[s] > 0 /\ timers' = [timers EXCEPT ![s] = @ - 1]
  /\ pending' = pending \ {s}
  /\ IF s \in sources
     THEN /\ sources' = sources \ {s}
          /\ counts' = [counts EXCEPT ![KeyCode[s]] = @ - 1]
          /\ IF counts[KeyCode[s]] = 1 THEN ArriveAll(<<Release, KeyCode[s]>>) ELSE Unsent
     ELSE UNCHANGED <<sources, counts>> /\ Unsent
  /\ UNCHANGED <<held, focus, prefix, down, toHost>>

\* release_all(), in any order; the timers that are forgotten run on.
LoseFocus ==
  /\ focus /\ focus' = FALSE
  /\ LET pressed == {c \in Code : counts[c] > 0}
     IN \E order \in [1..Cardinality(pressed) -> pressed] :
          /\ {order[i] : i \in DOMAIN order} = pressed
          /\ ArriveAll([i \in 1..2 * Len(order) |->
                          IF i % 2 = 1 THEN Release ELSE order[i \div 2]])
  /\ sources' = {} /\ counts' = NoKeys /\ pending' = {}
  /\ timers' = [s \in Keysym |-> IF s \in pending THEN timers[s] - 1 ELSE timers[s]]
  /\ UNCHANGED <<held, prefix, down, toHost>>

GainFocus == ~focus /\ focus' = TRUE /\ UNCHANGED <<held, viewerVars, prefix, down, lineVars>>

\* DG_GetKey(), which the engine calls until there is nothing left.
GetKey ==
  /\ Receive
  /\ IF Received = Release /\ ~prefix
     THEN prefix' = TRUE /\ UNCHANGED down
     ELSE /\ prefix' = FALSE
          /\ down' = IF prefix THEN down \ {Received} ELSE down \cup {Received}
  /\ UNCHANGED <<held, focus, viewerVars, toHost>>

KeyStep ==
  \/ \E k \in Key : PressKey(k) \/ RepeatKey(k) \/ ReleaseKey(k)
  \/ \E s \in Keysym : FinishRelease(s)
  \/ LoseFocus \/ GainFocus
  \/ GetKey

KeySpec == KeysOff /\ LineInit /\ [][KeyStep]_<<keyVars, lineVars>>

-----------------------------------------------------------------------------
\* Unless the receive queue has overflowed, the engine's keys are the viewer's
\* as soon as everything that was sent is read, several keys for one code,
\* auto-repeat and timers or not; and without the focus no key is down.
KeysAgree ==
  rx = <<>> /\ ~overflow =>
    /\ ~prefix /\ down = {c \in Code : counts[c] > 0}
    /\ ~focus => down = {}

\* "Key-up is transmitted when a key is released" (docs/doom_feasibility.md:975).
KeyUpIsTransmitted ==
  held = {} /\ pending = {} /\ rx = <<>> /\ ~overflow => down = {}
=============================================================================
