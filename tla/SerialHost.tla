----------------------------- MODULE SerialHost -----------------------------
(***************************************************************************)
(* An uploader at the other end of the serial line (uart_upload.ps1 and    *)
(* ddr_upload.ps1): a script of tokens to send and lines to wait for.      *)
(*                                                                         *)
(* The scripts wait seconds for a line and the board answers within        *)
(* milliseconds: a wait times out only when the board is waiting too.      *)
(***************************************************************************)
EXTENDS SerialLine

CONSTANTS
  Job,       \* the uploads a user may ask for
  Script(_)  \* the script for a job (HostScript)

VARIABLES
  job,     \* the last upload that was begun
  todo,    \* the steps of its script that are left, none when the port is closed
  outcome  \* "none" before the first upload, "busy", "ok" or "failed"

HostInit == job \in Job /\ todo = <<>> /\ outcome = "none"

Step == Head(todo)
Doing(what) == outcome = "busy" /\ Step.do = what

GoOn ==
  /\ todo' = Tail(todo)
  /\ outcome' = IF Len(todo) = 1 THEN "ok" ELSE "busy"
  /\ UNCHANGED job

Answer(a) == todo' = Step.then[a] /\ UNCHANGED <<job, outcome>>

GiveUp == todo' = <<>> /\ outcome' = "failed" /\ UNCHANGED job

\* The port is opened; 150 ms later, when the board has done with what had
\* been sent before, old lines are discarded.
Open(j) ==
  /\ outcome # "busy" /\ rx = <<>>
  /\ toHost' = <<>>
  /\ job' = j /\ todo' = Script(j) /\ outcome' = "busy"
  /\ UNCHANGED <<rx, overflow>>

SendToken ==
  /\ Doing("send")
  /\ Arrive(Step.token)
  /\ GoOn
  /\ UNCHANGED toHost

\* A token that does not arrive, or arrives as another one.
SendLost ==
  /\ Doing("send")
  /\ GoOn
  /\ UNCHANGED <<rx, overflow, toHost>>

SendGarbled(token) ==
  /\ Doing("send") /\ token # Step.token
  /\ Arrive(token)
  /\ GoOn
  /\ UNCHANGED toHost

\* Wait-Line: the expected line, a line that ends the upload (an error, or a
\* report of another size than the expected one), or one that is passed over.
Expected(line) == line = Step.line \/ (Step.prefix /\ line.of = Step.line.of)
Rejected(line) ==
  line.of = "ERR" \/ (line.of \in {"INFO", "WAD_INFO"} /\ line.of = Step.line.of)

HearLine ==
  /\ Doing("wait") \/ Doing("ask")
  /\ toHost # <<>> /\ toHost' = Tail(toHost)
  /\ IF Expected(Head(toHost))
     THEN IF Step.do = "ask" THEN Answer(TRUE) ELSE GoOn
     ELSE IF Rejected(Head(toHost)) THEN GiveUp ELSE UNCHANGED <<job, todo, outcome>>
  /\ UNCHANGED <<rx, overflow>>

TimeOut ==
  /\ rx = <<>> /\ toHost = <<>>
  /\ (Doing("wait") /\ GiveUp) \/ (Doing("ask") /\ Answer(FALSE))
  /\ UNCHANGED <<rx, overflow, toHost>>

\* A line is garbled on its way to the host.
LoseLine ==
  /\ toHost # <<>> /\ toHost' = Tail(toHost)
  /\ UNCHANGED <<rx, overflow, job, todo, outcome>>
=============================================================================
