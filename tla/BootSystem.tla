----------------------------- MODULE BootSystem -----------------------------
(***************************************************************************)
(* The boot ROM, the uploader of uart_upload.ps1 at the other end of its   *)
(* serial line, the user who retries and presses BTN0, and the game that   *)
(* the Makefile packs into the flash (FLASH_BIN).                          *)
(*                                                                         *)
(* The line may lose or garble MaxFaults tokens or lines, and power-ups in *)
(* the middle of everything count as faults too.                           *)
(***************************************************************************)
EXTENDS BootRom, HostScript, Snake, FiniteSets

CONSTANTS
  Job,        \* uploads: [image |-> an image, run |-> BOOLEAN]
  GameImage,  \* the image that is snake.c
  MaxFaults

ASSUME JobAssumption ==
  /\ \A j \in Job : j.image \in Image /\ j.run \in BOOLEAN
  /\ GameImage \in Image /\ MaxFaults \in Nat

\* The length and the CRC of an image are sent as tokens.  No two images have
\* one CRC, and MaxFaults changes do not make of an image and its CRC another
\* one of its length with its CRC.
ASSUME LineAssumption ==
  /\ \A s \in Image : {Len(s), Crc(s)} \subseteq Token
  /\ \A s, t \in Image : s # t => Crc(s) # Crc(t)
  /\ \A s, t \in Image : s # t /\ Len(s) = Len(t) =>
       Cardinality({i \in 1..Len(s) : s[i] # t[i]}) >= MaxFaults

VARIABLES
  job, todo, outcome,  \* the uploader (SerialHost)
  faults,  \* how many have happened
  cut      \* history: the board was powered up during the last upload

WholeScript(j) ==
  Send(<<IF j.run THEN UploadRun ELSE Upload>>) \o Wait(Line("READY"))
    \o Send(<<Magic, Len(j.image), Crc(j.image)>>) \o Wait(Line("HEADER_OK"))
    \o Payload("NEXT", j.image, Block) \o Wait(Line("OK"))

Scripts == [j \in Job |-> WholeScript(j)]
Script(j) == Scripts[j]

Host == INSTANCE SerialHost

hostVars == <<job, todo, outcome>>
systemVars == <<romVars, lineVars, hostVars, snakeVars, faults, cut>>

SystemInit ==
  /\ Init /\ Host!HostInit /\ SnakeOff
  /\ faults = 0 /\ cut = FALSE

-----------------------------------------------------------------------------
Rom == RomStep /\ UNCHANGED <<hostVars, snakeVars, faults, cut>>

\* Applications: the game, and others that read what comes over the line.
GameRuns == pc = "app" /\ Runnable = GameImage

AppReads ==
  /\ pc = "app" /\ game = "off"
  /\ Receive
  /\ UNCHANGED <<romVars, toHost, hostVars, snakeVars, faults, cut>>

Game ==
  /\ GameRuns
  /\ (outcome # "busy" /\ rx = <<>> /\ Welcome) \/ GameStep
  /\ UNCHANGED <<romVars, lineVars, hostVars, faults, cut>>

\* The user uploads to a board that runs no application, the same again
\* after a failure.
UserUploads ==
  /\ pc # "app"
  /\ \E j \in Job : (outcome = "failed" => j = job) /\ Host!Open(j)
  /\ cut' = FALSE
  /\ UNCHANGED <<romVars, snakeVars, faults>>

Restart ==
  /\ Reset /\ Off
  /\ cut' = (outcome = "busy")
  /\ UNCHANGED hostVars

\* BTN0, between uploads.
UserResets == outcome # "busy" /\ Restart /\ UNCHANGED faults

HostStep ==
  /\ Host!SendToken \/ Host!HearLine \/ Host!TimeOut
  /\ UNCHANGED <<romVars, snakeVars, faults, cut>>

Fault ==
  /\ faults < MaxFaults /\ faults' = faults + 1
  /\ \/ /\ Host!SendLost \/ Host!LoseLine \/ \E t \in Token : Host!SendGarbled(t)
        /\ UNCHANGED <<romVars, snakeVars, cut>>
     \/ outcome = "busy" /\ Restart

SystemNext ==
  Rom \/ AppReads \/ Game \/ UserUploads \/ UserResets \/ HostStep \/ Fault

\* The board and the uploader go on; a user whose upload has failed retries,
\* after BTN0 when an application runs.
Fairness ==
  /\ WF_systemVars(Rom) /\ WF_systemVars(AppReads) /\ WF_systemVars(HostStep)
  /\ WF_systemVars(outcome = "failed" /\ UserUploads)
  /\ WF_systemVars(outcome = "failed" /\ pc = "app" /\ UserResets)

SystemSpec == SystemInit /\ [][SystemNext]_systemVars /\ Fairness

-----------------------------------------------------------------------------
\* When the uploader reports success and nobody pressed BTN0 meanwhile, the
\* image that may be started or runs is the one it has uploaded, whatever
\* attempts came before and whatever the line did to tokens and lines.
HostAgrees ==
  [][outcome = "busy" /\ outcome' = "ok" /\ ~cut => Runnable' = job.image]_systemVars

FlashBoots ==
  /\ flash.magic /\ flash.entry /\ flash.size \in 1..MaxSize
  /\ Crc(Content(flash.data, flash.size)) = flash.crc

\* With no good image in the flash, a user who retries succeeds: the ROM has
\* no timeouts, and yet no failed attempt leaves it in a state that later
\* attempts cannot get it out of.  BTN0 is needed only when an application
\* was started.
UploadRecovers == ~FlashBoots /\ outcome = "failed" ~> outcome = "ok"
=============================================================================
