----------------------------- MODULE DdrSystem -----------------------------
(***************************************************************************)
(* A DDR board: the loader, the uploader ddr_upload.ps1 at the other end   *)
(* of its serial line, the user, and once it is started the DOOM port with *)
(* the viewer.                                                             *)
(*                                                                         *)
(* The line may lose or garble MaxFaults tokens or lines; a byte timeout   *)
(* while the uploader still sends and a power-up in the middle of an       *)
(* upload count as faults too, and so does a viewer that is opened anew.   *)
(***************************************************************************)
EXTENDS DdrLoader, HostScript, FrameParser, KeyLink

CONSTANTS
  Job,        \* uploads: [image, wad (or Absent), run |-> BOOLEAN]; the checks of
              \* the WAD in the script are left out: the loader has its own
  DoomImage,  \* the image that is the DOOM port
  Garbage,    \* what a garbled token can become
  MaxFaults,
  Slots, HeapStart, HeapEnd, Request, Size, Offset  \* DoomFiles

ASSUME JobAssumption ==
  /\ \A j \in Job : j.image \in Image /\ j.wad \in Wad \cup {Absent} /\ j.run \in BOOLEAN
  /\ MaxFaults \in Nat

\* The length and the CRC of a file are sent as tokens, and so are keys.  No two
\* files have one CRC, and MaxFaults changes do not make of a file and its CRC
\* another one of its length with its CRC.
ASSUME LineAssumption ==
  /\ Garbage \cup Code \cup {Release} \subseteq Token
  /\ \A s \in Image \cup Wad : {Len(s), Crc(s)} \subseteq Token
  /\ \A kind \in {Image, Wad} : \A s, t \in kind : s # t =>
       /\ Crc(s) # Crc(t)
       /\ Len(s) = Len(t) => Cardinality({i \in 1..Len(s) : s[i] # t[i]}) >= MaxFaults

VARIABLES
  job, todo, outcome,  \* the uploader (SerialHost)
  engine, files, heap, blocks, result,  \* DoomFiles
  session, \* what is looked at once DOOM runs: its files, the pictures or the keys
  faults,  \* how many have happened
  cut      \* history: the board was powered up during the last upload

AppScript(j) ==
  Send(<<IF j.run /\ j.wad = Absent THEN UploadRun ELSE Upload>>) \o Wait(Line("READY"))
    \o Send(<<AppMagic, Len(j.image), Crc(j.image)>>) \o Wait(Line("HEADER_OK"))
    \o Payload("NEXT", j.image, Block) \o Wait(Line("OK"))

WadScript(j, fast) ==
  Send(<<IF fast THEN FastWad ELSE WadUpload>>) \o Wait(Line("WAD_READY"))
    \o Send(<<WadMagic, Len(j.wad), Crc(j.wad)>>) \o Wait(Line("WAD_HEADER_OK"))
    \o Payload("WAD_NEXT", j.wad, IF fast THEN FastBlock ELSE Block) \o Wait(Line("WAD_OK"))
    \o Send(<<WadInfo>>) \o Wait([of |-> "WAD_INFO", n |-> Len(j.wad)])

EndScript(j) ==
  IF j.run THEN Send(IF j.wad # Absent THEN <<Go>> ELSE <<>>) \o Wait(Line("GO"))
  ELSE Send(<<Info>>) \o Wait([of |-> "INFO", n |-> Len(j.image)])

WholeScript(j) ==
  IF j.wad = Absent THEN AppScript(j) \o EndScript(j)
  ELSE LET rest(fast) == AppScript(j) \o WadScript(j, fast) \o EndScript(j)
       IN Send(<<WadInfo>>) \o WaitPrefix([of |-> "WAD_INFO", n |-> 0])
            \o Send(<<Caps>>) \o Ask(Line("CAPS"), [fast \in BOOLEAN |-> rest(fast)])

Scripts == [j \in Job |-> WholeScript(j)]
Script(j) == Scripts[j]

Host == INSTANCE SerialHost
Files == INSTANCE DoomFiles

ASSUME FilesAssumption == Files!HeapAssumption

hostVars == <<job, todo, outcome>>
fileVars == <<engine, files, heap, blocks, result>>
frameVars == <<streamVars, parserVars>>
doomVars == <<fileVars, frameVars, keyVars, session>>
vars == <<loaderVars, lineVars, hostVars, doomVars, faults, cut>>

Init ==
  /\ LoaderInit /\ LineInit /\ Host!HostInit
  /\ Files!FilesOff /\ StreamOff /\ ParserOff /\ KeysOff
  /\ session = "none"
  /\ faults = 0 /\ cut = FALSE

-----------------------------------------------------------------------------
\* The uploader has a line to hear or a token to send, and 5 s to do it in.
HostActs == outcome = "busy" /\ (Host!Doing("send") \/ toHost # <<>>)

Loader ==
  /\ LoaderStep \/ (~HostActs /\ ByteTimeOut)
  /\ UNCHANGED <<hostVars, doomVars, faults, cut>>

\* Applications other than DOOM read what comes over the line.
DoomRuns == pc = "app" /\ Runnable = DoomImage

AppReads ==
  /\ pc = "app" /\ session = "none"
  /\ Receive
  /\ UNCHANGED <<loaderVars, toHost, hostVars, doomVars, faults, cut>>

\* DOOM begins with nobody at the line.  Its files, its pictures and the keys
\* share no state: it is enough to look at one of them at a time, and at the
\* latter two after an upload without faults.
Sessions == IF faults = 0 THEN {"files", "pictures", "keys"} ELSE {"files"}

DoomBegins ==
  /\ DoomRuns /\ outcome # "busy" /\ rx = <<>>
  /\ Files!DoomMain
  /\ session' \in IF engine' = "engine" THEN Sessions ELSE {"none"}
  /\ UNCHANGED <<loaderVars, lineVars, hostVars, frameVars, keyVars, faults, cut>>

Loads ==
  /\ session = "files" /\ Files!EngineCalls
  /\ UNCHANGED <<loaderVars, lineVars, hostVars, frameVars, keyVars, session, faults, cut>>

Draws ==
  /\ session = "pictures"
  /\ \/ (\E p \in Picture : DrawFrame(p))
          /\ UNCHANGED parserVars
     \/ HearFrame
  /\ UNCHANGED <<loaderVars, lineVars, hostVars, fileVars, keyVars, session, faults, cut>>

Plays ==
  /\ session = "keys" /\ KeyStep
  /\ UNCHANGED <<loaderVars, hostVars, fileVars, frameVars, session, faults, cut>>

\* The user uploads to a board that runs no application, the same again
\* after a failure.
UserUploads ==
  /\ pc # "app"
  /\ \E j \in Job : (outcome = "failed" => j = job) /\ Host!Open(j)
  /\ cut' = FALSE
  /\ UNCHANGED <<loaderVars, doomVars, faults>>

Restart ==
  /\ LoaderReset
  /\ Files!FilesReset /\ StreamReset /\ ParserReset /\ KeysReset
  /\ session' = "none"
  /\ cut' = (outcome = "busy") /\ UNCHANGED hostVars

UserResets == outcome # "busy" /\ Restart /\ UNCHANGED faults

\* The loader's loops take a token in less time than the line needs to bring
\* one; when it is not so, that is a fault.
Reading == pc \in {"idle", "magic", "size", "crc", "data"}
Keeps == Reading => Len(rx) < Depth

HostStep ==
  /\ \/ Keeps /\ Host!SendToken
     \/ Host!HearLine
     \/ (Reading \/ pc = "app") /\ Host!TimeOut
  /\ UNCHANGED <<loaderVars, doomVars, faults, cut>>

UploadFault ==
  \/ /\ \/ Host!SendLost \/ Host!LoseLine
        \/ ~Keeps /\ Host!SendToken
        \/ \E t \in Garbage : Host!SendGarbled(t)
     /\ UNCHANGED <<loaderVars, doomVars, cut>>
  \/ HostActs /\ ByteTimeOut /\ UNCHANGED <<hostVars, doomVars, cut>>
  \/ outcome = "busy" /\ Restart

PictureFault ==
  /\ session = "pictures"
  /\ \/ LoseToken \/ Reattach
     \/ \E t \in {0, 1, 2, Rvf2} : HearToken(t)
  /\ UNCHANGED <<loaderVars, lineVars, hostVars, fileVars, keyVars, session, cut>>

Fault ==
  /\ faults < MaxFaults /\ faults' = faults + 1
  /\ UploadFault \/ PictureFault

Next ==
  \/ Loader \/ HostStep \/ UserUploads \/ UserResets \/ Fault
  \/ AppReads \/ DoomBegins \/ Loads \/ Draws \/ Plays

\* Draws can be taken throughout such a session; TLC would be slow to find out
\* by itself.
DrawsFairly == []<>(session # "pictures") \/ []<><<Draws>>_vars

\* The board, the uploader and the viewer go on; a user whose upload has
\* failed retries, and presses BTN0 sooner or later when an application runs or
\* the receive queue has overflowed.
Fairness ==
  /\ WF_vars(Loader) /\ WF_vars(AppReads) /\ WF_vars(HostStep) /\ DrawsFairly
  /\ WF_vars(outcome = "failed" /\ UserUploads)
  /\ SF_vars(outcome = "failed" /\ (pc = "app" \/ overflow) /\ UserResets)

Spec == Init /\ [][Next]_vars /\ Fairness

-----------------------------------------------------------------------------
\* When the uploader reports success and nobody pressed BTN0 meanwhile, the
\* board holds, or runs, the application that was uploaded and the handoff
\* describes the WAD that was uploaded with it, none if there was none.
HostAgrees ==
  [][outcome = "busy" /\ outcome' = "ok" /\ ~cut =>
       /\ Runnable' = job.image /\ Published' = job.wad
       /\ (pc' = "app") = job.run]_vars

Acceptable(w) == WellFormed(w, Len(w)) /\ w[1] \in {Iwad, Pwad}

\* A user who retries succeeds with every well-formed WAD, after BTN0 at most.
UploadRecovers ==
  outcome = "failed" /\ (job.wad # Absent => Acceptable(job.wad)) ~> outcome = "ok"

\* A lump that the engine looks up in the directory, seeks and reads through
\* the file shim is the lump of the WAD that the loader has verified, whole:
\* through the loader, its handoff record, the shim's positions, several
\* descriptors.  After an upload that has succeeded, that is the WAD uploaded.
LumpsReadWhole ==
  [][session' = "files" /\ result' # result =>
       /\ outcome = "ok" /\ ~cut => Published = job.wad
       /\ \A i \in Lumps(Published) :
            result'.from = Position(Published, i) /\ result'.asked = Length(Published, i) =>
              result'.data = SubSeq(Published, Position(Published, i) + 1,
                                    Position(Published, i) + Length(Published, i))]_vars

\* After any loss on the wire, and a viewer that attaches in the middle of a
\* game, the viewer is in step again: "rejects deltas after a sequence gap
\* until a keyframe restores synchronization" (docs/doom_feasibility.md:1487).
ViewerResyncs ==
  session = "pictures" ~> InStep \/ session = "none"
=============================================================================
