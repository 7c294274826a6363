------------------------------ MODULE DdrCache ------------------------------
(***************************************************************************)
(* The DDR cache, phase8/rtl/rv_ddr_cache.sv: direct mapped, one word per  *)
(* line, write-through, no allocation on a store.  `invalidate' drops      *)
(* every line and poisons the request under way, so that what it brings    *)
(* from memory is delivered but not kept.                                  *)
(*                                                                         *)
(* One step is one rising clock edge, as in WriteBuffer.  Registers that   *)
(* nothing can read (the captured request in IDLE, the contents of a line  *)
(* that is not valid) are None.                                            *)
(***************************************************************************)
EXTENDS Bus

CONSTANTS
  Word,     \* the aligned four-byte words of DDR, as sets of bytes
  Index,    \* line numbers, req_addr[12:2]
  IndexOf,  \* the line a word is kept in
  FastHit   \* FAST_HIT: a hit is answered in the LOOKUP cycle

ASSUME WordAssumption ==
  /\ UNION Word = Ddr
  /\ \A v, w \in Word : v # w => v \cap w = {}
  /\ IndexOf \in [Word -> Index]
ASSUME BytesAssumption == \A req \in Request : req.bytes # {}
ASSUME FastHitAssumption == FastHit \in BOOLEAN

VARIABLES
  state,
  lines,     \* valid, tags and data: None where valid is clear
  held,      \* address, write_data, strobes, size, write_req
  line,      \* valid_q, tag_q and data_q: the line read for `held'
  writeHit,
  poisoned,
  rsp        \* response_data and response_error

cacheVars == <<state, lines, held, line, writeHit, poisoned, rsp>>

CacheStates == {"IDLE", "LOOKUP", "SEND", "WAIT_DATA", "RESPONSE"}

Line == {l \in [word : Word, data : UNION {[w -> Value] : w \in Word}] :
           DOMAIN l.data = l.word}

NoLines == [i \in Index |-> None]

Init ==
  /\ state = "IDLE"
  /\ lines = NoLines
  /\ held = None /\ line = None /\ rsp = None
  /\ writeHit = FALSE /\ poisoned = FALSE

Reset ==
  /\ state' = "IDLE"
  /\ lines' = NoLines
  /\ held' = None /\ line' = None /\ rsp' = None
  /\ writeHit' = FALSE /\ poisoned' = FALSE

-----------------------------------------------------------------------------
(***************************************************************************)
(* Wires.                                                                  *)
(***************************************************************************)

\* in_range, fits_word and strobes_valid.
Cacheable(req) == req.legal /\ \E w \in Word : req.bytes \subseteq w

WordOf(req) == CHOOSE w \in Word : req.bytes \subseteq w

\* A store past the cache that may change a cached word.
Bypasses(req) == req.write /\ req.bytes \cap Ddr # {} /\ ~Cacheable(req)

Idle == state = "IDLE"

ReqReady(invalidate) == Idle /\ ~invalidate

Taken(req, invalidate) == req # None /\ ReqReady(invalidate)

Hit(invalidate) ==
  line # None /\ line.word = WordOf(held) /\ ~poisoned /\ ~invalidate

ReadHit(invalidate) ==
  state = "LOOKUP" /\ Cacheable(held) /\ ~held.write /\ Hit(invalidate)

HitData == [data |-> ReadFrom(line.data, held.bytes), err |-> FALSE]

\* The response on offer: in RESPONSE, or with FAST_HIT already in LOOKUP.
Response(invalidate) ==
  IF state = "RESPONSE" THEN rsp
  ELSE IF FastHit /\ ReadHit(invalidate) THEN HitData
  ELSE None

\* A load that missed asks for its whole word.
MemRequest ==
  IF state # "SEND" THEN None
  ELSE IF Cacheable(held) /\ ~held.write
       THEN [held EXCEPT !.bytes = WordOf(held)]
       ELSE held

MemRspReady == state = "WAIT_DATA"

-----------------------------------------------------------------------------
(***************************************************************************)
(* The states of the machine.  An edge on which `invalidate' is high drops *)
(* every line, whatever the state did with them.                           *)
(***************************************************************************)
Keep(updated, invalidate) ==
  /\ lines' = IF invalidate THEN NoLines ELSE updated
  /\ poisoned' = (poisoned \/ invalidate)

Await(req, invalidate) ==
  /\ Idle /\ ~Taken(req, invalidate)
  /\ Keep(lines, invalidate)
  /\ UNCHANGED <<state, held, line, writeHit, rsp>>

\* Mutant: a store past the cache leaves the lines alone.
AcceptUnflushed(req, invalidate) ==
  /\ Taken(req, invalidate)
  /\ state' = "LOOKUP"
  /\ held' = req
  /\ line' = IF Cacheable(req) THEN lines[IndexOf[WordOf(req)]] ELSE None
  /\ poisoned' = FALSE /\ writeHit' = FALSE
  /\ UNCHANGED <<lines, rsp>>

Accept(req, invalidate) ==
  /\ Taken(req, invalidate)
  /\ state' = "LOOKUP"
  /\ held' = req
  /\ line' = IF Cacheable(req) THEN lines[IndexOf[WordOf(req)]] ELSE None
  /\ lines' = IF Bypasses(req) THEN NoLines ELSE lines
  /\ poisoned' = FALSE /\ writeHit' = FALSE
  /\ UNCHANGED rsp

Release == held' = None /\ line' = None /\ writeHit' = FALSE /\ rsp' = None

AnswerHit(rspTaken, invalidate) ==
  /\ ReadHit(invalidate)
  /\ Keep(lines, invalidate)
  /\ IF FastHit /\ rspTaken
       THEN state' = "IDLE" /\ Release
       ELSE state' = "RESPONSE" /\ rsp' = HitData /\ UNCHANGED <<held, line, writeHit>>

\* The line of a missing load, and of every store, is dropped until the
\* memory has answered.
Miss(invalidate) ==
  /\ state = "LOOKUP" /\ ~ReadHit(invalidate)
  /\ state' = "SEND"
  /\ writeHit' = (Cacheable(held) /\ held.write /\ Hit(invalidate))
  /\ Keep(IF Cacheable(held) THEN [lines EXCEPT ![IndexOf[WordOf(held)]] = None]
                             ELSE lines, invalidate)
  /\ UNCHANGED <<held, line, rsp>>

Send(memTakes, invalidate) ==
  /\ state = "SEND"
  /\ state' = IF memTakes THEN "WAIT_DATA" ELSE "SEND"
  /\ Keep(lines, invalidate)
  /\ UNCHANGED <<held, line, writeHit, rsp>>

\* The word as the memory now has it.
Merged == [b \in line.word |-> IF b \in held.bytes THEN held.data ELSE line.data[b]]

Fresh(reply) ==
  [word |-> WordOf(held), data |-> IF held.write THEN Merged ELSE reply.data]

\* Mutant: an invalidation while the request was under way is forgotten.
KeepsPoisoned(reply, invalidate) ==
  Cacheable(held) /\ ~reply.err /\ ~invalidate /\ (held.write => writeHit)

Keeps(reply, invalidate) ==
  Cacheable(held) /\ ~reply.err /\ ~poisoned /\ ~invalidate /\ (held.write => writeHit)

ReplyToHeld(reply) ==
  IF held.write \/ reply.err THEN Blank(reply.err)
  ELSE [data |-> ReadFrom(reply.data, held.bytes), err |-> FALSE]

Finish(reply, invalidate) ==
  /\ MemRspReady /\ reply # None
  /\ state' = "RESPONSE"
  /\ rsp' = ReplyToHeld(reply)
  /\ Keep(IF Keeps(reply, invalidate)
            THEN [lines EXCEPT ![IndexOf[WordOf(held)]] = Fresh(reply)] ELSE lines,
          invalidate)
  /\ UNCHANGED <<held, line, writeHit>>

AwaitData(reply, invalidate) ==
  /\ MemRspReady /\ reply = None
  /\ Keep(lines, invalidate)
  /\ UNCHANGED <<state, held, line, writeHit, rsp>>

Respond(rspTaken, invalidate) ==
  /\ state = "RESPONSE"
  /\ Keep(lines, invalidate)
  /\ IF rspTaken THEN state' = "IDLE" /\ Release
                 ELSE UNCHANGED <<state, held, line, writeHit, rsp>>

\* One rising edge of the clock with these inputs.
Clock(req, rspTaken, memTakes, reply, invalidate) ==
  \/ Await(req, invalidate)
  \/ Accept(req, invalidate)
  \/ AnswerHit(rspTaken, invalidate)
  \/ Miss(invalidate)
  \/ Send(memTakes, invalidate)
  \/ Finish(reply, invalidate)
  \/ AwaitData(reply, invalidate)
  \/ Respond(rspTaken, invalidate)
=============================================================================
