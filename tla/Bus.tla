--------------------------------- MODULE Bus ---------------------------------
(***************************************************************************)
(* What travels on the transaction bus of the SoC, by byte.  The request   *)
(* and response wires of rv_write_buffer.sv, rv_ddr_cache.sv,              *)
(* rv_bus_arbiter.sv and soc_core_txn.sv all have this shape.              *)
(***************************************************************************)
EXTENDS TLAPS

CONSTANTS
  Byte,     \* byte addresses, DDR and MMIO
  Ddr,      \* the bytes of BASE_ADDR .. BASE_ADDR + SIZE_BYTES - 1
  Value,    \* what a byte can hold
  Request,  \* the requests the masters may present
  None      \* no request, or no response, on a channel

(***************************************************************************)
(* A request: its direction, the bytes it covers, the value it stores in   *)
(* every one of them, and whether its size code and strobes are well       *)
(* formed (req_size # 3, no strobe past the size).                         *)
(***************************************************************************)
AnyRequest == [write : BOOLEAN, bytes : SUBSET Byte, data : Value, legal : BOOLEAN]

\* A response: the bytes read and rsp_err.
Reply == [data : UNION {[B -> Value] : B \in SUBSET Byte}, err : BOOLEAN]

ASSUME RequestAssumption == Request \subseteq AnyRequest /\ Ddr \subseteq Byte
ASSUME NoneAssumption == None \notin AnyRequest \cup Reply

\* A response without data (rdata 0): to a store, or to a failed access.
Blank(err) == [data |-> [b \in {} |-> 0], err |-> err]

ReadFrom(m, bytes) == [b \in bytes |-> m[b]]

Stored(m, req, bytes) == [b \in Byte |-> IF b \in bytes THEN req.data ELSE m[b]]

(***************************************************************************)
(* The contents and the response that may come of performing `req' on      *)
(* contents m.  A store that fails may have written some of its bytes: the *)
(* bridges split an access into two beats and stop after a failed one.     *)
(***************************************************************************)
Outcomes(m, req) ==
  IF req.write
  THEN {<<Stored(m, req, req.bytes), Blank(FALSE)>>}
       \cup {<<Stored(m, req, some), Blank(TRUE)>> : some \in SUBSET req.bytes}
  ELSE {<<m, [data |-> ReadFrom(m, req.bytes), err |-> FALSE]>>, <<m, Blank(TRUE)>>}

-----------------------------------------------------------------------------
(***************************************************************************)
(* What the proofs about the components on the bus rest on.                *)
(***************************************************************************)

\* The blank response is a response.
LEMMA BlankIsReply == ASSUME NEW err \in BOOLEAN PROVE Blank(err) \in Reply
<1>1. [b \in {} |-> 0] \in [{} -> Value]
  OBVIOUS
<1>2. [b \in {} |-> 0] \in UNION {[B -> Value] : B \in SUBSET Byte}
  BY <1>1, {} \in SUBSET Byte
<1> QED
  BY <1>2 DEF Blank, Reply

\* Performing a request keeps memory and responses well typed; a read changes
\* nothing, and a store answered without an error has been performed whole.
LEMMA OutcomeFacts ==
  ASSUME NEW m \in [Byte -> Value], NEW req \in AnyRequest,
         NEW outcome \in Outcomes(m, req)
  PROVE  /\ outcome[1] \in [Byte -> Value]
         /\ outcome[2] \in Reply
         /\ ~req.write => outcome[1] = m
         /\ req.write /\ ~outcome[2].err => outcome[1] = Stored(m, req, req.bytes)
<1> USE RequestAssumption DEF AnyRequest
<1>1. \A bytes : Stored(m, req, bytes) \in [Byte -> Value]
  BY DEF Stored
<1>2. ReadFrom(m, req.bytes) \in UNION {[B -> Value] : B \in SUBSET Byte}
  BY DEF ReadFrom
<1>3. /\ Blank(TRUE) \in Reply /\ Blank(FALSE) \in Reply
      /\ Blank(TRUE).err = TRUE
  BY BlankIsReply DEF Blank
<1>4. CASE req.write
  <2>1. \/ outcome = <<Stored(m, req, req.bytes), Blank(FALSE)>>
        \/ \E some \in SUBSET req.bytes : outcome = <<Stored(m, req, some), Blank(TRUE)>>
    BY <1>4, Zenon DEF Outcomes
  <2>2. CASE outcome = <<Stored(m, req, req.bytes), Blank(FALSE)>>
    BY <1>1, <1>3, <1>4, <2>2
  <2>3. ASSUME NEW some \in SUBSET req.bytes, outcome = <<Stored(m, req, some), Blank(TRUE)>>
        PROVE  /\ outcome[1] \in [Byte -> Value]
               /\ outcome[2] \in Reply /\ outcome[2].err
    BY <1>1, <1>3, <2>3
  <2> QED
    BY <1>4, <2>1, <2>2, <2>3
<1>5. CASE ~req.write
  <2>1. \/ outcome = <<m, [data |-> ReadFrom(m, req.bytes), err |-> FALSE]>>
        \/ outcome = <<m, Blank(TRUE)>>
    BY <1>5, Zenon DEF Outcomes
  <2>2. [data |-> ReadFrom(m, req.bytes), err |-> FALSE] \in Reply
    BY <1>2 DEF Reply
  <2>3. CASE outcome = <<m, [data |-> ReadFrom(m, req.bytes), err |-> FALSE]>>
    <3>1. outcome[1] = m /\ outcome[2] = [data |-> ReadFrom(m, req.bytes), err |-> FALSE]
      BY <2>3
    <3> QED
      BY <1>5, <2>2, <3>1, Zenon
  <2>4. CASE outcome = <<m, Blank(TRUE)>>
    BY <1>3, <1>5, <2>4
  <2> QED
    BY <2>1, <2>3, <2>4
<1> QED
  BY <1>4, <1>5

\* The answer to a load: what the memory holds, or a blank error.
LEMMA LoadOutcome ==
  ASSUME NEW m \in [Byte -> Value], NEW req \in AnyRequest, ~req.write,
         NEW outcome \in Outcomes(m, req)
  PROVE  /\ outcome[1] = m
         /\ \/ outcome[2] = Blank(TRUE) /\ outcome[2].err
            \/ outcome[2] = [data |-> ReadFrom(m, req.bytes), err |-> FALSE]
<1>1. \/ outcome = <<m, [data |-> ReadFrom(m, req.bytes), err |-> FALSE]>>
      \/ outcome = <<m, Blank(TRUE)>>
  BY Zenon DEF Outcomes
<1>2. Blank(TRUE).err
  BY DEF Blank
<1>3. CASE outcome = <<m, [data |-> ReadFrom(m, req.bytes), err |-> FALSE]>>
  <2>1. outcome[1] = m /\ outcome[2] = [data |-> ReadFrom(m, req.bytes), err |-> FALSE]
    BY <1>3
  <2> QED
    BY <2>1
<1>4. CASE outcome = <<m, Blank(TRUE)>>
  BY <1>2, <1>4
<1> QED
  BY <1>1, <1>3, <1>4

\* The answer to a store carries no data, and bytes the store does not cover keep
\* their value whether it failed or not.
LEMMA StoreOutcome ==
  ASSUME NEW m \in [Byte -> Value], NEW req \in AnyRequest, req.write,
         NEW outcome \in Outcomes(m, req)
  PROVE  /\ outcome[2] = Blank(outcome[2].err)
         /\ \A b \in Byte \ req.bytes : outcome[1][b] = m[b]
<1>1. \/ outcome = <<Stored(m, req, req.bytes), Blank(FALSE)>>
      \/ \E some \in SUBSET req.bytes : outcome = <<Stored(m, req, some), Blank(TRUE)>>
  BY Zenon DEF Outcomes
<1>2. PICK some \in SUBSET req.bytes, err \in BOOLEAN :
        outcome = <<Stored(m, req, some), Blank(err)>>
  BY <1>1
<1>3. outcome[1] = Stored(m, req, some) /\ outcome[2] = Blank(err)
  BY <1>2
<1>4. Blank(err).err = err
  BY DEF Blank
<1> QED
  BY <1>3, <1>4 DEF Stored
=============================================================================
