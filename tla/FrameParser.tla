---------------------------- MODULE FrameParser ----------------------------
(***************************************************************************)
(* The viewer's end of the picture stream (FrameParser and read_loop() in  *)
(* phase8/software/doom_viewer.py): it looks for packets in whatever       *)
(* arrives, and shows a picture when it can be sure of it.                 *)
(*                                                                         *)
(* The packets of the older format RVF1, which this board does not send,   *)
(* and the queue between the viewer's two threads are left out.            *)
(***************************************************************************)
EXTENDS FrameStream

VARIABLES
  buffer,        \* of the tokens that have arrived, those not done with
  deltaValid,    \* delta_valid
  lastSequence,  \* last_sequence
  lastPixels     \* last_pixels, which the viewer shows

parserVars == <<buffer, deltaValid, lastSequence, lastPixels>>

HeaderSize == 5

\* The decoding loop: the one result, or none when the payload ends within a
\* run or a literal.  That the loop also stops at more than Pixels saves time
\* only, since a result of another length is a failure.
Decode(bytes) ==
  LET decoded[at \in 1..Len(bytes) + 1] ==
        IF at > Len(bytes) THEN {<<>>}
        ELSE LET control == bytes[at]
                 count == (control % MaxRun) + 1
                 run == control >= MaxRun
                 next == IF run THEN at + 2 ELSE at + count + 1
                 part == IF run THEN [k \in 1..count |-> bytes[at + 1]]
                         ELSE SubSeq(bytes, at + 1, at + count)
             IN IF next > Len(bytes) + 1 THEN {}
                ELSE {part \o rest : rest \in decoded[next]}
  IN decoded[1]

\* What a viewer knows; Unsure is what it knows after a packet it rejects.
Known == [valid |-> deltaValid, sequence |-> lastSequence, pixels |-> lastPixels]
Unsure(v) == [v EXCEPT !.valid = FALSE]

\* Mutant: without the CRC.
SureBlindly(v, packet, pixels) ==
  packet[3] >= 2 => v.valid /\ packet[2] = (v.sequence + 1) % SeqWrap

\* A difference is from the picture before, and the CRC is that of the result.
Sure(v, packet, pixels) ==
  /\ packet[3] >= 2 => v.valid /\ packet[2] = (v.sequence + 1) % SeqWrap
  /\ PictureCrc(pixels) = packet[4]

\* A whole packet.
Accept(v, packet) ==
  LET compressed == packet[3] % 2 = 1
      delta == packet[3] >= 2
      payload == SubSeq(packet, HeaderSize + 1, Len(packet))
      results == {d \in IF compressed THEN Decode(payload) ELSE {payload} : Len(d) = Pixels}
      pixels == {IF delta THEN Xor(d, v.pixels) ELSE d : d \in results}
      sure == {p \in pixels : Sure(v, packet, p)}
  IN IF sure = {} THEN Unsure(v)
     ELSE [valid |-> TRUE, sequence |-> packet[2], pixels |-> CHOOSE p \in sure : TRUE]

\* One turn of the loop in feed(): what it leaves in the buffer, and what the
\* viewer then knows.  A header that cannot be one costs its first byte only.
Turn(b, v) ==
  IF b = <<>> THEN <<b, v>>
  ELSE IF Head(b) # Rvf2 THEN <<Tail(b), v>>
  ELSE IF Len(b) < HeaderSize THEN <<b, v>>
  ELSE IF b[3] > 3 \/ b[5] > Pixels THEN <<Tail(b), Unsure(v)>>
  ELSE LET size == HeaderSize + b[5]
       IN IF Len(b) < size THEN <<b, v>>
          ELSE <<SubSeq(b, size + 1, Len(b)), Accept(v, SubSeq(b, 1, size))>>

\* feed(): a turn takes a token at least, or is the last one.
Feed(b, v) ==
  LET after[n \in 0..Len(b)] ==
        IF n = 0 THEN <<b, v>> ELSE LET s == after[n - 1] IN Turn(s[1], s[2])
  IN after[Len(b)]

ParserOff ==
  buffer = <<>> /\ deltaValid = FALSE /\ lastSequence = 0 /\ lastPixels = NoPicture
ParserReset ==
  buffer' = <<>> /\ deltaValid' = FALSE /\ lastSequence' = 0 /\ lastPixels' = NoPicture

\* The next token reaches the viewer, as it was sent or as another one.
HearToken(token) ==
  /\ wire # <<>> /\ wire' = Tail(wire)
  /\ \E fed \in {Feed(Append(buffer, token), Known)} :
       /\ buffer' = fed[1]
       /\ deltaValid' = fed[2].valid
       /\ lastSequence' = fed[2].sequence /\ lastPixels' = fed[2].pixels
  /\ UNCHANGED <<sequence, previous>>

HearFrame == wire # <<>> /\ HearToken(Head(wire))

LoseToken ==
  /\ wire # <<>> /\ wire' = Tail(wire)
  /\ UNCHANGED <<sequence, previous, parserVars>>

\* The viewer is closed, and opened again with --no-go.
Reattach == ParserReset /\ UNCHANGED streamVars

-----------------------------------------------------------------------------
\* The two walks of the encoder agree on the length, the viewer's decoder
\* undoes the encoding, and no byte is announced that is not sent
\* (doom_stream.c:14-70): for every picture and every difference.
Lossless ==
  \A data \in Bitmap :
    /\ Len(Encoded[data]) = SizeOf[data]
    /\ Decode(Encoded[data]) = {data}

RleIsLossless == wire # <<>> /\ Head(wire) = Rvf2 => Lossless

\* Whatever is lost or garbled on the wire, the viewer shows a picture only if
\* the board has just drawn it: never an old one for a new one, a difference
\* from another picture, or one put together from two packets.
ShownIsDrawn ==
  [][lastPixels' # lastPixels => lastPixels' \in {NoPicture, previous}]_<<streamVars, parserVars>>

\* The viewer shows what the board has drawn last.
InStep == wire = <<>> /\ deltaValid /\ lastPixels = previous
=============================================================================
