---------------------------- MODULE FrameStream ----------------------------
(***************************************************************************)
(* The pictures the DOOM board sends (phase8/software/doom_stream.c and    *)
(* DG_DrawFrame() in doom_board.c): each as a packet with a sequence       *)
(* number and the CRC of the picture, in full or as the difference from    *)
(* the one before, compressed when that is shorter.                        *)
(*                                                                         *)
(* A token stands for the magic with the dimensions, for each of the other *)
(* fields of the header, and for a byte of the payload.  Pixels have one   *)
(* bit.  The way from the engine's screen to the 8-bit picture (palette,   *)
(* sampling) is abstracted to any picture of a set.                        *)
(***************************************************************************)
EXTENDS Integers, Sequences, FiniteSetsExt

CONSTANTS
  Pixels,      \* DOOM_STREAM_PIXELS
  MaxRun,      \* 128
  SeqWrap,      \* 2^16
  KeyEvery,    \* 16
  TextEvery,   \* 8
  Picture,     \* pictures the engine may draw
  Rvf2, Text,  \* the token of the magic, and of a line of text
  PictureCrc(_)

ASSUME StreamAssumption ==
  /\ Pixels \in Nat \ {0} /\ MaxRun \in Nat /\ MaxRun >= 3
  /\ SeqWrap % KeyEvery = 0 /\ SeqWrap % TextEvery = 0
  /\ Picture \subseteq [1..Pixels -> 0..1] /\ SeqWrap \in Nat

VARIABLES
  sequence,  \* frame_sequence
  previous,  \* previous_payload, or NoPicture without have_previous
  wire       \* tokens on their way to the viewer

streamVars == <<sequence, previous, wire>>

NoPicture == <<>>

-----------------------------------------------------------------------------
(***************************************************************************)
(* Run-length encoding: runs of three and more, and literals up to the     *)
(* next such run.  rle_size() and send_rle() walk the data separately.     *)
(***************************************************************************)
RunAt(data, i) ==
  Max({n \in 1..MaxRun :
         i + n - 1 <= Len(data) /\ \A k \in i..i + n - 1 : data[k] = data[i]})

\* Mutant: one byte more.
LiteralEndLate(data, i) ==
  Min({j \in i + 1..i + MaxRun + 1 :
         j = i + MaxRun + 1 \/ j > Len(data) \/ RunAt(data, j) >= 3})

\* Where a literal that begins at i ends: 128 bytes, a run or the end.
LiteralEnd(data, i) ==
  Min({j \in i + 1..i + MaxRun :
         j = i + MaxRun \/ j > Len(data) \/ RunAt(data, j) >= 3})

RleSize(data) ==
  LET size[i \in 1..Len(data) + 1] ==
        IF i > Len(data) THEN 0
        ELSE IF RunAt(data, i) >= 3 THEN 2 + size[i + RunAt(data, i)]
        ELSE 1 + (LiteralEnd(data, i) - i) + size[LiteralEnd(data, i)]
  IN size[1]

\* The top bit of a control byte tells a run from a literal.
RunControl(n) == MaxRun + n - 1
LiteralControl(n) == n - 1

SendRle(data) ==
  LET sent[i \in 1..Len(data) + 1] ==
        IF i > Len(data) THEN <<>>
        ELSE IF RunAt(data, i) >= 3
        THEN <<RunControl(RunAt(data, i)), data[i]>> \o sent[i + RunAt(data, i)]
        ELSE LET end == LiteralEnd(data, i)
             IN <<LiteralControl(end - i)>> \o SubSeq(data, i, end - 1) \o sent[end]
  IN sent[1]

-----------------------------------------------------------------------------
\* Pixel by pixel; what is garbled need not be a bit.
Xor(a, b) ==
  [i \in 1..Len(a) |-> CASE a[i] = b[i] -> 0
                         [] a[i] = 0 -> b[i]
                         [] b[i] = 0 -> a[i]
                         [] OTHER -> a[i] + b[i]]

\* Both for every picture and every difference.
Bitmap == [1..Pixels -> 0..1]
SizeOf == [data \in Bitmap |-> RleSize(data)]
Encoded == [data \in Bitmap |-> SendRle(data)]

Compresses(data) == SizeOf[data] < Pixels

\* Mutant: only the first picture of all.
IsKeyFrameOnce == previous = NoPicture

\* Every sixteenth picture, and the first one, is sent in full.
IsKeyFrame == previous = NoPicture \/ sequence % KeyEvery = 0

\* send_payload(): a difference that does not compress is not sent.
Packet(picture) ==
  LET difference == Xor(picture, previous)
      delta == ~IsKeyFrame /\ Compresses(difference)
      source == IF delta THEN difference ELSE picture
      compressed == Compresses(source)
      flags == (IF compressed THEN 1 ELSE 0) + (IF delta THEN 2 ELSE 0)
      wireSize == IF compressed THEN SizeOf[source] ELSE Pixels
  IN <<Rvf2, sequence, flags, PictureCrc(picture), wireSize>>
       \o (IF compressed THEN Encoded[source] ELSE source)

StreamOff == sequence = 0 /\ previous = NoPicture /\ wire = <<>>
StreamReset == sequence' = 0 /\ previous' = NoPicture /\ wire' = <<>>

\* DG_DrawFrame(): sending blocks until the transmitter has taken everything;
\* every eighth frame is followed by a line of statistics.
DrawFrame(picture) ==
  /\ wire = <<>>
  /\ sequence' = (sequence + 1) % SeqWrap
  /\ previous' = picture
  /\ \E packet \in {Packet(picture)} :
       wire' = packet \o (IF sequence' % TextEvery = 0 THEN <<Text>> ELSE <<>>)
=============================================================================
