------------------------------- MODULE MCBoot -------------------------------
(***************************************************************************)
(* BootSystem with images of two and three tokens in blocks of two, and    *)
(* payload tokens that read as the commands G and A.  The flash is empty,  *)
(* good, or programmed in part, or has a header of another format.         *)
(***************************************************************************)
EXTENDS BootSystem, SequencesExt

MCCrcByte(crc, token) == (crc * 64 + token + 1) % 65521
MCCrc(tokens) == FoldLeft(MCCrcByte, 1, tokens)

GameTokens == <<0, 12>>
Images == {GameTokens, <<11, 12, 0>>}
Tokens == {0, 1, 2, 3, 10, 11, 12, 13, 14, 15, 16} \cup {MCCrc(s) : s \in Images}
Jobs == {[image |-> s, run |-> r] : s \in Images \ {GameTokens}, r \in BOOLEAN}

GoodFlash == [magic |-> TRUE, entry |-> TRUE, size |-> 2, crc |-> MCCrc(GameTokens),
            data |-> <<0, 12, 0>>]
Flashes ==
  {GoodFlash, [GoodFlash EXCEPT !.magic = FALSE], [GoodFlash EXCEPT !.entry = FALSE],
   [GoodFlash EXCEPT !.size = 4], [GoodFlash EXCEPT !.data = <<0, 0, 0>>]}

\* TLC evaluates these once, and what replaces a constant each time.
MCGame == GameTokens
MCImage == Images
MCToken == Tokens
MCJob == Jobs
MCFlashContents == Flashes
=============================================================================
