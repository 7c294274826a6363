------------------------------- MODULE MCDdr -------------------------------
(***************************************************************************)
(* DdrSystem with applications of two and three tokens, WADs of seven,     *)
(* blocks of two and four, words below 32, pictures of six pixels, and     *)
(* sequence numbers that wrap around after two key frames.                 *)
(***************************************************************************)
EXTENDS DdrSystem, SequencesExt

MCCrcByte(crc, token) == (crc * 64 + token + 1) % 65521
MCCrc(tokens) == FoldLeft(MCCrcByte, 1, tokens)

\* Magic tokens 20 and 21; the lump is named 23.  The second WAD has a lump
\* whose position and length wrap around, the third one a lump that ends
\* behind the file, the fourth a directory that does, and the fifth the magic
\* "iwad", which ddr_upload.ps1 lets pass.
Good == <<20, 1, 3, 5, 2, 23, 0>>
Wads == {Good, [Good EXCEPT ![4] = 30, ![5] = 4], [Good EXCEPT ![5] = 3],
         [Good EXCEPT ![3] = 8], [Good EXCEPT ![1] = 22]}
TestImage == <<12, 0>>
Doom == <<0, 12, 13>>
Images == {TestImage, Doom}
Jobs == {[image |-> Doom, wad |-> Good, run |-> TRUE],
        [image |-> TestImage, wad |-> Good, run |-> FALSE],
         [image |-> Doom, wad |-> Absent, run |-> TRUE]}
         \cup {[image |-> TestImage, wad |-> w, run |-> FALSE] : w \in Wads \ {Good}}
MCToken == 0..65520
MCGarbage == {0, 2, 12}

\* Pictures that compress in full, as a difference only, and not at all.
Pictures == {<<0, 0, 0, 0, 0, 0>>, <<0, 1, 0, 1, 1, 0>>, <<1, 1, 0, 1, 1, 0>>}

MCOffset == {-2, 0, 5}

MCKeysym == {"w", "W", "Up", "Shift_L"}
Names == [w |-> [s \in BOOLEAN |-> IF s THEN "W" ELSE "w"],
          up |-> [s \in BOOLEAN |-> "Up"],
          shift |-> [s \in BOOLEAN |-> "Shift_L"]]
Codes == [w |-> 25, W |-> 25, Up |-> 25, Shift_L |-> 26]

\* TLC evaluates these once, and what replaces a constant each time.
MCWad == Wads
MCDoom == Doom
MCImage == Images
MCJob == Jobs
MCPicture == Pictures
MCReported == Names
MCKeyCode == Codes
=============================================================================
