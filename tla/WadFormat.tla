----------------------------- MODULE WadFormat -----------------------------
(***************************************************************************)
(* The WAD checks of the loader and of the programs that read the WAD in   *)
(* DDR, each written from its own code.  A WAD is a sequence of tokens:    *)
(* three of header (magic, number of lumps, offset of the directory), and  *)
(* three for each directory entry (position, length and name of a lump).   *)
(* Offsets count tokens from 0; words are below Word (2^32).               *)
(***************************************************************************)
EXTENDS Integers, Sequences

CONSTANTS
  Word,
  Iwad, Pwad,  \* "IWAD" and "PWAD"
  LumpName     \* names a program looks for: E1M1, PLAYPAL, TITLEPIC

HeaderLen == 3  \* 12 bytes
EntryLen == 3   \* 16 bytes

Count(wad) == wad[2]
Directory(wad) == wad[3]
Position(wad, i) == wad[Directory(wad) + i * EntryLen + 1]
Length(wad, i) == wad[Directory(wad) + i * EntryLen + 2]
Name(wad, i) == wad[Directory(wad) + i * EntryLen + 3]
Lumps(wad) == {i \in 0..Word - 1 : i < Count(wad)}

\* Unsigned subtraction.
Minus(a, b) == (a + Word - b) % Word

\* Mutants: the sum wraps around; a lump may not end with the file.
ValidLumpWrapping(wad, size, i) ==
  Length(wad, i) # 0 => (Position(wad, i) + Length(wad, i)) % Word <= size
ValidLumpStrict(wad, size, i) ==
  Length(wad, i) # 0 =>
    Position(wad, i) <= size /\ Length(wad, i) < Minus(size, Position(wad, i))

\* valid_wad() of the loader.
ValidLump(wad, size, i) ==
  Length(wad, i) # 0 =>
    Position(wad, i) <= size /\ Length(wad, i) <= Minus(size, Position(wad, i))

ValidWad(wad, size) ==
  /\ size >= HeaderLen /\ wad[1] \in {Iwad, Pwad}
  /\ Directory(wad) <= size
  /\ Count(wad) <= Minus(size, Directory(wad)) \div EntryLen
  /\ \A i \in Lumps(wad) : ValidLump(wad, size, i)

\* doom_find_lump(): -1, 0 or 1, and the last lump of that name.
FindLump(wad, size, name) ==
  LET bad(i) == /\ Length(wad, i) # 0
                /\ \/ Position(wad, i) > size
                   \/ Length(wad, i) > Minus(size, Position(wad, i))
      named == {i \in Lumps(wad) : Name(wad, i) = name}
      last == CHOOSE i \in named : \A j \in named : j <= i
      answer(found, offset, length) == [found |-> found, offset |-> offset, size |-> length]
  IN IF \/ size < HeaderLen \/ wad[1] \notin {Iwad, Pwad}
        \/ Directory(wad) > size
        \/ Count(wad) > Minus(size, Directory(wad)) \div EntryLen
        \/ \E i \in Lumps(wad) : bad(i)
     THEN answer(-1, 0, 0)
     ELSE IF named = {} THEN answer(0, 0, 0)
     ELSE answer(1, Position(wad, last), Length(wad, last))

\* The checks of ddr_wad_probe.c's main() after the handoff, which samples the
\* first and the last byte of each lump.
Probe(wad, size) ==
  IF wad[1] \notin {Iwad, Pwad} THEN "MAGIC"
  ELSE IF \/ Directory(wad) > size
          \/ Count(wad) > Minus(size, Directory(wad)) \div EntryLen THEN "DIRECTORY"
  ELSE IF \E i \in Lumps(wad) :
            /\ Length(wad, i) # 0
            /\ \/ Position(wad, i) > size
               \/ Length(wad, i) > Minus(size, Position(wad, i)) THEN "LUMP_BOUNDS"
  ELSE "PASS"

-----------------------------------------------------------------------------
\* What a reader relies on, in arithmetic without a width: the directory and
\* every lump are inside the file.
WellFormed(wad, size) ==
  /\ HeaderLen <= size
  /\ Directory(wad) + Count(wad) * EntryLen <= size
  /\ \A i \in Lumps(wad) : Length(wad, i) # 0 => Position(wad, i) + Length(wad, i) <= size

\* No program stops at a WAD of which the loader said OK.
Readable(wad, size) ==
  /\ WellFormed(wad, size)
  /\ Probe(wad, size) = "PASS"
  /\ \A name \in LumpName : FindLump(wad, size, name).found >= 0
=============================================================================
