--------------------------- MODULE MCCachedMemory ---------------------------
(***************************************************************************)
(* CachedMemory with three DDR words in two lines: the two-byte word {1,2} *)
(* and the word {4} share line 0, the word {3} has line 1; byte 5 is MMIO. *)
(***************************************************************************)
EXTENDS CachedMemory, Integers

MCByte == 1 .. 5
MCDdr == 1 .. 4
MCValue == 0 .. 1
MCWord == {{1, 2}, {3}, {4}}
MCIndex == 0 .. 1
MCIndexOf == [w \in MCWord |-> IF w = {3} THEN 1 ELSE 0]

Store(bytes, v) == [write |-> TRUE, bytes |-> bytes, data |-> v, legal |-> TRUE]
Load(bytes) == [write |-> FALSE, bytes |-> bytes, data |-> 0, legal |-> TRUE]

\* Loads of a part of a word and of a whole word, stores that may hit, a store
\* that straddles two words, and a malformed store.
MCRequest ==
  {Load({2}), Load({3}), Load({4}), Load({2, 3}), Store({1}, 0), Store({2}, 1),
   Store({2, 3}, 1), [Store({4}, 0) EXCEPT !.legal = FALSE]}
=============================================================================
