---------------------------- MODULE MCSocMemory ----------------------------
(***************************************************************************)
(* SocMemory with two DDR bytes, each a word of its own, that compete for  *)
(* the one cache line, one MMIO byte, and a ring of two stores.            *)
(***************************************************************************)
EXTENDS SocMemory

MCByte == 1 .. 3
MCDdr == 1 .. 2
MCValue == 0 .. 1
MCWord == {{1}, {2}}
MCIndex == {0}
MCIndexOf == [w \in MCWord |-> 0]

Store(b, v) == [write |-> TRUE, bytes |-> {b}, data |-> v, legal |-> TRUE]
Load(b) == [write |-> FALSE, bytes |-> {b}, data |-> 0, legal |-> TRUE]

MCCpu == {Load(1), Store(1, 1), Load(2), Load(3)}
MCCpuFew == {Store(1, 1), Load(2)}
MCWalker == {Load(1)}
MCFetch == {Load(2)}
MCDma == {Store(1, 0)}
MCPowerUp == {[b \in MCByte |-> 0]}
MCEitherReady == BOOLEAN
MCCalibrated == {TRUE}
MCRequest == MCCpu \cup MCWalker \cup MCFetch \cup MCDma
=============================================================================
