----------------------------- MODULE HostScript -----------------------------
(***************************************************************************)
(* The steps an uploader's script is made of (SerialHost).                 *)
(***************************************************************************)
EXTENDS Naturals, Sequences

Send(tokens) == [i \in 1..Len(tokens) |-> [do |-> "send", token |-> tokens[i]]]

Wait(line) == <<[do |-> "wait", line |-> line, prefix |-> FALSE]>>

\* The number in the line does not matter (-AllowSuffix).
WaitPrefix(line) == <<[do |-> "wait", line |-> line, prefix |-> TRUE]>>

\* The script goes on with or without the line (-Optional): then[TRUE] or
\* then[FALSE].
Ask(line, then) == <<[do |-> "ask", line |-> line, prefix |-> FALSE, then |-> then]>>

\* A payload in blocks of so many tokens, each acknowledged with the number
\* received; the last block may be short.
Payload(of, tokens, block) ==
  LET steps == Len(tokens) + (Len(tokens) + block - 1) \div block
      sent(i) == i - 1 - (i - 1) \div (block + 1)
  IN [i \in 1..steps |->
        IF i = steps \/ i % (block + 1) = 0
        THEN [do |-> "wait", line |-> [of |-> of, n |-> sent(i)], prefix |-> FALSE]
        ELSE [do |-> "send", token |-> tokens[sent(i) + 1]]]
=============================================================================
