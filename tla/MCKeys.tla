------------------------------- MODULE MCKeys -------------------------------
(***************************************************************************)
(* KeyLink with the keys W, Up, which has the code of W, and Shift.        *)
(***************************************************************************)
EXTENDS KeyLink

MCKeysym == {"w", "W", "Up", "Shift_L"}
MCReported == [w |-> [s \in BOOLEAN |-> IF s THEN "W" ELSE "w"],
               up |-> [s \in BOOLEAN |-> "Up"],
               shift |-> [s \in BOOLEAN |-> "Shift_L"]]
MCKeyCode == [w |-> 25, W |-> 25, Up |-> 25, Shift_L |-> 26]

\* The window keeps the focus, so that the viewer is told of every press and
\* every release.
KeysInFocus == KeysOff /\ LineInit /\ [][KeyStep /\ focus']_<<keyVars, lineVars>>
=============================================================================
