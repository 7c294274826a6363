--------------------------- MODULE VerifiedImage ---------------------------
(***************************************************************************)
(* What a loader promises, whatever reaches it over the serial line: it    *)
(* starts nothing but an image it has verified as a whole, the image does  *)
(* not change while it may be started or runs, and a started image runs    *)
(* until the board is reset.                                               *)
(***************************************************************************)
CONSTANTS
  Image,  \* the images somebody meant to load
  None

VARIABLES
  image,   \* the image that may be started, or None
  running

vars == <<image, running>>

Init == image = None /\ running = FALSE

\* A loader may start what it has just loaded.
Load == ~running /\ image' \in Image /\ running' \in BOOLEAN
Drop == ~running /\ image' = None /\ UNCHANGED running
Start == image # None /\ running' = TRUE /\ UNCHANGED image
Reset == image' = None /\ running' = FALSE

Next == Load \/ Drop \/ Start \/ Reset

Spec == Init /\ [][Next]_vars
=============================================================================
