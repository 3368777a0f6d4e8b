------------------------- MODULE MCInputController -------------------------
(* Instances of InputController for TLC.                                   *)
EXTENDS InputController

CONSTANTS c1, c2

Event(act, key) == [act |-> act, key |-> key]

(* A key around a text, and a key pressed twice and released once.         *)
Sequences ==
    [c \in Callers |->
        IF c = c1
          THEN <<Event("press", "a"), Event("text", "-")>>
          ELSE <<Event("press", "b"), Event("press", "b"), Event("release", "b")>>]
=============================================================================
