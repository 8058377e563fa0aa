-------------------------- MODULE MCZellijSession --------------------------
(* Instances of ZellijSession for TLC.                                     *)
EXTENDS ZellijSession

CONSTANTS a1, q1, w1, o1

\* The observer asks for the size on the one query there is.
Asks == [o \in Observer |-> q1]

=============================================================================
