--------------------------- MODULE MCLayoutQuery ---------------------------
(* Instances of LayoutQuery for TLC.                                       *)
EXTENDS LayoutQuery

=============================================================================
