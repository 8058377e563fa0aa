----------------------------- MODULE MCHerdrRelay -----------------------------
(* Instances of HerdrRegistry and HerdrWire for TLC.  The two share no     *)
(* state, so a behaviour is one of either and the other stays where it     *)
(* began: a tab of two panes in one space and a tab of one pane in another, *)
(* or an attach at the socket.                                             *)
EXTENDS HerdrRegistry, HerdrWire, TLC

CONSTANTS s1, s2, t1, t2, p1, p2, p3

SpaceOfTab == (t1 :> s1) @@ (t2 :> s2)
TabOfPane == (p1 :> t1) @@ (p2 :> t1) @@ (p3 :> t2)

VARIABLE part  \* which of the two it is

\* The start of an attach that is never made.
NoAttach ==
  /\ ~readOnly
  /\ first = CHOOSE z \in Size : TRUE
  /\ focus = CHOOSE t \in Term : TRUE

RelayInit ==
  /\ Init /\ WireInit
  /\ part \in {"ids", "frames"}
  /\ part = "ids" => NoAttach

RelayNext ==
  /\ \/ part = "ids" /\ Next /\ UNCHANGED wireVars
     \/ part = "frames" /\ WireNext /\ UNCHANGED vars
  /\ UNCHANGED part

RelaySpec == RelayInit /\ [][RelayNext]_<<vars, wireVars, part>>

=============================================================================
