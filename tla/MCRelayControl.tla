--------------------------- MODULE MCRelayControl ---------------------------
(* Instances of RelayControl for TLC: a writer w, an observer o, and calls *)
(* of both.                                                                *)
EXTENDS RelayControl, TLC

CONSTANTS w, o, kw1, kw2, ko, t1, p1

TwoRelays == {w, o}
ThreeCalls == {kw1, kw2, ko}
OwnerOfCall == (kw1 :> w) @@ (kw2 :> w) @@ (ko :> o)
OneTab == {t1}
OnePane == {p1}
TabOfPane == [p \in {p1} |-> t1]

DoesOfCall == (kw1 :> {"tab", "toggle", "unhinted"}) @@ (kw2 :> {"focus", "layout"})
              @@ (ko :> {"focus", "toggle", "layout"})

\* The bare id, which a server with one backend takes for a session of it.
BareId == {[prefix |-> NoPrefix]}

=============================================================================
