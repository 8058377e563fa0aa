-------------------------- MODULE MCRelayLifecycle --------------------------
(* Instances of RelayLifecycle for TLC.                                    *)
EXTENDS RelayLifecycle

\* Every attach asks for the same session.
OneSession == [c \in Conn |-> CHOOSE s \in Session : TRUE]

=============================================================================
