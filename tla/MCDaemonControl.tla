-------------------------- MODULE MCDaemonControl --------------------------
(* An instance of DaemonControl for TLC.                                   *)
EXTENDS DaemonControl
=============================================================================
