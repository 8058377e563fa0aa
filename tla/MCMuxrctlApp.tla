---------------------------- MODULE MCMuxrctlApp ----------------------------
(* Instances of MuxrctlApp for TLC.                                        *)
EXTENDS MuxrctlApp

Server == <<"rest", "backtab", "rest">>
Minted == Server \o <<"backtab", "rest", "form", "submit", "rest">>

\* Any two keys in the server panel, with the daemon stopped and started by
\* others too; any three in the tokens panel, where there is a token already.
Panels ==
  {Server \o keys : keys \in TupleOf({"start", "stop", "status", "daemon", "tab"}, 2)}
  \cup
  {Minted \o keys : keys \in TupleOf({"form", "submit", "cursor", "revoke", "reload"}, 3)}

\* A token shown once and again while clients come and the daemon goes; the other
\* panels; one left while it loads.
Visits ==
  { <<"rest", "clients">> \o Minted \o <<"qr", "close", "qr", "clients", "clients">>,
    Minted \o <<"qr", "clients", "daemon", "rest", "close">>,
    Minted \o <<"form", "submit", "rest", "cursor", "revoke">>,
    <<"rest", "backtab", "backtab", "form", "cancel", "forget", "tab">>,
    <<"rest", "tab", "config", "save", "tab", "ensure", "quit">>,
    <<"backtab", "tab">> }

Played == Panels \cup Visits

=============================================================================
