\* A daemon, a server in the foreground and two commands, with crashes.
SPECIFICATION FairSpec
CONSTANTS
  Server = {d1, f}
  Foreground = {f}
  Command = {c1, c2}
  Nobody = Nobody
INVARIANTS
  ServingIsReachable
  OneDaemon
PROPERTIES
  StopsEnd
\* Every server may be gone and every command over.
CHECK_DEADLOCK FALSE
