\* Keys pressed in one of the scripts, while clients come and the daemon goes.
SPECIFICATION FairAppSpec
CONSTANTS
  Unknown = Unknown
  Stopped = Stopped
  Every = 2
  Scripts <- Played
  MaxClients = 1
INVARIANTS
  OverlayShowsItsOwn
  ConnectedMeansMore
  FlagMeansTask
PROPERTIES
  StatusHeals
\* The user may have quit.
CHECK_DEADLOCK FALSE
