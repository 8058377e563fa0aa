\* One client, whose channel fills and drains twice.
SPECIFICATION FairSpec
CONSTANTS
  Conn = {c1}
  Session = {s1}
  KeyOf <- OneSession
  Bound = 2
  MaxMessages = 4
INVARIANTS
  CountIsExact
  RunningIsCounted
  NothingLeftBehind
PROPERTIES
  RevocationEnds
  SessionEndEnds
\* The attach may be over.
CHECK_DEADLOCK FALSE
