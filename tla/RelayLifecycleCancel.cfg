\* The claim that dropping the guard always tears the reader thread down.
SPECIFICATION FairSpec
CONSTANTS
  Conn = {c1}
  Session = {s1}
  KeyOf <- OneSession
  Bound = 2
  MaxMessages = 2
PROPERTIES
  DroppedGuardTearsDown
CHECK_DEADLOCK FALSE
