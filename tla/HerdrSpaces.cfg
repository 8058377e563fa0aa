\* Spaces under either id: a writer's two calls, another writer's and a reader's, one
\* move of a desktop.
SPECIFICATION Spec
CONSTANTS
  s1 = s1
  s2 = s2
  s3 = s3
  c1 = c1
  c2 = c2
  c3 = c3
  k1 = k1
  k2 = k2
  k3 = k3
  k4 = k4
  Space = {s1, s2, s3}
  NoSpace = NoSpace
  AtStart <- TwoSpaces
  Client = {c1, c2, c3}
  Conn = {c1}
  NoConn = NoConn
  ReadOnly = {c3}
  Call = {k1, k2, k3, k4}
  Owner <- Callers
  Does <- Kinds
  Spellings <- OneSpelling
  Moves = 1
CONSTRAINT Bounded
INVARIANTS
  NobodyElseIsMoved
  ViewMatchesSpace
  AcknowledgedSwitchStands
  RepointedOff
PROPERTIES
  ClosesLeaveOne
\* Every call may be over.
CHECK_DEADLOCK FALSE
