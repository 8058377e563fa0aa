\* Two spaces, three panes, one id too few; a layout query and a relay.  Or two
\* terminals, two sizes, three pieces in the socket, two frames after the handshake.
SPECIFICATION RelaySpec
CONSTANTS
  s1 = s1
  s2 = s2
  t1 = t1
  t2 = t2
  p1 = p1
  p2 = p2
  p3 = p3
  NoTab = NoTab
  NoTerm = NoTerm
  NoSpace = NoSpace
  Space = {s1, s2}
  Tab = {t1, t2}
  Pane = {p1, p2, p3}
  AtStart = {p1, p3}
  Closing = {p1, p3}
  SpaceOf <- SpaceOfTab
  TabOf <- TabOfPane
  Query = {q1}
  Relay = {r1}
  MaxPaneId = 2
  MaxTabId = 2
  None = None
  Term = {m1, m2}
  Size = {z1, z2}
  Cap = 3
  MaxWrites = 2
  MaxTrouble = 2
INVARIANTS
  RefsResolve
  ResolvedInItsSpace
  ShowsWhatIsRecorded
  FramesStayWhole
\* A herdr that hangs ends it.
CHECK_DEADLOCK FALSE
