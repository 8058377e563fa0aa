\* A writer and an observer on a session of either backend, three calls.
SPECIFICATION Spec
CONSTANTS
  w = w
  o = o
  kw1 = kw1
  kw2 = kw2
  ko = ko
  t1 = t1
  p1 = p1
  NoConn = NoConn
  NoTab = NoTab
  NoPane = NoPane
  Conn <- TwoRelays
  Call <- ThreeCalls
  Owner <- OwnerOfCall
  Does <- DoesOfCall
  ReadOnly = {o}
  Running = {"zellij", "herdr"}
  Ids <- SessionId
  Tab <- OneTab
  Pane <- OnePane
  TabOf <- TabOfPane
INVARIANTS
  RoutedToWritable
  ReadYourWrites
\* Every call may be over and every relay gone.
CHECK_DEADLOCK FALSE
