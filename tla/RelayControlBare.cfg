\* The same clients and calls on a server of herdr alone, attached by its bare id.
SPECIFICATION Spec
CONSTANTS
  w = w
  o = o
  kw1 = kw1
  kw2 = kw2
  ko = ko
  t1 = t1
  p1 = p1
  NoConn = NoConn
  NoTab = NoTab
  NoPane = NoPane
  Conn <- TwoRelays
  Call <- ThreeCalls
  Owner <- OwnerOfCall
  Does <- DoesOfCall
  ReadOnly = {o}
  Running = {"herdr"}
  Ids <- BareId
  Tab <- OneTab
  Pane <- OnePane
  TabOf <- TabOfPane
INVARIANT OnlyOwnView
\* Every call may be over and every relay gone.
CHECK_DEADLOCK FALSE
