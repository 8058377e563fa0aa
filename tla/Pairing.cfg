\* Two daemons one after the other without --san, one certificate made by hand or on
\* the Cert screen, one QR that may not be told to trust a CA, one change of what is
\* typed, of the panel's snapshot or of the machine's address, two failures while
\* writing.  The wildcard is the only host nobody can dial.
SPECIFICATION Spec
CONSTANTS
  lan = lan
  dns = dns
  any = any
  if1 = if1
  if2 = if2
  Absent = Absent
  Empty = Empty
  Host = {any, lan, dns}
  Wild = {any}
  Loopback = {}
  Dns = {dns}
  Env = {}
  Interface = {if1, if2}
  Cli <- Lists
  Modes = {"self", "h2c"}
  Trusts = {"auto", "pin"}
  Tries <- Few
INVARIANTS
  ScansConnect
  PinsOutliveRestarts
  PanelKeepsNames
  DialedIsCovered
SYMMETRY Either
PROPERTIES
  TornPairsAreRedone
\* Nothing more happens once the tries are used up.
CHECK_DEADLOCK FALSE
