\* A listing and two other calls, one of them with a read-only token.
SPECIFICATION FairSpec
CONSTANTS
  l1 = l1
  m1 = m1
  m2 = m2
  tw = tw
  tr = tr
  tn = tn
  s1 = s1
  s2 = s2
  s3 = s3
  Lister = {l1}
  Worker = {m1, m2}
  Does <- Methods
  Token = {tw, tr, tn}
  Scope <- Scopes
  Bearer <- Bearers
  First = {tw, tr}
  Space = {s1, s2}
  Pool = 2
  MaxTrouble = 1
INVARIANTS
  OnlyWritersDo
  NoPhantoms
  HealthyIsShown
PROPERTIES
  ListsEnd
\* A call may hang on a zellij that does.
CHECK_DEADLOCK FALSE
