\* An action, the size query of an observer, and a writer.
SPECIFICATION FairSessionSpec
CONSTANTS
  a1 = a1
  q1 = q1
  w1 = w1
  o1 = o1
  Call = {a1, q1}
  Query = {q1}
  Writer = {w1}
  Observer = {o1}
  SizeQuery <- Asks
  Sizes = {2, 3}
  Neutral = 3
  Fallback = 2
  Limit = 3
  Noisy = {a1}
  MaxNoise = 1
  MaxResize = 1
INVARIANTS
  AckIsOfTheAction
  CallsShrinkNothing
PROPERTIES
  QueriesEnd
\* The session may be gone with every call answered.
CHECK_DEADLOCK FALSE
