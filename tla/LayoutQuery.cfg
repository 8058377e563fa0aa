\* Two GetLayout calls at once on a relay, which may fall behind by two messages.
SPECIFICATION FairSpec
CONSTANTS
  Query = {q1, q2}
  None = None
  MaxNoise = 2
  ReadOnly = FALSE
INVARIANTS
  NeverTorn
  CleanQueriesOwnTheirLogs
  NoOrphanedReply
PROPERTIES
  KeepsPromise
\* The relay may be torn down and every call be over.
CHECK_DEADLOCK FALSE
