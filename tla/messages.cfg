\* A message that two workers dispatch and an API client that repeats and reuses
\* one key, two receivers with a wait each, two correlation values: matches,
\* ambiguity, conflicts, crashes and lost answers.
SPECIFICATION Spec
CONSTANTS
  Receivers = {r1, r2}
  Messages = {m1}
  ApiKeys = {k1}
  Workers = {w1, w2}
  Clients = {c1}
  Values = {v1, v2}
  Padding = {FALSE}
  MaxRevision = 1
  MaxFaults = 1
  Null = Null
CHECK_DEADLOCK FALSE
INVARIANTS OneContinuation LedgerTellsOutcome SameAnswer
PROPERTIES ClaimsAreRespected CorrelatesTheActiveWait EveryMessageSettles
