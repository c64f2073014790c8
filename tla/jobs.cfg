\* One job, two attempts per cycle and two cycles, two possible results, two
\* sessions, one fault.
SPECIFICATION Spec
CONSTANTS
  Jobs = {j1}
  Sessions = {s1, s2}
  Results = {x, y}
  MaxAttempts = 2
  MaxDeliveries = 4
  MaxToken = 2
  MaxFaults = 1
  Null = Null
INVARIANTS NeverStranded AttemptsAccounted OneOutcome ConfirmedIsOutcome
PROPERTIES SettledIsFinal EveryJobConcludes
CHECK_DEADLOCK FALSE
