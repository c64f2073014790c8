\* One instance through every kind of wait, two workers that crash and lose leases.
SPECIFICATION Spec
CONSTANTS
  Instances = {i1}
  Commands = {c1, c2, c3, c4, c5}
  Workers = {w1, w2}
  Path <- EveryWait
  MaxClaims = 3
  Null = Null
INVARIANTS InFlightAgrees ProjectionHonest OneContinuation OneWriter IncidentsAreReal
PROPERTIES EveryCommandSettles ImplementsLifecycle
CHECK_DEADLOCK FALSE
