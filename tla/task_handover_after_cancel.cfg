\* A task is handed over although its process has been cancelled.
SPECIFICATION SafeSpec
CONSTANTS
  p1 = p1
  g1 = g1
  People = {p1, p2}
  Groups = {g1}
  Workers = {p2}
  Tasks = 2
  Bindings <- AllBindings
  Calls = {c1, c2}
  MaxHandoffs <- Handoffs
  Null = Null
CHECK_DEADLOCK FALSE
INVARIANT HandedOverWhileActive
