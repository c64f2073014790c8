\* Two concurrent calls of two people on two tasks, with every kind of binding;
\* the first task is handed over at most twice.
SPECIFICATION SafeSpec
CONSTANTS
  p1 = p1
  g1 = g1
  People = {p1, p2}
  Groups = {g1}
  Workers = {p2}
  Tasks = 2
  Bindings <- AllBindings
  Calls = {c1, c2}
  MaxHandoffs <- Handoffs
  Null = Null
SYMMETRY SymCalls
CHECK_DEADLOCK FALSE
INVARIANTS HistoryIsChain CompletedByAnOwner OwnersWereTold
PROPERTIES AcceptedAnswerCounts
