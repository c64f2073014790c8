--------------------------- MODULE MCTaskAssignment ---------------------------
\* Bindings and symmetry of the task runs.
EXTENDS TaskAssignment, TLC

CONSTANTS p1, g1

Starter == [kind |-> "STARTER"]
ToPerson == [kind |-> "PERSON", person |-> p1]
ToGroup == [kind |-> "GROUP", group |-> g1]

AllBindings == {Starter, ToPerson, ToGroup}

\* The first task is handed over at most twice, the second not at all.
Handoffs == <<2, 0>>

SymCalls == Permutations(Calls)

=============================================================================
