-------------------------- MODULE MCExecutionProfile --------------------------
\* Small process models: every graph of up to four elements and three flows,
\* and every fault an element or a flow can have on up to three elements.
EXTENDS ExecutionProfile, TLC

CONSTANTS e1, e2, e3, e4

Pairs(ends) == [source : ends, target : ends]
Graphs(executable, nodes, kinds, flows, n) ==
  [executable : executable, nodes : {nodes}, kind : [nodes -> kinds], flows : [1..n -> flows]]

Shapes == UNION {Graphs({1}, s, {"start", "end", "step"}, Pairs(s), n) :
                 s \in {{e1, e2}, {e1, e2, e3}, {e1, e2, e3, e4}}, n \in 0..3}
Faults == UNION {Graphs({0, 1, 2}, s, Kind, Pairs(s \cup {None}), n) : s \in {{e1, e2}, {e1, e2, e3}}, n \in 0..2}

\* Models that get to the checks of the graph, one for all that differ in names
\* only, and those that fail before.
SmallModels ==
  {m \in Shapes : OneStartOneEnd(m) /\ m.kind[e1] = "start" /\ m.kind[e2] = "end"} \cup {m \in Faults : m.kind[e1] = "start" \/ Len(m.flows) = 0}

=============================================================================
