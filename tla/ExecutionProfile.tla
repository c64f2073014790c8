--------------------------- MODULE ExecutionProfile ---------------------------
(***************************************************************************)
(* assertRuntimeProfile: which process models may be started.  The checks  *)
(* run in order and the first that fails names the error.  The last but    *)
(* one walks from the start along the first outgoing flow of each element, *)
(* until there is none or an element comes back.                           *)
(*                                                                         *)
(* RuntimeCore takes the path of an instance as a sequence of waits: this  *)
(* is the check that makes every deployed model such a sequence.           *)
(***************************************************************************)
EXTENDS Naturals, Sequences, FiniteSets

CONSTANTS
  Elements,       \* ids of flow elements
  Models,         \* parsed models to be checked
  None

\* step: an element the runtime can execute, with the binding it needs;
\* unbound: the same without the binding; unsupported: anything else.
Kind == {"start", "end", "step", "unbound", "unsupported"}
Flow == [source : Elements \cup {None}, target : Elements \cup {None}]

ASSUME ElementsAssumption == IsFiniteSet(Elements) /\ None \notin Elements
ASSUME ModelsAssumption ==
  \A m \in Models :
    /\ m.executable \in Nat
    /\ m.nodes \subseteq Elements
    /\ m.kind \in [m.nodes -> Kind]
    /\ m.flows \in Seq(Flow)

VARIABLES
  model,          \* executable processes, and nodes and flows of the first
  stage,          \* the check to come, or the verdict
  visited,        \* the set visited, in the order of insertion
  cursor          \* the element the walk comes to next

vars == <<model, stage, visited, cursor>>

Checks == {"process", "elements", "shape", "flows", "degrees", "walk", "bindings"}
Errors == {"EXECUTABLE_PROCESS_COUNT", "UNSUPPORTED_RUNTIME_ELEMENT", "RUNTIME_SHAPE_REQUIRED",
           "INVALID_SEQUENCE_FLOW", "NON_LINEAR_RUNTIME_FLOW", "BINDING_REQUIRED"}
Verdicts == Errors \cup {"ACCEPTED"}

TypeOK ==
  /\ model \in Models
  /\ stage \in Checks \cup Verdicts
  /\ visited \in Seq(model.nodes)
  /\ cursor \in model.nodes \cup {None}

Init ==
  /\ model \in Models
  /\ stage = "process"
  /\ visited = <<>>
  /\ cursor = None

-----------------------------------------------------------------------------
(* What is checked.                                                         *)

OfKind(m, k) == {n \in m.nodes : m.kind[n] = k}
Incoming(m, n) == {i \in DOMAIN m.flows : m.flows[i].target = n}
Outgoing(m, n) == {i \in DOMAIN m.flows : m.flows[i].source = n}

OneProcess(m) == m.executable = 1
AllSupported(m) == OfKind(m, "unsupported") = {}
OneStartOneEnd(m) == Cardinality(OfKind(m, "start")) = 1 /\ Cardinality(OfKind(m, "end")) = 1
FlowsConnect(m) ==
  \A i \in DOMAIN m.flows : m.flows[i].source \in m.nodes /\ m.flows[i].target \in m.nodes

Unbranched(m) ==
  \A n \in m.nodes :
    LET in == Cardinality(Incoming(m, n))
        out == Cardinality(Outgoing(m, n)) IN
    CASE m.kind[n] = "start" -> in = 0 /\ out = 1
      [] m.kind[n] = "end" -> in = 1 /\ out = 0
      [] OTHER -> in = 1 /\ out = 1

AllBound(m) == OfKind(m, "unbound") = {}

StartOf(m) == CHOOSE n \in m.nodes : m.kind[n] = "start"
FirstOutgoing(m, n) == CHOOSE i \in Outgoing(m, n) : \A j \in Outgoing(m, n) : i <= j
\* outgoing.get(n)?.[0]
Successor(m, n) == IF Outgoing(m, n) = {} THEN None ELSE m.flows[FirstOutgoing(m, n)].target

-----------------------------------------------------------------------------

\* One check: pass on to the next one, or stop with the error.
Check(here, holds, next, error) ==
  /\ stage = here
  /\ stage' = IF holds THEN next ELSE error
  /\ UNCHANGED <<model, visited, cursor>>

CheckProcess == Check("process", OneProcess(model), "elements", "EXECUTABLE_PROCESS_COUNT")
CheckElements == Check("elements", AllSupported(model), "shape", "UNSUPPORTED_RUNTIME_ELEMENT")
CheckShape == Check("shape", OneStartOneEnd(model), "flows", "RUNTIME_SHAPE_REQUIRED")
CheckFlows == Check("flows", FlowsConnect(model), "degrees", "INVALID_SEQUENCE_FLOW")
CheckBindings == Check("bindings", AllBound(model), "ACCEPTED", "BINDING_REQUIRED")

\* The walk begins at the start.
CheckDegrees ==
  /\ stage = "degrees"
  /\ stage' = IF Unbranched(model) THEN "walk" ELSE "NON_LINEAR_RUNTIME_FLOW"
  /\ cursor' = IF Unbranched(model) THEN StartOf(model) ELSE None
  /\ UNCHANGED <<model, visited>>

Visited == {visited[i] : i \in DOMAIN visited}

Ahead == cursor # None /\ cursor \notin Visited

Walk ==
  /\ stage = "walk"
  /\ Ahead
  /\ visited' = Append(visited, cursor)
  /\ cursor' = Successor(model, cursor)
  /\ UNCHANGED <<model, stage>>

\* Mutant: elements the walk has not reached are not noticed.
CameToAnEnd == cursor = None
ReachedAll == Cardinality(Visited) = Cardinality(model.nodes) /\ cursor = None

EndWalk ==
  /\ stage = "walk"
  /\ ~Ahead
  /\ stage' = IF ReachedAll THEN "bindings" ELSE "NON_LINEAR_RUNTIME_FLOW"
  /\ UNCHANGED <<model, visited, cursor>>

Done == stage \in Verdicts /\ UNCHANGED vars

Next ==
  \/ CheckProcess \/ CheckElements \/ CheckShape \/ CheckFlows \/ CheckDegrees
  \/ Walk \/ EndWalk
  \/ CheckBindings
  \/ Done

Spec == Init /\ [][Next]_vars

-----------------------------------------------------------------------------
(* What the profile promises.                                               *)

\* p arranges the whole model in one line from its start to its end: the flows
\* are exactly those from each element to the next one, one each, and every
\* element between start and end is an executable step.
Arranges(m, p, n) ==
  /\ n >= 2
  /\ p \in [1..n -> m.nodes]
  /\ \A e \in m.nodes : \E i \in 1..n : p[i] = e
  /\ \A i, j \in 1..n : p[i] = p[j] => i = j
  /\ m.kind[p[1]] = "start"
  /\ m.kind[p[n]] = "end"
  /\ \A i \in 2..(n - 1) : m.kind[p[i]] = "step"
  /\ \A f \in DOMAIN m.flows : \E i \in 1..(n - 1) : m.flows[f] = [source |-> p[i], target |-> p[i + 1]]
  /\ \A i \in 1..(n - 1) : \E f \in DOMAIN m.flows :
       \A g \in DOMAIN m.flows : m.flows[g] = [source |-> p[i], target |-> p[i + 1]] <=> g = f

IsLine(m) == \E n \in 0..Cardinality(m.nodes) : \E p \in [1..n -> m.nodes] : Arranges(m, p, n)

\* The checks accept a model exactly when it is one executable process whose
\* elements form one line: no branch, no merge, no cycle beside the line, no
\* element the walk does not reach (assertRuntimeProfile).
AcceptsExactlyLines ==
  stage \in Verdicts => (stage = "ACCEPTED" <=> OneProcess(model) /\ IsLine(model))

\* The walk never comes back to an element it has visited: behind the checks of
\* the degrees a cycle can only lie beside the line, where the number of visited
\* elements shows it (visited.size !== nodes.length), and so the loop ends by
\* itself on every model.
WalkNeverReturns == stage = "walk" => cursor \notin Visited

=============================================================================
