----------------------------- MODULE WorkspaceProofs -----------------------------
(***************************************************************************)
(* The execution profile, the bindings of elements, and the components     *)
(* that are run beside them.                                               *)
(*                                                                         *)
(* The profile accepts exactly the lines, for every finite set of elements *)
(* and every model over it.  One direction is an invariant of the walk     *)
(* (Trail): it visits each element once, each after the one whose only     *)
(* flow leads to it.  The other direction follows the walk along an        *)
(* arrangement of the model that is assumed to exist (Follows).            *)
(*                                                                         *)
(* The bindings of an element are about four readers of the same           *)
(* attributes.  Two of them are compared for any element (ShownIsRun,      *)
(* WaitsAreBound); that what was applied is what runs is an invariant of   *)
(* the edits (AppliedRuns).                                                *)
(*                                                                         *)
(* Of the other components the workspace has the steps and the invariants  *)
(* that their own modules prove.                                           *)
(***************************************************************************)
EXTENDS Workspace, FiniteSetTheorems, TLAPS

-----------------------------------------------------------------------------
(* Models and their degrees.                                                *)

\* What the parser guarantees of a model (ModelsAssumption), and that the
\* sets that are counted are finite.
LEMMA ModelFacts ==
  ASSUME NEW m \in Models
  PROVE  /\ m.executable \in Nat
         /\ m.nodes \subseteq Elements
         /\ None \notin m.nodes
         /\ m.kind \in [m.nodes -> Kind]
         /\ m.flows \in Seq(Flow)
         /\ IsFiniteSet(m.nodes)
         /\ \A k : IsFiniteSet(OfKind(m, k))
         /\ \A n : IsFiniteSet(Incoming(m, n)) /\ IsFiniteSet(Outgoing(m, n))
<1>1. /\ m.executable \in Nat
      /\ m.nodes \subseteq Elements
      /\ m.kind \in [m.nodes -> Kind]
      /\ m.flows \in Seq(Flow)
  BY ModelsAssumption
<1>2. None \notin m.nodes
  BY <1>1, ElementsAssumption
<1>3. IsFiniteSet(m.nodes)
  BY <1>1, ElementsAssumption, FS_Subset
<1>4. \A k : IsFiniteSet(OfKind(m, k))
  <2> TAKE k
  <2>1. OfKind(m, k) \in SUBSET m.nodes
    BY DEF OfKind
  <2> QED
    BY <2>1, <1>3, FS_Subset
<1>5. IsFiniteSet(DOMAIN m.flows)
  <2>1. Len(m.flows) \in Nat /\ DOMAIN m.flows = 1..Len(m.flows)
    BY <1>1
  <2>2. IsFiniteSet(1..Len(m.flows))
    <3>1. 1 \in Int /\ Len(m.flows) \in Int
      BY <2>1
    <3> QED
      BY <3>1, FS_Interval
  <2> QED
    BY <2>1, <2>2
<1>6. \A n : IsFiniteSet(Incoming(m, n)) /\ IsFiniteSet(Outgoing(m, n))
  <2> TAKE n
  <2>1. Incoming(m, n) \in SUBSET DOMAIN m.flows /\ Outgoing(m, n) \in SUBSET DOMAIN m.flows
    BY DEF Incoming, Outgoing
  <2> QED
    BY <2>1, <1>5, FS_Subset
<1> QED
  BY <1>1, <1>2, <1>3, <1>4, <1>6

\* An element with one outgoing flow has the target of that flow as successor.
LEMMA SingleSuccessor ==
  ASSUME NEW m, NEW n, NEW i, Outgoing(m, n) = {i}, i \in Nat
  PROVE  Successor(m, n) = m.flows[i].target
<1>1. FirstOutgoing(m, n) = i
  BY DEF FirstOutgoing
<1> QED
  BY <1>1 DEF Successor

\* The degrees of the elements, as sets instead of numbers.
LEMMA Degrees ==
  ASSUME NEW m \in Models, Unbranched(m), NEW n \in m.nodes
  PROVE  /\ m.kind[n] = "start" => Incoming(m, n) = {}
         /\ m.kind[n] # "start" => \E i : Incoming(m, n) = {i}
         /\ m.kind[n] = "end" => Outgoing(m, n) = {}
         /\ m.kind[n] # "end" => \E i : Outgoing(m, n) = {i}
<1>1. IsFiniteSet(Incoming(m, n)) /\ IsFiniteSet(Outgoing(m, n))
  BY ModelFacts
<1>2. /\ Cardinality(Incoming(m, n)) = 0 <=> Incoming(m, n) = {}
      /\ Cardinality(Outgoing(m, n)) = 0 <=> Outgoing(m, n) = {}
  BY <1>1, FS_EmptySet
<1>3. /\ Cardinality(Incoming(m, n)) = 1 <=> \E i : Incoming(m, n) = {i}
      /\ Cardinality(Outgoing(m, n)) = 1 <=> \E i : Outgoing(m, n) = {i}
  BY <1>1, FS_Singleton
<1>4. CASE m.kind[n] = "start"
  BY <1>2, <1>3, <1>4 DEF Unbranched
<1>5. CASE m.kind[n] = "end"
  BY <1>2, <1>3, <1>5 DEF Unbranched
<1>6. CASE m.kind[n] # "start" /\ m.kind[n] # "end"
  BY <1>3, <1>6 DEF Unbranched
<1> QED
  BY <1>4, <1>5, <1>6

\* And back: sets of the right size pass the check.
LEMMA DegreesSuffice ==
  ASSUME NEW m \in Models,
         \A n \in m.nodes :
           /\ m.kind[n] = "start" => Incoming(m, n) = {}
           /\ m.kind[n] # "start" => \E i : Incoming(m, n) = {i}
           /\ m.kind[n] = "end" => Outgoing(m, n) = {}
           /\ m.kind[n] # "end" => \E i : Outgoing(m, n) = {i}
  PROVE  Unbranched(m)
<1> SUFFICES ASSUME NEW n \in m.nodes
             PROVE  CASE m.kind[n] = "start" -> Cardinality(Incoming(m, n)) = 0 /\ Cardinality(Outgoing(m, n)) = 1
                      [] m.kind[n] = "end" -> Cardinality(Incoming(m, n)) = 1 /\ Cardinality(Outgoing(m, n)) = 0
                      [] OTHER -> Cardinality(Incoming(m, n)) = 1 /\ Cardinality(Outgoing(m, n)) = 1
  BY DEF Unbranched
<1>1. Cardinality({}) = 0 /\ \A i : Cardinality({i}) = 1
  BY FS_EmptySet, FS_Singleton
<1>2. CASE m.kind[n] = "start"
  <2>1. PICK i : Outgoing(m, n) = {i}
    BY <1>2
  <2> QED
    BY <1>1, <1>2, <2>1
<1>3. CASE m.kind[n] = "end"
  <2>1. PICK i : Incoming(m, n) = {i}
    BY <1>3
  <2> QED
    BY <1>1, <1>3, <2>1
<1>4. CASE m.kind[n] # "start" /\ m.kind[n] # "end"
  <2>1. PICK i : Incoming(m, n) = {i}
    BY <1>4
  <2>2. PICK j : Outgoing(m, n) = {j}
    BY <1>4
  <2> QED
    BY <1>1, <1>4, <2>1, <2>2
<1> QED
  BY <1>2, <1>3, <1>4

\* The only start of a model with one start.
LEMMA TheStart ==
  ASSUME NEW m \in Models, OneStartOneEnd(m)
  PROVE  /\ StartOf(m) \in m.nodes
         /\ m.kind[StartOf(m)] = "start"
         /\ \A n \in m.nodes : m.kind[n] = "start" => n = StartOf(m)
<1>1. PICK s : OfKind(m, "start") = {s}
  BY ModelFacts, FS_Singleton DEF OneStartOneEnd
<1>2. s \in m.nodes /\ m.kind[s] = "start" /\ \A n \in m.nodes : m.kind[n] = "start" => n = s
  BY <1>1 DEF OfKind
<1> QED
  BY <1>2 DEF StartOf

\* Every successor is an element of the model, or there is none.
LEMMA SuccessorType ==
  ASSUME NEW m \in Models, FlowsConnect(m), Unbranched(m), NEW n \in m.nodes
  PROVE  /\ Successor(m, n) \in m.nodes \cup {None}
         /\ Successor(m, n) = None <=> m.kind[n] = "end"
<1>1. CASE m.kind[n] = "end"
  BY <1>1, Degrees DEF Successor
<1>2. CASE m.kind[n] # "end"
  <2>1. PICK i : Outgoing(m, n) = {i}
    BY <1>2, Degrees
  <2>2. i \in DOMAIN m.flows /\ i \in Nat
    <3>1. m.flows \in Seq(Flow)
      BY ModelFacts
    <3>2. i \in Outgoing(m, n)
      BY <2>1
    <3> QED
      BY <3>1, <3>2 DEF Outgoing
  <2>3. Successor(m, n) = m.flows[i].target
    BY <2>1, <2>2, SingleSuccessor
  <2>4. m.flows[i].target \in m.nodes
    BY <2>2 DEF FlowsConnect
  <2> QED
    BY <1>2, <2>3, <2>4, ModelFacts
<1> QED
  BY <1>1, <1>2

-----------------------------------------------------------------------------
(* The trail of the walk.                                                   *)

\* The visited elements are distinct, begin at the start, and each is the
\* successor of the one before it; the cursor is the successor of the last.
Trail ==
  /\ \A i, j \in 1..Len(visited) : visited[i] = visited[j] => i = j
  /\ visited = <<>> => cursor = StartOf(model)
  /\ visited # <<>> => visited[1] = StartOf(model) /\ cursor = Successor(model, visited[Len(visited)])
  /\ \A i \in 1..(Len(visited) - 1) : visited[i + 1] = Successor(model, visited[i])

\* Checks that have been passed.
AfterProcess == (Checks \ {"process"}) \cup {"ACCEPTED"}
AfterElements == AfterProcess \ {"elements"}
AfterShape == AfterElements \ {"shape"}
AfterFlows == AfterShape \ {"flows"}
AfterDegrees == AfterFlows \ {"degrees"}
AfterWalk == AfterDegrees \ {"walk"}

\* The inductive invariant: what each stage may rely on.
Inv ==
  /\ TypeOK
  /\ stage \in AfterProcess => OneProcess(model)
  /\ stage \in AfterElements => AllSupported(model)
  /\ stage \in AfterShape => OneStartOneEnd(model)
  /\ stage \in AfterFlows => FlowsConnect(model)
  /\ stage \in AfterDegrees => Unbranched(model) /\ Trail
  /\ stage \in Checks \ AfterDegrees => visited = <<>>
  /\ stage \in AfterWalk => ReachedAll
  /\ stage = "ACCEPTED" => AllBound(model)

LEMMA InitInv == Init => Inv
BY DEF Init, Inv, TypeOK, Checks, AfterProcess, AfterElements, AfterShape, AfterFlows, AfterDegrees, AfterWalk

\* One step of the walk lengthens the trail.
LEMMA WalkKeepsTrail ==
  ASSUME TypeOK, Trail, FlowsConnect(model), Unbranched(model), Walk, OneStartOneEnd(model)
  PROVE  TypeOK' /\ Trail'
<1>1. /\ visited \in Seq(model.nodes)
      /\ cursor \in model.nodes
      /\ cursor \notin Visited
      /\ visited' = Append(visited, cursor)
      /\ cursor' = Successor(model, cursor)
      /\ model' = model /\ stage' = stage
      /\ model \in Models
  BY DEF TypeOK, Walk, Ahead
<1>2. visited' \in Seq(model.nodes)
  BY <1>1
<1>3. cursor' \in model.nodes \cup {None}
  BY <1>1, SuccessorType
<1>4. TypeOK'
  BY <1>1, <1>2, <1>3 DEF TypeOK
<1> DEFINE n == Len(visited)
<1>5. /\ n \in Nat /\ Len(visited') = n + 1
      /\ \A i \in 1..n : visited'[i] = visited[i]
      /\ visited'[n + 1] = cursor
      /\ visited' # <<>>
  BY <1>1
<1>6. \A i \in 1..n : visited[i] # cursor
  BY <1>1 DEF Visited
<1>7. \A i, j \in 1..(n + 1) : visited'[i] = visited'[j] => i = j
  <2> SUFFICES ASSUME NEW i \in 1..(n + 1), NEW j \in 1..(n + 1), visited'[i] = visited'[j]
               PROVE  i = j
    OBVIOUS
  <2>1. CASE i \in 1..n /\ j \in 1..n
    BY <1>5, <2>1 DEF Trail
  <2>2. CASE i = n + 1 \/ j = n + 1
    BY <1>5, <1>6, <2>2
  <2> QED
    BY <1>5, <2>1, <2>2
<1>8. visited'[1] = StartOf(model)
  <2>1. CASE visited = <<>>
    BY <1>5, <2>1 DEF Trail
  <2>2. CASE visited # <<>>
    <3>1. 1 \in 1..n
      BY <1>1, <2>2
    <3> QED
      BY <1>5, <2>2, <3>1 DEF Trail
  <2> QED
    BY <2>1, <2>2
<1>9. \A i \in 1..n : visited'[i + 1] = Successor(model, visited'[i])
  <2> SUFFICES ASSUME NEW i \in 1..n
               PROVE  visited'[i + 1] = Successor(model, visited'[i])
    OBVIOUS
  <2>1. CASE i = n
    <3>1. visited # <<>>
      BY <1>1, <1>5
    <3> QED
      BY <1>5, <2>1, <3>1 DEF Trail
  <2>2. CASE i # n
    <3>1. i \in 1..(n - 1) /\ i + 1 \in 1..n
      BY <1>5, <2>2
    <3> QED
      BY <1>5, <3>1 DEF Trail
  <2> QED
    BY <2>1, <2>2
<1> QED
  BY <1>1, <1>4, <1>5, <1>7, <1>8, <1>9 DEF Trail

LEMMA StepInv == Inv /\ [Next]_vars => Inv'
<1> SUFFICES ASSUME Inv, [Next]_vars PROVE Inv'
  OBVIOUS
<1> USE DEF Checks, AfterProcess, AfterElements, AfterShape, AfterFlows, AfterDegrees, AfterWalk
<1>1. ASSUME NEW here \in {"process", "elements", "shape", "flows"}, NEW next, NEW error \in Errors, NEW holds,
             Check(here, holds, next, error),
             <<here, next>> \in {<<"process", "elements">>, <<"elements", "shape">>,
                                 <<"shape", "flows">>, <<"flows", "degrees">>},
             here = "process" /\ holds => OneProcess(model),
             here = "elements" /\ holds => AllSupported(model),
             here = "shape" /\ holds => OneStartOneEnd(model),
             here = "flows" /\ holds => FlowsConnect(model)
      PROVE  Inv'
  <2>1. /\ stage = here /\ model' = model /\ visited' = visited /\ cursor' = cursor
        /\ holds => stage' = next
        /\ ~holds => stage' = error
    BY <1>1 DEF Check
  <2>2. CASE holds
    BY <1>1, <2>1, <2>2 DEF Inv, TypeOK
  <2>3. CASE ~holds
    BY <1>1, <2>1, <2>3 DEF Inv, TypeOK, Errors, Verdicts
  <2> QED
    BY <2>2, <2>3
<1>2. CASE CheckProcess
  BY <1>1, <1>2 DEF CheckProcess, Errors
<1>3. CASE CheckElements
  BY <1>1, <1>3 DEF CheckElements, Errors
<1>4. CASE CheckShape
  BY <1>1, <1>4 DEF CheckShape, Errors
<1>5. CASE CheckFlows
  BY <1>1, <1>5 DEF CheckFlows, Errors
<1>6. CASE CheckDegrees
  <2>1. /\ stage = "degrees" /\ model' = model /\ visited' = visited /\ visited = <<>>
        /\ model \in Models /\ OneStartOneEnd(model)
    BY <1>6 DEF CheckDegrees, Inv, TypeOK
  <2>2. StartOf(model) \in model.nodes
    BY <2>1, TheStart
  <2>3. CASE Unbranched(model)
    <3>1. stage' = "walk" /\ cursor' = StartOf(model)
      BY <1>6, <2>3 DEF CheckDegrees
    <3>2. Trail'
      BY <2>1, <3>1 DEF Trail
    <3> QED
      BY <2>1, <2>2, <2>3, <3>1, <3>2 DEF Inv, TypeOK
  <2>4. CASE ~Unbranched(model)
    <3>1. stage' = "NON_LINEAR_RUNTIME_FLOW" /\ cursor' = None
      BY <1>6, <2>4 DEF CheckDegrees
    <3> QED
      BY <2>1, <3>1 DEF Inv, TypeOK, Errors, Verdicts
  <2> QED
    BY <2>3, <2>4
<1>7. CASE Walk
  <2>1. stage = "walk" /\ stage' = stage /\ model' = model
    BY <1>7 DEF Walk
  <2>2. TypeOK' /\ Trail'
    BY <1>7, <2>1, WalkKeepsTrail DEF Inv
  <2> QED
    BY <2>1, <2>2 DEF Inv
<1>8. CASE EndWalk
  <2>1. /\ stage = "walk" /\ model' = model /\ visited' = visited /\ cursor' = cursor
        /\ ReachedAll => stage' = "bindings"
        /\ ~ReachedAll => stage' = "NON_LINEAR_RUNTIME_FLOW"
    BY <1>8 DEF EndWalk
  <2>2. (Trail' <=> Trail) /\ (ReachedAll' <=> ReachedAll)
    BY <2>1 DEF Trail, ReachedAll, Visited
  <2> QED
    BY <2>1, <2>2 DEF Inv, TypeOK, Errors, Verdicts
<1>9. CASE CheckBindings
  <2>1. /\ stage = "bindings" /\ model' = model /\ visited' = visited /\ cursor' = cursor
        /\ AllBound(model) => stage' = "ACCEPTED"
        /\ ~AllBound(model) => stage' = "BINDING_REQUIRED"
    BY <1>9 DEF CheckBindings, Check
  <2>2. (Trail' <=> Trail) /\ (ReachedAll' <=> ReachedAll)
    BY <2>1 DEF Trail, ReachedAll, Visited
  <2> QED
    BY <2>1, <2>2 DEF Inv, TypeOK, Errors, Verdicts
<1>10. CASE UNCHANGED vars
  <2>1. model' = model /\ stage' = stage /\ visited' = visited /\ cursor' = cursor
    BY <1>10 DEF vars
  <2> QED
    BY <2>1 DEF Inv, TypeOK, Trail, ReachedAll, Visited
<1> QED
  BY <1>2, <1>3, <1>4, <1>5, <1>6, <1>7, <1>8, <1>9, <1>10 DEF Next, Done

\* Every variable keeps its type; the walk visits elements of the model only.
THEOREM TypeCorrect == Spec => []TypeOK
<1>1. Inv => TypeOK
  BY DEF Inv
<1> QED
  BY InitInv, StepInv, <1>1, PTL DEF Spec

-----------------------------------------------------------------------------
(* The walk goes forward.                                                   *)

\* Where the walk can come from: along a flow, of which there is one at most.
LEMMA SuccessorIsTarget ==
  ASSUME NEW m \in Models, Unbranched(m), NEW n \in m.nodes, Successor(m, n) # None
  PROVE  \E f \in Incoming(m, Successor(m, n)) : m.flows[f].source = n
<1>1. m.kind[n] # "end"
  BY Degrees DEF Successor
<1>2. PICK f : Outgoing(m, n) = {f}
  BY <1>1, Degrees
<1>3. f \in DOMAIN m.flows /\ f \in Nat /\ m.flows[f].source = n
  <2>1. m.flows \in Seq(Flow)
    BY ModelFacts
  <2>2. f \in Outgoing(m, n)
    BY <1>2
  <2> QED
    BY <2>1, <2>2 DEF Outgoing
<1>4. Successor(m, n) = m.flows[f].target
  BY <1>2, <1>3, SingleSuccessor
<1> QED
  BY <1>3, <1>4 DEF Incoming

\* The walk never comes back to an element it has visited (assertRuntimeProfile,
\* while): the start has no incoming flow, and any other element only one.
THEOREM NeverReturns == Spec => []WalkNeverReturns
<1>1. Inv => WalkNeverReturns
  <2> SUFFICES ASSUME Inv, stage = "walk", cursor \in Visited
               PROVE  FALSE
    BY DEF WalkNeverReturns
  <2> DEFINE n == Len(visited)
  <2>1. /\ model \in Models /\ visited \in Seq(model.nodes)
        /\ OneStartOneEnd(model) /\ Unbranched(model) /\ Trail
    BY DEF Inv, TypeOK, Checks, AfterProcess, AfterElements, AfterShape, AfterFlows, AfterDegrees
  <2>2. PICK i \in 1..n : visited[i] = cursor
    BY <2>1 DEF Visited
  <2>3. /\ n \in Nat /\ 1 \in 1..n /\ n \in 1..n /\ visited # <<>>
        /\ \A j \in 1..n : visited[j] \in model.nodes
    BY <2>1, <2>2
  <2>4. cursor \in model.nodes /\ cursor # None /\ cursor = Successor(model, visited[n])
    BY <2>1, <2>2, <2>3, ModelFacts DEF Trail
  <2>5. PICK f \in Incoming(model, cursor) : model.flows[f].source = visited[n]
    BY <2>1, <2>3, <2>4, SuccessorIsTarget
  <2>6. CASE i = 1
    <3>1. cursor = StartOf(model) /\ model.kind[cursor] = "start"
      BY <2>1, <2>2, <2>3, <2>6, TheStart DEF Trail
    <3> QED
      BY <2>1, <2>4, <2>5, <3>1, Degrees
  <2>7. CASE i # 1
    <3>1. i - 1 \in 1..(n - 1) /\ i - 1 \in 1..n /\ (i - 1) + 1 = i
      BY <2>2, <2>3, <2>7
    <3>2. cursor = Successor(model, visited[i - 1])
      BY <2>1, <2>2, <3>1 DEF Trail
    <3>3. PICK g \in Incoming(model, cursor) : model.flows[g].source = visited[i - 1]
      BY <2>1, <2>3, <2>4, <3>1, <3>2, SuccessorIsTarget
    <3>4. f = g
      BY <2>1, <2>4, <2>5, <3>3, Degrees
    <3>5. i - 1 = n
      BY <2>1, <2>3, <2>5, <3>1, <3>3, <3>4 DEF Trail
    <3> QED
      BY <2>2, <2>3, <3>5
  <2> QED
    BY <2>6, <2>7
<1> QED
  BY <1>1, InitInv, StepInv, PTL DEF Spec
-----------------------------------------------------------------------------
(* Accepted models are lines.                                               *)

\* When the walk has reached every element and come to an end, the order of
\* its visits arranges the model.
LEMMA AcceptedIsLine == Inv /\ stage = "ACCEPTED" => OneProcess(model) /\ IsLine(model)
<1> SUFFICES ASSUME Inv, stage = "ACCEPTED"
             PROVE  OneProcess(model) /\ IsLine(model)
  OBVIOUS
<1> DEFINE n == Len(visited)
           p == [i \in 1..n |-> visited[i]]
<1>1. /\ OneProcess(model) /\ AllSupported(model) /\ OneStartOneEnd(model)
      /\ FlowsConnect(model) /\ Unbranched(model) /\ Trail /\ ReachedAll /\ AllBound(model)
      /\ model \in Models /\ visited \in Seq(model.nodes)
  <2>1. /\ stage \in AfterProcess /\ stage \in AfterElements /\ stage \in AfterShape
        /\ stage \in AfterFlows /\ stage \in AfterDegrees /\ stage \in AfterWalk
    BY DEF Checks, AfterProcess, AfterElements, AfterShape, AfterFlows, AfterDegrees, AfterWalk
  <2> QED
    BY <2>1 DEF Inv, TypeOK
<1>2. /\ model.nodes \subseteq Elements /\ None \notin model.nodes
      /\ model.kind \in [model.nodes -> Kind]
      /\ model.flows \in Seq(Flow)
      /\ IsFiniteSet(model.nodes)
  BY <1>1, ModelFacts
<1>3. n \in Nat /\ DOMAIN visited = 1..n /\ \A i \in 1..n : visited[i] \in model.nodes
  BY <1>1
<1>4. Visited = model.nodes
  <2>1. Visited \in SUBSET model.nodes
    BY <1>3 DEF Visited
  <2> QED
    BY <1>1, <1>2, <2>1, FS_Subset DEF ReachedAll
<1>5. /\ \A e \in model.nodes : \E i \in 1..n : p[i] = e
      /\ \A i, j \in 1..n : p[i] = p[j] => i = j
      /\ p \in [1..n -> model.nodes]
  BY <1>1, <1>3, <1>4 DEF Visited, Trail
<1>6. StartOf(model) \in model.nodes /\ model.kind[StartOf(model)] = "start"
      /\ \A e \in model.nodes : model.kind[e] = "start" => e = StartOf(model)
  BY <1>1, TheStart
<1>7. /\ n >= 1
      /\ p[1] = StartOf(model)
      /\ Successor(model, p[n]) = None
  <2>1. n >= 1 /\ visited # <<>>
    BY <1>3, <1>5, <1>6
  <2> QED
    BY <1>1, <1>3, <2>1 DEF Trail, ReachedAll
<1>8. model.kind[p[n]] = "end"
  <2>1. p[n] \in model.nodes
    BY <1>3, <1>5, <1>7
  <2> QED
    BY <1>1, <1>7, <2>1, SuccessorType
<1>9. n >= 2
  BY <1>3, <1>6, <1>7, <1>8
<1>10. \A i \in 1..(n - 1) : p[i + 1] = Successor(model, p[i]) /\ p[i + 1] \in model.nodes
  BY <1>1, <1>3, <1>5 DEF Trail
<1>11. \A i \in 1..(n - 1) : model.kind[p[i]] # "end"
  <2> SUFFICES ASSUME NEW i \in 1..(n - 1) PROVE model.kind[p[i]] # "end"
    OBVIOUS
  <2>1. p[i] \in model.nodes
    BY <1>3, <1>5
  <2>2. Successor(model, p[i]) # None
    BY <1>2, <1>10
  <2> QED
    BY <1>1, <2>1, <2>2, SuccessorType
<1>12. \A i \in 2..(n - 1) : model.kind[p[i]] = "step"
  <2> SUFFICES ASSUME NEW i \in 2..(n - 1) PROVE model.kind[p[i]] = "step"
    OBVIOUS
  <2>1. p[i] \in model.nodes /\ p[i] # p[1] /\ i \in 1..(n - 1)
    BY <1>3, <1>5, <1>9
  <2>2. model.kind[p[i]] # "start" /\ model.kind[p[i]] # "end"
    BY <1>6, <1>7, <1>11, <2>1
  <2>3. model.kind[p[i]] # "unbound" /\ model.kind[p[i]] # "unsupported"
    BY <1>1, <2>1 DEF AllBound, AllSupported, OfKind
  <2> QED
    BY <1>2, <2>1, <2>2, <2>3 DEF Kind
<1>13. \A i \in 1..(n - 1) : \E f \in DOMAIN model.flows :
         Outgoing(model, p[i]) = {f} /\ model.flows[f] = [source |-> p[i], target |-> p[i + 1]]
  <2> SUFFICES ASSUME NEW i \in 1..(n - 1)
               PROVE  \E f \in DOMAIN model.flows :
                        Outgoing(model, p[i]) = {f} /\ model.flows[f] = [source |-> p[i], target |-> p[i + 1]]
    OBVIOUS
  <2>1. p[i] \in model.nodes
    BY <1>3, <1>5
  <2>2. PICK f : Outgoing(model, p[i]) = {f}
    BY <1>1, <1>11, <2>1, Degrees
  <2>3. f \in DOMAIN model.flows /\ f \in Nat /\ model.flows[f].source = p[i] /\ model.flows[f] \in Flow
    <3>1. f \in Outgoing(model, p[i])
      BY <2>2
    <3> QED
      BY <1>2, <3>1 DEF Outgoing
  <2>4. Successor(model, p[i]) = model.flows[f].target
    BY <2>2, <2>3, SingleSuccessor
  <2>5. model.flows[f] = [source |-> p[i], target |-> p[i + 1]]
    BY <1>10, <2>3, <2>4 DEF Flow
  <2> QED
    BY <2>2, <2>3, <2>5
<1>14. \A f \in DOMAIN model.flows : \E i \in 1..(n - 1) : model.flows[f] = [source |-> p[i], target |-> p[i + 1]]
  <2> SUFFICES ASSUME NEW f \in DOMAIN model.flows
               PROVE  \E i \in 1..(n - 1) : model.flows[f] = [source |-> p[i], target |-> p[i + 1]]
    OBVIOUS
  <2>1. model.flows[f].source \in model.nodes
    BY <1>1 DEF FlowsConnect
  <2>2. PICK i \in 1..n : p[i] = model.flows[f].source
    BY <1>5, <2>1
  <2>3. f \in Outgoing(model, p[i])
    BY <2>2 DEF Outgoing
  <2>4. i # n
    <3>1. Outgoing(model, p[n]) = {}
      <4>1. p[n] \in model.nodes
        BY <1>3, <1>5, <1>7
      <4> QED
        BY <1>1, <1>8, <4>1, Degrees
    <3> QED
      BY <2>3, <3>1
  <2>5. i \in 1..(n - 1)
    <3>1. n \in Nat
      BY <1>3
    <3> HIDE DEF n
    <3> QED
      BY <2>4, <3>1
  <2> QED
    BY <1>13, <2>3, <2>5
<1>15. \A i \in 1..(n - 1) : \E f \in DOMAIN model.flows :
         \A g \in DOMAIN model.flows : model.flows[g] = [source |-> p[i], target |-> p[i + 1]] <=> g = f
  <2> SUFFICES ASSUME NEW i \in 1..(n - 1)
               PROVE  \E f \in DOMAIN model.flows :
                 \A g \in DOMAIN model.flows : model.flows[g] = [source |-> p[i], target |-> p[i + 1]] <=> g = f
    OBVIOUS
  <2>1. PICK f \in DOMAIN model.flows :
          Outgoing(model, p[i]) = {f} /\ model.flows[f] = [source |-> p[i], target |-> p[i + 1]]
    BY <1>13
  <2>2. \A g \in DOMAIN model.flows :
          model.flows[g] = [source |-> p[i], target |-> p[i + 1]] => g \in Outgoing(model, p[i])
    BY DEF Outgoing
  <2> QED
    BY <2>1, <2>2
<1>16. Arranges(model, p, n)
  BY <1>5, <1>6, <1>7, <1>8, <1>9, <1>12, <1>14, <1>15 DEF Arranges
<1>17. n \in 0..Cardinality(model.nodes)
  <2>1. p \in Injection(1..n, model.nodes)
    BY <1>5 DEF Injection, IsInjective
  <2>2. Cardinality(1..n) <= Cardinality(model.nodes)
    BY <1>2, <2>1, FS_Injection
  <2>3. Cardinality(1..n) = n
    <3>1. 1 \in Int /\ n \in Int
      BY <1>3
    <3>2. Cardinality(1..n) = IF 1 > n THEN 0 ELSE n - 1 + 1
      BY <3>1, FS_Interval
    <3> QED
      BY <1>3, <3>2
  <2>4. Cardinality(model.nodes) \in Nat
    BY <1>2, FS_CardinalityType
  <2> QED
    BY <1>3, <2>2, <2>3, <2>4
<1> QED
  BY <1>1, <1>5, <1>16, <1>17 DEF IsLine

-----------------------------------------------------------------------------
(* Lines are accepted.                                                      *)

\* An arranged model passes every check, and its successors follow the
\* arrangement.
LEMMA LineFacts ==
  ASSUME NEW m \in Models, NEW n \in Nat, NEW p, Arranges(m, p, n)
  PROVE  /\ AllSupported(m) /\ OneStartOneEnd(m) /\ FlowsConnect(m) /\ Unbranched(m) /\ AllBound(m)
         /\ StartOf(m) = p[1]
         /\ \A i \in 1..(n - 1) : Successor(m, p[i]) = p[i + 1]
         /\ Successor(m, p[n]) = None
<1>1. /\ n >= 2
      /\ p \in [1..n -> m.nodes]
      /\ \A e \in m.nodes : \E i \in 1..n : p[i] = e
      /\ \A i, j \in 1..n : p[i] = p[j] => i = j
      /\ m.kind[p[1]] = "start"
      /\ m.kind[p[n]] = "end"
      /\ \A i \in 2..(n - 1) : m.kind[p[i]] = "step"
      /\ \A f \in DOMAIN m.flows : \E i \in 1..(n - 1) : m.flows[f] = [source |-> p[i], target |-> p[i + 1]]
      /\ \A i \in 1..(n - 1) : \E f \in DOMAIN m.flows :
           \A g \in DOMAIN m.flows : m.flows[g] = [source |-> p[i], target |-> p[i + 1]] <=> g = f
  BY DEF Arranges
<1>2. \A i \in 1..n : p[i] \in m.nodes
  BY <1>1
<1>3. \A i \in 1..n : /\ m.kind[p[i]] = "start" <=> i = 1
                      /\ m.kind[p[i]] = "end" <=> i = n
                      /\ m.kind[p[i]] \in {"start", "end", "step"}
  BY <1>1
<1>4. AllSupported(m) /\ AllBound(m)
  <2>1. \A e \in m.nodes : m.kind[e] # "unsupported" /\ m.kind[e] # "unbound"
    BY <1>1, <1>3
  <2> QED
    BY <2>1 DEF AllSupported, AllBound, OfKind
<1>5. OneStartOneEnd(m)
  <2>1. OfKind(m, "start") = {p[1]} /\ OfKind(m, "end") = {p[n]}
    <3>1. 1 \in 1..n /\ n \in 1..n
      BY <1>1
    <3>2. \A e \in m.nodes : (m.kind[e] = "start" <=> e = p[1]) /\ (m.kind[e] = "end" <=> e = p[n])
      BY <1>1, <1>3, <3>1
    <3> QED
      BY <1>2, <3>1, <3>2 DEF OfKind
  <2> QED
    BY <2>1, FS_Singleton DEF OneStartOneEnd
<1>6. FlowsConnect(m)
  <2> SUFFICES ASSUME NEW f \in DOMAIN m.flows
               PROVE  m.flows[f].source \in m.nodes /\ m.flows[f].target \in m.nodes
    BY DEF FlowsConnect
  <2>1. PICK i \in 1..(n - 1) : m.flows[f] = [source |-> p[i], target |-> p[i + 1]]
    BY <1>1
  <2>2. i \in 1..n /\ i + 1 \in 1..n
    BY <1>1
  <2> QED
    BY <1>2, <2>1, <2>2
<1>7. \A i \in 1..(n - 1) : \E f \in DOMAIN m.flows :
        /\ Outgoing(m, p[i]) = {f}
        /\ Incoming(m, p[i + 1]) = {f}
        /\ m.flows[f] = [source |-> p[i], target |-> p[i + 1]]
  <2> SUFFICES ASSUME NEW i \in 1..(n - 1)
               PROVE  \E f \in DOMAIN m.flows :
                        /\ Outgoing(m, p[i]) = {f}
                        /\ Incoming(m, p[i + 1]) = {f}
                        /\ m.flows[f] = [source |-> p[i], target |-> p[i + 1]]
    OBVIOUS
  <2>1. PICK f \in DOMAIN m.flows :
          \A g \in DOMAIN m.flows : m.flows[g] = [source |-> p[i], target |-> p[i + 1]] <=> g = f
    BY <1>1
  <2>2. m.flows[f] = [source |-> p[i], target |-> p[i + 1]]
    BY <2>1
  <2>3. ASSUME NEW g \in DOMAIN m.flows, m.flows[g].source = p[i] \/ m.flows[g].target = p[i + 1]
        PROVE  g = f
    <3>1. PICK j \in 1..(n - 1) : m.flows[g] = [source |-> p[j], target |-> p[j + 1]]
      BY <1>1
    <3>2. i \in 1..n /\ j \in 1..n /\ i + 1 \in 1..n /\ j + 1 \in 1..n
      BY <1>1
    <3>3. i = j
      <4>1. CASE p[i] = p[j]
        BY <1>1, <3>2, <4>1
      <4>2. CASE p[i + 1] = p[j + 1]
        <5>1. i + 1 = j + 1
          BY <1>1, <3>2, <4>2
        <5> QED
          BY <3>2, <5>1
      <4> QED
        BY <2>3, <3>1, <4>1, <4>2
    <3> QED
      BY <2>1, <3>1, <3>3
  <2>4. Outgoing(m, p[i]) = {f}
    BY <2>2, <2>3 DEF Outgoing
  <2>5. Incoming(m, p[i + 1]) = {f}
    BY <2>2, <2>3 DEF Incoming
  <2> QED
    BY <2>2, <2>4, <2>5
<1>8. Incoming(m, p[1]) = {}
  <2> SUFFICES ASSUME NEW f \in DOMAIN m.flows, m.flows[f].target = p[1]
               PROVE  FALSE
    BY DEF Incoming
  <2>1. PICK j \in 1..(n - 1) : m.flows[f] = [source |-> p[j], target |-> p[j + 1]]
    BY <1>1
  <2>2. 1 \in 1..n /\ j + 1 \in 1..n /\ j + 1 # 1
    BY <1>1
  <2> QED
    BY <1>1, <2>1, <2>2
<1>9. Outgoing(m, p[n]) = {}
  <2> SUFFICES ASSUME NEW f \in DOMAIN m.flows, m.flows[f].source = p[n]
               PROVE  FALSE
    BY DEF Outgoing
  <2>1. PICK j \in 1..(n - 1) : m.flows[f] = [source |-> p[j], target |-> p[j + 1]]
    BY <1>1
  <2>2. n \in 1..n /\ j \in 1..n /\ j # n
    BY <1>1
  <2> QED
    BY <1>1, <2>1, <2>2
<1>10. Unbranched(m)
  <2>1. ASSUME NEW e \in m.nodes
        PROVE  /\ m.kind[e] = "start" => Incoming(m, e) = {}
               /\ m.kind[e] # "start" => \E i : Incoming(m, e) = {i}
               /\ m.kind[e] = "end" => Outgoing(m, e) = {}
               /\ m.kind[e] # "end" => \E i : Outgoing(m, e) = {i}
    <3>1. PICK i \in 1..n : p[i] = e
      BY <1>1
    <3>2. CASE i = 1
      <4>1. 1 \in 1..(n - 1)
        BY <1>1
      <4>2. \E f : Outgoing(m, p[1]) = {f}
        BY <1>7, <4>1
      <4> QED
        BY <1>1, <1>3, <1>8, <3>1, <3>2, <4>2
    <3>3. CASE i # 1
      <4>1. i - 1 \in 1..(n - 1) /\ (i - 1) + 1 = i
        BY <3>3
      <4>2. \E f : Incoming(m, p[i]) = {f}
        BY <1>7, <4>1
      <4>3. CASE i = n
        BY <1>3, <1>9, <3>1, <3>3, <4>2, <4>3
      <4>4. CASE i # n
        <5>1. i \in 1..(n - 1)
          BY <4>4
        <5>2. \E f : Outgoing(m, p[i]) = {f}
          BY <1>7, <5>1
        <5> QED
          BY <1>3, <3>1, <3>3, <4>2, <4>4, <5>2
      <4> QED
        BY <4>3, <4>4
    <3> QED
      BY <3>2, <3>3
  <2> QED
    BY <2>1, DegreesSuffice
<1>11. StartOf(m) = p[1]
  <2>1. p[1] \in m.nodes
    BY <1>1, <1>2
  <2> QED
    BY <1>1, <1>5, <2>1, TheStart
<1>12. \A i \in 1..(n - 1) : Successor(m, p[i]) = p[i + 1]
  <2> SUFFICES ASSUME NEW i \in 1..(n - 1) PROVE Successor(m, p[i]) = p[i + 1]
    OBVIOUS
  <2>1. PICK f \in DOMAIN m.flows :
          Outgoing(m, p[i]) = {f} /\ m.flows[f] = [source |-> p[i], target |-> p[i + 1]]
    BY <1>7
  <2>2. f \in Nat
    <3>1. m.flows \in Seq(Flow)
      BY ModelFacts
    <3> QED
      BY <3>1
  <2> QED
    BY <2>1, <2>2, SingleSuccessor
<1>13. Successor(m, p[n]) = None
  BY <1>9 DEF Successor
<1> QED
  BY <1>4, <1>5, <1>6, <1>10, <1>11, <1>12, <1>13

\* The walk of an arranged model is a prefix of the arrangement, and no check
\* rejects it.
Follows(p, n) ==
  /\ stage \in Checks \cup {"ACCEPTED"}
  /\ Len(visited) <= n
  /\ \A i \in 1..Len(visited) : visited[i] = p[i]
  /\ stage = "walk" => cursor = IF Len(visited) < n THEN p[Len(visited) + 1] ELSE None

LineInv == OneProcess(model) => \A n \in Nat : \A p : Arranges(model, p, n) => Follows(p, n)

LEMMA InitLineInv == Init => LineInv
<1> SUFFICES ASSUME Init, NEW n \in Nat, NEW p, Arranges(model, p, n)
             PROVE  Follows(p, n)
  BY DEF LineInv
<1> QED
  BY DEF Init, Follows, Checks, Arranges

LEMMA StepLineInv == Inv /\ LineInv /\ [Next]_vars => LineInv'
<1> SUFFICES ASSUME Inv, LineInv, [Next]_vars PROVE LineInv'
  OBVIOUS
<1>1. model' = model
  BY DEF Next, vars, CheckProcess, CheckElements, CheckShape, CheckFlows, CheckDegrees, Walk, EndWalk,
         CheckBindings, Check, Done
<1> SUFFICES ASSUME OneProcess(model), NEW n \in Nat, NEW p, Arranges(model, p, n)
             PROVE  Follows(p, n)'
  BY <1>1 DEF LineInv
<1>2. Follows(p, n)
  BY DEF LineInv
<1>3. model \in Models /\ visited \in Seq(model.nodes)
  BY DEF Inv, TypeOK
<1>4. /\ AllSupported(model) /\ OneStartOneEnd(model) /\ FlowsConnect(model) /\ Unbranched(model)
      /\ AllBound(model)
      /\ StartOf(model) = p[1]
      /\ \A i \in 1..(n - 1) : Successor(model, p[i]) = p[i + 1]
      /\ Successor(model, p[n]) = None
  BY <1>3, LineFacts
<1>5. /\ n >= 2
      /\ p \in [1..n -> model.nodes]
      /\ \A e \in model.nodes : \E i \in 1..n : p[i] = e
      /\ \A i, j \in 1..n : p[i] = p[j] => i = j
  BY DEF Arranges
<1>6. \A i \in 1..n : p[i] # None
  BY <1>3, <1>5, ModelFacts
<1>7. CASE CheckProcess \/ CheckElements \/ CheckShape \/ CheckFlows \/ CheckBindings
  <2>1. /\ visited' = visited /\ cursor' = cursor
        /\ stage' \in {"elements", "shape", "flows", "degrees", "ACCEPTED"}
    BY <1>4, <1>7 DEF CheckProcess, CheckElements, CheckShape, CheckFlows, CheckBindings, Check
  <2> QED
    BY <1>2, <2>1 DEF Follows, Checks
<1>8. CASE CheckDegrees
  <2>1. stage = "degrees" /\ stage' = "walk" /\ cursor' = p[1] /\ visited' = visited
    BY <1>4, <1>8 DEF CheckDegrees
  <2>2. visited = <<>>
    BY <2>1 DEF Inv, Checks, AfterProcess, AfterElements, AfterShape, AfterFlows, AfterDegrees
  <2> QED
    BY <1>5, <2>1, <2>2 DEF Follows, Checks
<1>9. CASE Walk
  <2> DEFINE k == Len(visited)
  <2>1. /\ stage = "walk" /\ stage' = stage /\ cursor # None
        /\ visited' = Append(visited, cursor) /\ cursor' = Successor(model, cursor)
    BY <1>9 DEF Walk, Ahead
  <2>2. k \in Nat /\ k < n /\ cursor = p[k + 1] /\ cursor \in model.nodes
    BY <1>2, <1>3, <2>1 DEF Follows, Inv, TypeOK
  <2>3. /\ Len(visited') = k + 1
        /\ \A i \in 1..k : visited'[i] = visited[i]
        /\ visited'[k + 1] = p[k + 1]
    BY <1>3, <2>1, <2>2
  <2>4. \A i \in 1..(k + 1) : visited'[i] = p[i]
    BY <1>2, <2>2, <2>3 DEF Follows
  <2>5. cursor' = IF k + 1 < n THEN p[(k + 1) + 1] ELSE None
    <3>1. CASE k + 1 < n
      <4>1. k + 1 \in 1..(n - 1)
        BY <2>2, <3>1
      <4> QED
        BY <1>4, <2>1, <2>2, <3>1, <4>1
    <3>2. CASE ~(k + 1 < n)
      <4>1. k + 1 = n
        BY <2>2, <3>2
      <4> QED
        BY <1>4, <2>1, <2>2, <3>2, <4>1
    <3> QED
      BY <3>1, <3>2
  <2> QED
    BY <2>1, <2>2, <2>3, <2>4, <2>5 DEF Follows, Checks
<1>10. CASE EndWalk
  <2> DEFINE k == Len(visited)
  <2>1. /\ stage = "walk" /\ visited' = visited /\ cursor' = cursor
        /\ stage' = IF ReachedAll THEN "bindings" ELSE "NON_LINEAR_RUNTIME_FLOW"
        /\ cursor = None \/ cursor \in Visited
    BY <1>10 DEF EndWalk, Ahead
  <2>2. k \in Nat /\ k <= n /\ cursor = IF k < n THEN p[k + 1] ELSE None
    BY <1>2, <1>3, <2>1 DEF Follows
  <2>3. k = n
    <3> SUFFICES ASSUME k < n PROVE FALSE
      BY <2>2
    <3>1. cursor = p[k + 1] /\ k + 1 \in 1..n
      BY <2>2
    <3>2. PICK i \in 1..k : visited[i] = cursor
      BY <1>3, <1>6, <2>1, <3>1 DEF Visited
    <3>3. p[i] = p[k + 1] /\ i \in 1..n /\ i # k + 1
      BY <1>2, <2>2, <3>1, <3>2 DEF Follows
    <3> QED
      BY <1>5, <3>1, <3>3
  <2>4. Visited = model.nodes
    <3>1. DOMAIN visited = 1..n /\ \A i \in 1..n : visited[i] = p[i]
      BY <1>2, <1>3, <2>3 DEF Follows
    <3> QED
      BY <1>5, <3>1 DEF Visited
  <2>5. ReachedAll
    BY <2>2, <2>3, <2>4 DEF ReachedAll
  <2> QED
    BY <1>2, <2>1, <2>5 DEF Follows, Checks
<1>11. CASE UNCHANGED vars
  BY <1>2, <1>11 DEF vars, Follows
<1> QED
  BY <1>7, <1>8, <1>9, <1>10, <1>11 DEF Next, Done

\* A verdict on a line is no error.
LEMMA LineIsAccepted ==
  Inv /\ LineInv /\ stage \in Verdicts /\ OneProcess(model) /\ IsLine(model) => stage = "ACCEPTED"
<1> SUFFICES ASSUME Inv, LineInv, stage \in Verdicts, OneProcess(model), IsLine(model)
             PROVE  stage = "ACCEPTED"
  OBVIOUS
<1>1. model \in Models
  BY DEF Inv, TypeOK
<1>2. Cardinality(model.nodes) \in Nat
  BY <1>1, ModelFacts, FS_CardinalityType
<1>3. PICK n \in 0..Cardinality(model.nodes) : \E p \in [1..n -> model.nodes] : Arranges(model, p, n)
  BY DEF IsLine
<1>4. PICK p : Arranges(model, p, n)
  BY <1>3
<1>5. n \in Nat
  BY <1>2
<1>6. Follows(p, n)
  BY <1>4, <1>5 DEF LineInv
<1> QED
  BY <1>6 DEF Follows, Verdicts, Errors, Checks

\* The profile accepts a model exactly when it is one executable process whose
\* elements form one line (assertRuntimeProfile).
THEOREM Profile == Spec => []AcceptsExactlyLines
<1>1. Init => Inv /\ LineInv
  BY InitInv, InitLineInv
<1>2. Inv /\ LineInv /\ [Next]_vars => (Inv /\ LineInv)'
  BY StepInv, StepLineInv
<1>3. Inv /\ LineInv => AcceptsExactlyLines
  BY AcceptedIsLine, LineIsAccepted DEF AcceptsExactlyLines
<1> QED
  BY <1>1, <1>2, <1>3, PTL DEF Spec

-----------------------------------------------------------------------------
(* The bindings of elements.                                                *)

LEMMA NoContract ==
  /\ None # Error
  /\ \A a \in Bindings!Words : <<a>> \notin {None, Error}
  /\ \A a, b \in Bindings!Words : <<a, b>> \notin {None, Error}
  /\ \A a, b, c \in Bindings!Words : <<a, b, c>> \notin {None, Error}
  /\ \A a, b, c, d \in Bindings!Words : <<a, b, c, d>> \notin {None, Error}
<1>1. None # Error /\ \A s \in Seq(Bindings!Words) : s # None /\ s # Error
  BY BindingsAssumption DEF Bindings!ContractsApart
<1>2. /\ \A a \in Bindings!Words : <<a>> \in Seq(Bindings!Words)
      /\ \A a, b \in Bindings!Words : <<a, b>> \in Seq(Bindings!Words)
      /\ \A a, b, c \in Bindings!Words : <<a, b, c>> \in Seq(Bindings!Words)
      /\ \A a, b, c, d \in Bindings!Words : <<a, b, c, d>> \in Seq(Bindings!Words)
  OBVIOUS
<1> QED
  BY <1>1, <1>2

\* Where every element has the count that the profile compares, each has a
\* binding.
LEMMA AllCounted ==
  ASSUME Bindings!Model = Bindings!Executable, NEW type, Bindings!Counted(type, v3)
  PROVE  \A e \in Bindings!Executable : e.type = type => Bindings!Listed(e, v3) \ {None} # {}
<1> DEFINE bound == Bindings!Bound(Bindings!Model, type, v3)
           all == {e \in Bindings!Executable : e.type = type}
<1>1. bound \subseteq all
  BY DEF Bindings!Bound
<1>2. IsFiniteSet(all)
  <2>1. IsFiniteSet({v1} \cup {v2})
    BY FS_Singleton, FS_Union
  <2>2. all \subseteq {v1} \cup {v2}
    BY DEF Bindings!Executable, Bindings!Model
  <2> QED
    BY <2>1, <2>2, FS_Subset
<1>3. Cardinality(bound) = Cardinality(all)
  <2>1. Bindings!Cardinality(bound) = Bindings!Cardinality(all)
    BY Zenon DEF Bindings!Counted
  <2>2. \A S : Bindings!Cardinality(S) = Cardinality(S)
    BY Zenon DEF Bindings!Cardinality, Cardinality
  <2> QED
    BY <2>1, <2>2
<1>4. bound = all
  <2> HIDE DEF bound, all
  <2> QED
    BY <1>1, <1>2, <1>3, FS_Subset
<1> QED
  BY <1>4 DEF Bindings!Bound

LEMMA BoundWaits ==
  ASSUME v1 \in Bindings!Element, v2 \in Bindings!Element \cup {None}
  PROVE  Bindings!WaitsAreBound
<1> SUFFICES ASSUME Bindings!Model = Bindings!Executable, Bindings!Startable(v3),
                    NEW e \in Bindings!Executable, e.type # "UserTask"
             PROVE  Bindings!Run(e, v3) \notin {None, Error}
  BY DEF Bindings!WaitsAreBound, Bindings!Served
<1>1. Error \notin Bindings!Listed(e, v3)
  BY DEF Bindings!Startable, Bindings!Valid, Bindings!Executable
<1>2. e.type \in Bindings!Types
  BY DEF Bindings!Executable, Bindings!Model, Bindings!Element
<1>3. e.type \in {"BusinessRuleTask", "IntermediateCatchEvent", "IntermediateThrowEvent"} =>
        Bindings!Listed(e, v3) \ {None} # {}
  BY AllCounted DEF Bindings!Startable
<1>4. CASE e.type = "ServiceTask"
  <2>1. Bindings!JobOf(e) # Error
    BY <1>1, <1>4 DEF Bindings!Listed
  <2>2. Bindings!JobOf(e) =
          <<e.attr["key"], e.attr["mapping"], Bindings!Limit(e.attr["limits"]), Bindings!Limit(e.attr["attempts"])>>
    BY <2>1 DEF Bindings!JobOf
  <2>3. /\ e.attr["key"] \in Bindings!Words /\ e.attr["mapping"] \in Bindings!Words
        /\ Bindings!Limit(e.attr["limits"]) \in Bindings!Words /\ Bindings!Limit(e.attr["attempts"]) \in Bindings!Words
    BY <2>1 DEF Bindings!JobOf, Bindings!Good, Bindings!Mapping, Bindings!Words, Bindings!Text
  <2> QED
    BY <1>4, <2>1, <2>2, <2>3, NoContract DEF Bindings!Run
<1>5. CASE e.type = "BusinessRuleTask"
  <2>1. Bindings!Listed(e, v3) = {Bindings!DecisionOf(e)}
    BY <1>5 DEF Bindings!Listed
  <2> QED
    BY <1>1, <1>3, <1>5, <2>1 DEF Bindings!Run
<1>6. CASE e.type = "IntermediateCatchEvent"
  <2>1. Bindings!Listed(e, v3) = {Bindings!TimerOf(e), Bindings!MessageOf(e, v3)}
    BY <1>6 DEF Bindings!Listed
  <2>2. Bindings!Run(e, v3) = IF Bindings!TimerOf(e) # None THEN Bindings!TimerOf(e) ELSE Bindings!MessageOf(e, v3)
    BY <1>6 DEF Bindings!Run
  <2> QED
    BY <1>1, <1>3, <1>6, <2>1, <2>2
<1>7. CASE e.type = "IntermediateThrowEvent"
  <2>1. Bindings!Listed(e, v3) = {Bindings!MessageOf(e, v3)}
    BY <1>7 DEF Bindings!Listed
  <2>2. Bindings!Run(e, v3) = Bindings!MessageOf(e, v3)
    BY <1>7 DEF Bindings!Run
  <2> QED
    BY <1>1, <1>3, <1>7, <2>1, <2>2
<1> QED
  BY <1>2, <1>4, <1>5, <1>6, <1>7 DEF Bindings!Types

\* The messages of a file: the one it had, and those that the panel added, which
\* all have the id that is made of the element's.
MessagesOk(roots) ==
  /\ roots \in Seq({"own", "foreign"} \X Bindings!Text) /\ roots # <<>>
  /\ \A n \in 1..Len(roots) : roots[n][1] = IF n = 1 THEN "foreign" ELSE "own"

\* An element as the editor can hold it, in a file with these messages.
ElementOk(e, roots) ==
  /\ e \in Bindings!Element
  /\ MessagesOk(roots)
  /\ e.message \in 0..Len(roots)

LEMMA ElementFacts ==
  ASSUME NEW e, NEW roots, ElementOk(e, roots)
  PROVE  /\ e.type \in Bindings!Types /\ e.events \in Seq(Bindings!Events)
         /\ \A a \in Bindings!Attributes : e.attr[a] \in Bindings!Text
         /\ Bindings!Name(e, roots) \in Bindings!Text
<1>1. /\ e.type \in Bindings!Types /\ e.events \in Seq(Bindings!Events)
      /\ \A a \in Bindings!Attributes : e.attr[a] \in Bindings!Text
  BY DEF ElementOk, Bindings!Element
<1>2. e.message # 0 => roots[e.message] \in {"own", "foreign"} \X Bindings!Text
  BY DEF ElementOk, MessagesOk, Bindings!Element
<1> QED
  BY <1>1, <1>2 DEF Bindings!Name, Bindings!Text

\* What blanks at the ends change.
LEMMA Trimmed ==
  LET T(a) == Bindings!Trim(a)
  IN /\ Bindings!Norm(None) = None
     /\ \A a \in Bindings!Words : Bindings!Norm(<<a>>) = <<T(a)>>
     /\ \A a, b \in Bindings!Words : Bindings!Norm(<<a, b>>) = <<T(a), T(b)>>
     /\ \A a, b, c \in Bindings!Words : Bindings!Norm(<<a, b, c>>) = <<T(a), T(b), T(c)>>
     /\ \A a, b, c, d \in Bindings!Words : Bindings!Norm(<<a, b, c, d>>) = <<T(a), T(b), T(c), T(d)>>
<1>1. \A a \in Bindings!Words : Bindings!Norm(<<a>>) = <<Bindings!Trim(a)>>
  BY NoContract DEF Bindings!Norm
<1>2. \A a, b \in Bindings!Words : Bindings!Norm(<<a, b>>) = <<Bindings!Trim(a), Bindings!Trim(b)>>
  BY NoContract DEF Bindings!Norm
<1>3. \A a, b, c \in Bindings!Words :
        Bindings!Norm(<<a, b, c>>) = <<Bindings!Trim(a), Bindings!Trim(b), Bindings!Trim(c)>>
  BY NoContract DEF Bindings!Norm
<1>4. \A a, b, c, d \in Bindings!Words :
        Bindings!Norm(<<a, b, c, d>>) = <<Bindings!Trim(a), Bindings!Trim(b), Bindings!Trim(c), Bindings!Trim(d)>>
  BY NoContract DEF Bindings!Norm
<1>5. Bindings!Norm(None) = None
  BY DEF Bindings!Norm
<1> QED
  BY <1>1, <1>2, <1>3, <1>4, <1>5

LEMMA PersonShown ==
  ASSUME NEW e, NEW roots, ElementOk(e, roots), Bindings!OwnerOf(e) # Error
  PROVE  Bindings!OwnerOf(e) = Bindings!Norm(Bindings!OwnerShown(e))
<1> DEFINE person == e.attr["person"]
           group == e.attr["group"]
<1>1. person \in Bindings!Text /\ group \in Bindings!Text
  BY ElementFacts DEF Bindings!Attributes
<1>2. Bindings!Text \subseteq Bindings!Words /\ {"PERSON", "GROUP", "STARTER"} \subseteq Bindings!Words
  BY DEF Bindings!Words
<1>3. \A t \in {"PERSON", "GROUP", "STARTER"} : Bindings!Trim(t) = t
  BY DEF Bindings!Trim
<1>4. CASE Bindings!Present(person)
  <2>1. Bindings!OwnerOf(e) = <<"PERSON", Bindings!Trim(person)>>
    BY <1>4 DEF Bindings!OwnerOf
  <2>2. Bindings!OwnerShown(e) = <<"PERSON", person>>
    BY <1>4 DEF Bindings!OwnerShown
  <2> QED
    BY <1>1, <1>2, <1>3, <2>1, <2>2, Trimmed
<1>5. CASE ~Bindings!Present(person) /\ Bindings!Present(group)
  <2>1. Bindings!OwnerOf(e) = <<"GROUP", Bindings!Trim(group)>>
    BY <1>5 DEF Bindings!OwnerOf
  <2>2. Bindings!OwnerShown(e) = <<"GROUP", group>>
    BY <1>5 DEF Bindings!OwnerShown
  <2> QED
    BY <1>1, <1>2, <1>3, <2>1, <2>2, Trimmed
<1>6. CASE ~Bindings!Present(person) /\ ~Bindings!Present(group)
  <2>1. Bindings!OwnerOf(e) = <<"STARTER">> /\ Bindings!OwnerShown(e) = <<"STARTER">>
    BY <1>6 DEF Bindings!OwnerOf, Bindings!OwnerShown
  <2> QED
    BY <1>2, <1>3, <2>1, Trimmed
<1> QED
  BY <1>4, <1>5, <1>6

LEMMA Untouched ==
  /\ \A t \in Bindings!Words \ {"padded"} : Bindings!Trim(t) = t
  /\ \A t \in Bindings!Text : Bindings!Mapping(t) => Bindings!Parsed(t) = t /\ Bindings!Trim(t) = t
  /\ \A t \in Bindings!Text : Bindings!Trim(t) \in Bindings!Text /\ (Bindings!Present(Bindings!Trim(t)) <=> Bindings!Present(t))
  /\ Bindings!Text \subseteq Bindings!Words
BY DEF Bindings!Trim, Bindings!Words, Bindings!Text, Bindings!Mapping, Bindings!Good, Bindings!Parsed, Bindings!Present

LEMMA FormShown ==
  ASSUME NEW e, NEW roots, ElementOk(e, roots), Bindings!FormOf(e) # Error
  PROVE  Bindings!FormOf(e) =
           IF Bindings!Present(e.attr["key"]) THEN <<e.attr["key"], Bindings!Parsed(e.attr["mapping"])>> ELSE None
<1>1. e.attr["mapping"] \in Bindings!Text
  BY ElementFacts DEF Bindings!Attributes
<1>2. CASE Bindings!Present(e.attr["key"])
  <2>1. Bindings!Mapping(e.attr["mapping"]) /\ Bindings!FormOf(e) = <<e.attr["key"], e.attr["mapping"]>>
    BY <1>2 DEF Bindings!FormOf
  <2> QED
    BY <1>1, <1>2, <2>1, Untouched
<1>3. CASE ~Bindings!Present(e.attr["key"])
  BY <1>3 DEF Bindings!FormOf
<1> QED
  BY <1>2, <1>3

\* The panel and the runtime read the same of a user task.
LEMMA UserTaskShown ==
  ASSUME ElementOk(v1, v3), Error \notin Bindings!Listed(v1, v3), v1.type = "UserTask"
  PROVE  Bindings!ShownIsRun
<1>1. Bindings!OwnerOf(v1) # Error /\ Bindings!FormOf(v1) # Error
  BY DEF Bindings!Listed
<1>2. Bindings!Shown(v1, v3) =
        <<Bindings!OwnerShown(v1), IF Bindings!Present(v1.attr["key"])
                         THEN <<v1.attr["key"], Bindings!Parsed(v1.attr["mapping"])>> ELSE None>>
  BY DEF Bindings!Shown
<1>3. Bindings!Run(v1, v3) = <<Bindings!OwnerOf(v1), Bindings!FormOf(v1)>>
  BY DEF Bindings!Run
<1>4. Bindings!Run(v1, v3) = <<Bindings!Norm(Bindings!Shown(v1, v3)[1]), Bindings!Shown(v1, v3)[2]>>
  BY <1>1, <1>2, <1>3, PersonShown, FormShown
<1> QED
  BY <1>4 DEF Bindings!ShownIsRun

LEMMA JobShown ==
  ASSUME ElementOk(v1, v3), Error \notin Bindings!Listed(v1, v3), v1.type = "ServiceTask"
  PROVE  Bindings!Run(v1, v3) = Bindings!Norm(Bindings!Shown(v1, v3))
<1> DEFINE key == v1.attr["key"]
           mapping == v1.attr["mapping"]
           limits == v1.attr["limits"]
           attempts == v1.attr["attempts"]
<1>1. {key, mapping, limits, attempts} \subseteq Bindings!Text
  BY ElementFacts DEF Bindings!Attributes
<1>2. Bindings!JobOf(v1) # Error
  BY DEF Bindings!Listed
<1>3. /\ key \in Bindings!Good /\ Bindings!Mapping(mapping)
      /\ Bindings!Limit(limits) \in {"default"} \cup Bindings!Good
      /\ Bindings!Limit(attempts) \in {"default"} \cup Bindings!Good
      /\ Bindings!JobOf(v1) = <<key, mapping, Bindings!Limit(limits), Bindings!Limit(attempts)>>
  BY <1>2 DEF Bindings!JobOf
<1>4. Bindings!OrDefault(limits) = Bindings!Limit(limits) /\ Bindings!OrDefault(attempts) = Bindings!Limit(attempts)
  BY <1>3 DEF Bindings!OrDefault, Bindings!Limit, Bindings!Good
<1>5. Bindings!Shown(v1, v3) = <<key, mapping, Bindings!Limit(limits), Bindings!Limit(attempts)>>
  <2>1. Bindings!Present(key) /\ Bindings!Parsed(mapping) = mapping
    BY <1>1, <1>3, Untouched DEF Bindings!Present, Bindings!Good
  <2> QED
    BY <1>4, <2>1 DEF Bindings!Shown
<1>6. \A t \in {key, mapping, Bindings!Limit(limits), Bindings!Limit(attempts)} :
        t \in Bindings!Words /\ Bindings!Trim(t) = t
  <2>1. \A t \in {"default", "none"} \cup Bindings!Good : t \in Bindings!Words /\ Bindings!Trim(t) = t
    BY DEF Bindings!Words, Bindings!Text, Bindings!Good, Bindings!Trim
  <2> QED
    BY <1>3, <2>1 DEF Bindings!Mapping
<1>7. Bindings!Run(v1, v3) = Bindings!JobOf(v1)
  BY DEF Bindings!Run
<1> HIDE DEF key, mapping, limits, attempts
<1> QED
  BY <1>3, <1>5, <1>6, <1>7, Trimmed

LEMMA DecisionShown ==
  ASSUME ElementOk(v1, v3), Error \notin Bindings!Listed(v1, v3), v1.type = "BusinessRuleTask"
  PROVE  Bindings!Run(v1, v3) = Bindings!Norm(Bindings!Shown(v1, v3))
<1>1. v1.attr["key"] \in Bindings!Text /\ v1.attr["mapping"] \in Bindings!Text
  BY ElementFacts DEF Bindings!Attributes
<1>2. Bindings!DecisionOf(v1) # Error
  BY DEF Bindings!Listed
<1>3. /\ v1.attr["key"] \in Bindings!Good /\ Bindings!Mapping(v1.attr["mapping"])
      /\ Bindings!DecisionOf(v1) = <<v1.attr["key"], v1.attr["mapping"]>>
  BY <1>2 DEF Bindings!DecisionOf
<1>4. v1.attr["key"] # "none" /\ Bindings!Trim(v1.attr["key"]) = v1.attr["key"]
  BY <1>3 DEF Bindings!Good, Bindings!Trim
<1>5. Bindings!Shown(v1, v3) = <<v1.attr["key"], Bindings!Parsed(v1.attr["mapping"])>>
  BY <1>4 DEF Bindings!Shown, Bindings!Present
<1>6. Bindings!Run(v1, v3) = Bindings!DecisionOf(v1)
  BY DEF Bindings!Run
<1> QED
  BY <1>1, <1>3, <1>4, <1>5, <1>6, Untouched, Trimmed

\* The events of an element that has no more than one.
LEMMA OneEvent ==
  ASSUME NEW e, e.events \in Seq(Bindings!Events), Len(e.events) <= 1, NEW event
  PROVE  Bindings!Has(e, event) <=> Len(e.events) = 1 /\ e.events[1] = event
<1>1. CASE Len(e.events) = 0
  BY <1>1 DEF Bindings!Has, Bindings!ToSet
<1>2. CASE Len(e.events) = 1
  BY <1>2 DEF Bindings!Has, Bindings!ToSet
<1>3. Len(e.events) = 0 \/ Len(e.events) = 1
  <2>1. Len(e.events) \in Nat
    OBVIOUS
  <2>2. \A n \in Nat : n <= 1 => n = 0 \/ n = 1
    OBVIOUS
  <2> QED
    BY <2>1, <2>2, Zenon
<1> QED
  BY <1>1, <1>2, <1>3, Zenon

LEMMA TimerShown ==
  ASSUME NEW e, NEW roots, ElementOk(e, roots), Bindings!TimerOf(e) # Error, Bindings!Has(e, "TIMER")
  PROVE  /\ Bindings!TimerOf(e) = Bindings!Norm(Bindings!TimerShown(e))
         /\ Bindings!TimerOf(e) # None
<1> DEFINE duration == e.attr["duration"]
           date == e.attr["date"]
           D == Bindings!Trim(duration)
           T == Bindings!Trim(date)
<1>1. duration \in Bindings!Text /\ date \in Bindings!Text
  BY ElementFacts DEF Bindings!Attributes
<1>2. D \in Bindings!Text /\ T \in Bindings!Text
      /\ (Bindings!Present(D) <=> Bindings!Present(duration)) /\ (Bindings!Present(T) <=> Bindings!Present(date))
  BY <1>1, Untouched
<1>3. /\ Bindings!OneExpression(D, T)
      /\ Bindings!TimerOf(e) =
           IF Bindings!Present(D) THEN IF D \in Bindings!Good THEN <<"DURATION", D>> ELSE Error
           ELSE IF T \in Bindings!Good THEN <<"DATE", T>> ELSE Error
  BY DEF Bindings!TimerOf
<1>4. "DURATION" \in Bindings!Words /\ Bindings!Trim("DURATION") = "DURATION"
      /\ "DATE" \in Bindings!Words /\ Bindings!Trim("DATE") = "DATE"
  BY DEF Bindings!Words, Bindings!Trim
<1>5. CASE Bindings!Present(D)
  <2>1. Bindings!TimerShown(e) = <<"DURATION", duration>>
    BY <1>2, <1>3, <1>5 DEF Bindings!TimerShown, Bindings!OneExpression
  <2>2. Bindings!TimerOf(e) = <<"DURATION", D>>
    BY <1>3, <1>5
  <2> QED
    BY <1>1, <1>2, <1>4, <2>1, <2>2, Trimmed, Untouched, NoContract
<1>6. CASE ~Bindings!Present(D)
  <2>1. Bindings!Present(date) /\ Bindings!TimerShown(e) = <<"DATE", date>>
    <3>1. Bindings!Present(T)
      BY <1>3, <1>6, Zenon DEF Bindings!OneExpression, Bindings!Present
    <3> QED
      BY <1>2, <3>1 DEF Bindings!TimerShown
  <2>2. Bindings!TimerOf(e) = <<"DATE", T>>
    BY <1>3, <1>6
  <2> QED
    BY <1>1, <1>2, <1>4, <2>1, <2>2, Trimmed, Untouched, NoContract
<1> QED
  BY <1>5, <1>6

LEMMA MessageShown ==
  ASSUME NEW e, NEW roots, ElementOk(e, roots), Bindings!MessageOf(e, roots) # Error, Bindings!Has(e, "MESSAGE")
  PROVE  Bindings!MessageOf(e, roots) = Bindings!Norm(Bindings!MessageShown(e, roots))
<1> DEFINE name == Bindings!Name(e, roots)
           key == e.attr["correlation"]
           mapping == e.attr["mapping"]
           last == IF e.type = "IntermediateThrowEvent" THEN mapping ELSE "none"
<1>1. key \in Bindings!Text /\ mapping \in Bindings!Text
  BY ElementFacts DEF Bindings!Attributes
<1>2. /\ name \in Bindings!Good /\ key \in Bindings!Good
      /\ (e.type = "IntermediateThrowEvent" => Bindings!Mapping(mapping))
      /\ Bindings!MessageOf(e, roots) = <<name, key, last>>
  BY DEF Bindings!MessageOf
<1>3. last \in {"none"} \cup Bindings!Good
  BY <1>2 DEF Bindings!Mapping
<1>4. Bindings!MessageShown(e, roots) = <<name, key, last>>
  <2>1. Bindings!Present(name) /\ Bindings!Present(key)
    BY <1>2 DEF Bindings!Present, Bindings!Good
  <2>2. e.type = "IntermediateThrowEvent" => Bindings!Parsed(mapping) = mapping
    BY <1>1, <1>2, Untouched
  <2> QED
    BY <2>1, <2>2 DEF Bindings!MessageShown
<1>5. \A t \in {name, key, last} : t \in Bindings!Words /\ Bindings!Trim(t) = t
  BY <1>2, <1>3 DEF Bindings!Words, Bindings!Text, Bindings!Good, Bindings!Trim
<1> HIDE DEF name, key, mapping, last
<1> QED
  BY <1>2, <1>4, <1>5, Trimmed

LEMMA CatchShown ==
  ASSUME ElementOk(v1, v3), Error \notin Bindings!Listed(v1, v3), Bindings!EventAllowed(v1),
         v1.type = "IntermediateCatchEvent"
  PROVE  Bindings!Run(v1, v3) = Bindings!Norm(Bindings!Shown(v1, v3))
<1>1. v1.events \in Seq(Bindings!Events) /\ Len(v1.events) <= 1
  BY ElementFacts DEF Bindings!EventAllowed
<1>2. Bindings!TimerOf(v1) # Error /\ Bindings!MessageOf(v1, v3) # Error
  BY DEF Bindings!Listed
<1>3. /\ Bindings!Run(v1, v3) = IF Bindings!TimerOf(v1) # None THEN Bindings!TimerOf(v1) ELSE Bindings!MessageOf(v1, v3)
      /\ Bindings!Shown(v1, v3) =
           IF Bindings!Has(v1, "TIMER") THEN Bindings!TimerShown(v1)
           ELSE IF Bindings!Has(v1, "MESSAGE") THEN Bindings!MessageShown(v1, v3) ELSE None
  BY DEF Bindings!Run, Bindings!Shown
<1>4. CASE Bindings!Has(v1, "TIMER")
  BY <1>2, <1>3, <1>4, TimerShown
<1>5. CASE ~Bindings!Has(v1, "TIMER")
  <2>1. Bindings!TimerOf(v1) = None
    BY <1>5 DEF Bindings!TimerOf
  <2>2. CASE Bindings!Has(v1, "MESSAGE")
    BY <1>2, <1>3, <1>5, <2>1, <2>2, MessageShown
  <2>3. CASE ~Bindings!Has(v1, "MESSAGE")
    <3>1. Bindings!MessageOf(v1, v3) = None
      BY <2>3 DEF Bindings!MessageOf
    <3> QED
      BY <1>3, <1>5, <2>1, <2>3, <3>1, Trimmed
  <2> QED
    BY <2>2, <2>3
<1> QED
  BY <1>4, <1>5

LEMMA ThrowShown ==
  ASSUME ElementOk(v1, v3), Error \notin Bindings!Listed(v1, v3), v1.type = "IntermediateThrowEvent"
  PROVE  Bindings!Run(v1, v3) = Bindings!Norm(Bindings!Shown(v1, v3))
<1>1. /\ Bindings!MessageOf(v1, v3) # Error /\ Bindings!Run(v1, v3) = Bindings!MessageOf(v1, v3)
      /\ Bindings!Shown(v1, v3) = IF Bindings!Has(v1, "MESSAGE") THEN Bindings!MessageShown(v1, v3) ELSE None
  BY DEF Bindings!Listed, Bindings!Run, Bindings!Shown
<1>2. CASE Bindings!Has(v1, "MESSAGE")
  BY <1>1, <1>2, MessageShown
<1>3. CASE ~Bindings!Has(v1, "MESSAGE")
  <2>1. Bindings!MessageOf(v1, v3) = None
    BY <1>3 DEF Bindings!MessageOf
  <2> QED
    BY <1>1, <1>3, <2>1, Trimmed
<1> QED
  BY <1>2, <1>3

\* What the panel shows of an accepted element is what the runtime does.
LEMMA ElementShown ==
  ASSUME ElementOk(v1, v3)
  PROVE  Bindings!ShownIsRun
<1> SUFFICES ASSUME Bindings!EventAllowed(v1), Error \notin Bindings!Listed(v1, v3)
             PROVE  Bindings!ShownIsRun
  BY DEF Bindings!ShownIsRun
<1>1. v1.type \in Bindings!Types
  BY ElementFacts
<1>2. CASE v1.type = "UserTask"
  BY <1>2, UserTaskShown
<1>3. CASE v1.type # "UserTask"
  <2>1. Bindings!Run(v1, v3) = Bindings!Norm(Bindings!Shown(v1, v3))
    BY <1>1, <1>3, JobShown, DecisionShown, CatchShown, ThrowShown DEF Bindings!Types
  <2> QED
    BY <1>3, <2>1 DEF Bindings!ShownIsRun
<1> QED
  BY <1>2, <1>3

-----------------------------------------------------------------------------
(* Editing an element.                                                      *)

States ==
  {s \in [element : Bindings!Element, messages : Seq({"own", "foreign"} \X Bindings!Text)] :
     ElementOk(s.element, s.messages)}

\* What was applied of an element without surplus definitions is what runs.
AppliedRuns ==
  v6 # None /\ Len(v1.events) <= 1 =>
    LET run == Bindings!Run(v1, v3)
    IN CASE v6.part = "owner" -> run[1] = v6.contract
         [] v6.part = "form" -> run[2] = v6.contract
         [] OTHER -> run = v6.contract

BindingsInv ==
  /\ ElementOk(v1, v3)
  /\ v2 \in Bindings!Element \cup {None}
  /\ v5 \in Seq(States)
  /\ AppliedRuns

LEMMA BindingsInitially == Bindings!Init => BindingsInv
<1> SUFFICES ASSUME Bindings!Init
             PROVE  BindingsInv
  OBVIOUS
<1>1. PICK m \in Files : v1 = m.element /\ v2 = m.companion
  BY DEF Bindings!Init
<1>2. /\ v1 \in Bindings!Element /\ v1.message \in 0..1
      /\ v2 \in Bindings!Element \cup {None}
  BY <1>1, BindingsAssumption DEF Bindings!Typed
<1>3. MessagesOk(v3) /\ Len(v3) = 1
  <2>1. <<"foreign", "good">> \in {"own", "foreign"} \X Bindings!Text
    BY DEF Bindings!Text
  <2>2. v3 = <<<<"foreign", "good">>>>
    BY DEF Bindings!Init
  <2> QED
    BY <2>1, <2>2 DEF MessagesOk
<1> QED
  BY <1>2, <1>3 DEF Bindings!Init, BindingsInv, ElementOk, AppliedRuns

\* What a change of attributes leaves alone.
LEMMA SetFacts ==
  ASSUME NEW e \in Bindings!Element, NEW values, \A a \in DOMAIN values : values[a] \in Bindings!Text
  PROVE  /\ Bindings!Set(e, values) \in Bindings!Element
         /\ Bindings!Set(e, values) =
              [id |-> e.id, type |-> e.type, home |-> e.home, events |-> e.events,
               attr |-> [a \in Bindings!Attributes |-> IF a \in DOMAIN values THEN values[a] ELSE e.attr[a]],
               message |-> e.message]
<1>1. PICK attr : attr = [a \in Bindings!Attributes |-> IF a \in DOMAIN values THEN values[a] ELSE e.attr[a]]
  OBVIOUS
<1>2. attr \in [Bindings!Attributes -> Bindings!Text]
  BY <1>1 DEF Bindings!Element
<1>3. Bindings!Set(e, values) = [e EXCEPT !.attr = attr]
  BY <1>1 DEF Bindings!Set
<1> QED
  BY <1>1, <1>2, <1>3 DEF Bindings!Element

LEMMA SetOk ==
  ASSUME NEW e, NEW roots, ElementOk(e, roots), NEW values, \A a \in DOMAIN values : values[a] \in Bindings!Text
  PROVE  ElementOk(Bindings!Set(e, values), roots)
BY SetFacts DEF ElementOk, Bindings!Attributes

\* An operation of one or more commands.
LEMMA Executes ==
  ASSUME BindingsInv, NEW states \in Seq(States), states # <<>>, Bindings!Execute(states)
  PROVE  /\ v1' = states[Len(states)].element /\ v3' = states[Len(states)].messages /\ v2' = v2
         /\ ElementOk(v1, v3)' /\ v5' \in Seq(States)
<1>1. /\ v1' = states[Len(states)].element /\ v3' = states[Len(states)].messages /\ v2' = v2
      /\ v5' = v5 \o (<<Bindings!State>> \o SubSeq(states, 1, Len(states) - 1))
  BY DEF Bindings!Execute
<1>2. Bindings!State \in States
  BY DEF Bindings!State, States, BindingsInv, ElementOk, MessagesOk
<1>3. states[Len(states)] \in States
  OBVIOUS
<1>4. SubSeq(states, 1, Len(states) - 1) \in Seq(States)
  OBVIOUS
<1>5. v5' \in Seq(States)
  BY <1>1, <1>2, <1>4 DEF BindingsInv
<1> QED
  BY <1>1, <1>3, <1>5 DEF States, ElementOk

LEMMA Updates ==
  ASSUME BindingsInv, NEW values, \A a \in DOMAIN values : values[a] \in Bindings!Text,
         Bindings!Update(values)
  PROVE  /\ v1' = Bindings!Set(v1, values) /\ v3' = v3 /\ v2' = v2
         /\ ElementOk(v1, v3)' /\ v5' \in Seq(States)
<1>1. PICK s : s = [element |-> Bindings!Set(v1, values), messages |-> v3]
  OBVIOUS
<1>2. s \in States
  <2>1. ElementOk(Bindings!Set(v1, values), v3)
    BY SetOk DEF BindingsInv
  <2> QED
    BY <1>1, <2>1 DEF States, ElementOk, MessagesOk
<1>3. Bindings!Execute(<<s>>)
  BY <1>1 DEF Bindings!Update, Bindings!State
<1>4. <<s>> \in Seq(States) /\ <<s>> # <<>> /\ Len(<<s>>) = 1 /\ <<s>>[1] = s
  BY <1>2
<1>5. /\ v1' = <<s>>[Len(<<s>>)].element /\ v3' = <<s>>[Len(<<s>>)].messages /\ v2' = v2
      /\ ElementOk(v1, v3)' /\ v5' \in Seq(States)
  BY <1>3, <1>4, Executes
<1> QED
  BY <1>1, <1>4, <1>5

LEMMA AppliesForm ==
  ASSUME BindingsInv, NEW key \in {"none", "good", "other"}, NEW mapping \in {"none", "good", "bad"},
         Bindings!ApplyForm(key, mapping)
  PROVE  BindingsInv'
<1> DEFINE written == IF key = "none" THEN "none" ELSE mapping
           values == [key |-> key, mapping |-> written]
<1>1. v1 \in Bindings!Element /\ v1.type = "UserTask" /\ Bindings!Update(values)
  BY DEF BindingsInv, ElementOk, Bindings!ApplyForm
<1>2. /\ DOMAIN values = {"key", "mapping"} /\ values["key"] = key /\ values["mapping"] = written
      /\ \A a \in DOMAIN values : values[a] \in Bindings!Text
  BY DEF Bindings!Text
<1>3. /\ v1' = Bindings!Set(v1, values) /\ v3' = v3 /\ v2' = v2 /\ ElementOk(v1, v3)' /\ v5' \in Seq(States)
  <2> HIDE DEF values
  <2> QED
    BY <1>1, <1>2, Updates
<1>4. v1'.type = "UserTask" /\ v1'.attr["key"] = key /\ v1'.attr["mapping"] = written
  <2> HIDE DEF values
  <2> QED
    BY <1>1, <1>2, <1>3, SetFacts DEF Bindings!Attributes
<1>5. Bindings!Run(v1, v3)'[2] = Bindings!FormOf(v1)'
  BY <1>4 DEF Bindings!Run
<1>6. AppliedRuns'
  <2>1. CASE key = "none"
    <3>1. v6' = [part |-> "form", contract |-> None]
      BY <2>1 DEF Bindings!ApplyForm, Bindings!Apply
    <3>2. Bindings!FormOf(v1)' = None
      BY <1>4, <2>1 DEF Bindings!FormOf, Bindings!Present
    <3> QED
      BY <1>5, <3>1, <3>2 DEF AppliedRuns
  <2>2. CASE key # "none" /\ Bindings!Mapping(mapping)
    <3>1. v6' = [part |-> "form", contract |-> <<key, mapping>>]
      BY <2>2 DEF Bindings!ApplyForm, Bindings!Apply
    <3>2. Bindings!FormOf(v1)' = <<key, mapping>>
      BY <1>4, <2>2 DEF Bindings!FormOf, Bindings!Present
    <3> QED
      BY <1>5, <3>1, <3>2 DEF AppliedRuns
  <2>3. CASE key # "none" /\ ~Bindings!Mapping(mapping)
    BY <2>3 DEF Bindings!ApplyForm, Bindings!ApplyRefused, AppliedRuns
  <2> QED
    BY <2>1, <2>2, <2>3
<1> QED
  BY <1>3, <1>6 DEF BindingsInv

LEMMA AppliesOwner ==
  ASSUME BindingsInv, NEW owner \in {<<"STARTER">>, <<"PERSON", "good">>, <<"GROUP", "good">>},
         Bindings!ApplyOwner(owner)
  PROVE  BindingsInv'
<1> DEFINE person == IF owner[1] = "PERSON" THEN owner[2] ELSE "none"
           group == IF owner[1] = "GROUP" THEN owner[2] ELSE "none"
           values == [person |-> person, group |-> group]
<1>1. v1 \in Bindings!Element /\ v1.type = "UserTask" /\ Bindings!Update(values)
  BY DEF BindingsInv, ElementOk, Bindings!ApplyOwner
<1>2. /\ DOMAIN values = {"person", "group"} /\ values["person"] = person /\ values["group"] = group
      /\ \A a \in DOMAIN values : values[a] \in Bindings!Text
  BY DEF Bindings!Text
<1>3. /\ v1' = Bindings!Set(v1, values) /\ v3' = v3 /\ v2' = v2 /\ ElementOk(v1, v3)' /\ v5' \in Seq(States)
  <2> HIDE DEF values
  <2> QED
    BY <1>1, <1>2, Updates
<1>4. v1'.type = "UserTask" /\ v1'.attr["person"] = person /\ v1'.attr["group"] = group
  <2> HIDE DEF values
  <2> QED
    BY <1>1, <1>2, <1>3, SetFacts DEF Bindings!Attributes
<1>5. Bindings!Run(v1, v3)'[1] = Bindings!OwnerOf(v1)'
  BY <1>4 DEF Bindings!Run
<1>6. Bindings!OwnerOf(v1)' = owner
  BY <1>4 DEF Bindings!OwnerOf, Bindings!Present, Bindings!Trim, Bindings!Good
<1>7. v6' = [part |-> "owner", contract |-> owner]
  BY DEF Bindings!ApplyOwner, Bindings!Apply
<1>8. AppliedRuns'
  BY <1>5, <1>6, <1>7 DEF AppliedRuns
<1> QED
  BY <1>3, <1>8 DEF BindingsInv

LEMMA AppliesDecision ==
  ASSUME BindingsInv, NEW key \in {"none", "good", "other"}, NEW mapping \in {"none", "good", "bad"},
         Bindings!ApplyDecision(key, mapping)
  PROVE  BindingsInv'
<1> DEFINE written == IF key = "none" THEN "none" ELSE mapping
           values == [key |-> key, mapping |-> written]
<1>1. v1 \in Bindings!Element /\ v1.type = "BusinessRuleTask" /\ Bindings!Update(values)
  BY DEF BindingsInv, ElementOk, Bindings!ApplyDecision
<1>2. /\ DOMAIN values = {"key", "mapping"} /\ values["key"] = key /\ values["mapping"] = written
      /\ \A a \in DOMAIN values : values[a] \in Bindings!Text
  BY DEF Bindings!Text
<1>3. /\ v1' = Bindings!Set(v1, values) /\ v3' = v3 /\ v2' = v2 /\ ElementOk(v1, v3)' /\ v5' \in Seq(States)
  <2> HIDE DEF values
  <2> QED
    BY <1>1, <1>2, Updates
<1>4. v1'.type = "BusinessRuleTask" /\ v1'.attr["key"] = key /\ v1'.attr["mapping"] = written
  <2> HIDE DEF values
  <2> QED
    BY <1>1, <1>2, <1>3, SetFacts DEF Bindings!Attributes
<1>5. Bindings!Run(v1, v3)' = Bindings!DecisionOf(v1)'
  BY <1>4 DEF Bindings!Run
<1>6. CASE key # "none" /\ Bindings!Mapping(mapping)
  <2>1. v6' = [part |-> "all", contract |-> <<key, mapping>>]
    BY <1>6 DEF Bindings!ApplyDecision, Bindings!Apply
  <2>2. Bindings!DecisionOf(v1)' = <<key, mapping>>
    BY <1>4, <1>6 DEF Bindings!DecisionOf, Bindings!Good
  <2>3. AppliedRuns'
    BY <1>5, <2>1, <2>2 DEF AppliedRuns
  <2> QED
    BY <1>3, <2>3 DEF BindingsInv
<1>7. CASE ~(key # "none" /\ Bindings!Mapping(mapping))
  <2>1. AppliedRuns'
    BY <1>7 DEF Bindings!ApplyDecision, Bindings!ApplyRefused, AppliedRuns
  <2> QED
    BY <1>3, <2>1 DEF BindingsInv
<1> QED
  BY <1>6, <1>7

LEMMA AppliesJob ==
  ASSUME BindingsInv, NEW key \in FieldTexts, NEW mapping \in FieldTexts, NEW limits \in FieldTexts,
         NEW attempts \in (FieldTexts \ {"none"}) \cup {"zero"}, Bindings!ApplyJob(key, mapping, limits, attempts)
  PROVE  BindingsInv'
<1> DEFINE typed(text) == IF key = "none" THEN "none" ELSE text
           count == IF key = "none" \/ attempts = "zero" THEN "none" ELSE attempts
           values == [key |-> key, mapping |-> typed(mapping), limits |-> typed(limits), attempts |-> count]
<1>1. v1 \in Bindings!Element /\ v1.type = "ServiceTask" /\ Bindings!Update(values)
  BY DEF BindingsInv, ElementOk, Bindings!ApplyJob
<1>2. {key, mapping, limits} \subseteq {"none", "bad"} \cup Bindings!Good
      /\ attempts \in {"bad", "zero"} \cup Bindings!Good
  BY BindingsAssumption DEF Bindings!Typed
<1>3. /\ DOMAIN values = {"key", "mapping", "limits", "attempts"}
      /\ values["key"] = key /\ values["mapping"] = typed(mapping) /\ values["limits"] = typed(limits)
      /\ values["attempts"] = count
      /\ \A a \in DOMAIN values : values[a] \in Bindings!Text
  BY <1>2 DEF Bindings!Text, Bindings!Good
<1>4. /\ v1' = Bindings!Set(v1, values) /\ v3' = v3 /\ v2' = v2 /\ ElementOk(v1, v3)' /\ v5' \in Seq(States)
  <2> HIDE DEF values
  <2> QED
    BY <1>1, <1>3, Updates
<1>5. /\ v1'.type = "ServiceTask" /\ v1'.attr["key"] = key /\ v1'.attr["mapping"] = typed(mapping)
      /\ v1'.attr["limits"] = typed(limits) /\ v1'.attr["attempts"] = count
  <2> HIDE DEF values
  <2> QED
    BY <1>1, <1>3, <1>4, SetFacts DEF Bindings!Attributes
<1>6. Bindings!Run(v1, v3)' = Bindings!JobOf(v1)'
  BY <1>5 DEF Bindings!Run
<1> DEFINE accepted == key \in Bindings!Good /\ Bindings!Mapping(mapping) /\ "bad" \notin {limits, attempts}
<1>7. CASE accepted
  <2>1. v6' = [part |-> "all",
               contract |-> <<key, mapping, Bindings!OrDefault(limits), Bindings!OrDefault(attempts)>>]
    BY <1>7 DEF Bindings!ApplyJob, Bindings!Apply
  <2>2. /\ Bindings!Limit(typed(limits)) = Bindings!OrDefault(limits)
        /\ Bindings!Limit(count) = Bindings!OrDefault(attempts)
        /\ {Bindings!OrDefault(limits), Bindings!OrDefault(attempts)} \subseteq {"default"} \cup Bindings!Good
        /\ typed(mapping) = mapping
    BY <1>2, <1>7 DEF Bindings!Limit, Bindings!OrDefault, Bindings!Good
  <2>3. Bindings!JobOf(v1)' = <<key, mapping, Bindings!OrDefault(limits), Bindings!OrDefault(attempts)>>
    BY <1>5, <1>7, <2>2 DEF Bindings!JobOf
  <2>4. AppliedRuns'
    BY <1>6, <2>1, <2>3 DEF AppliedRuns
  <2> QED
    BY <1>4, <2>4 DEF BindingsInv
<1>8. CASE ~accepted
  <2>1. AppliedRuns'
    BY <1>8 DEF Bindings!ApplyJob, Bindings!ApplyRefused, AppliedRuns
  <2> QED
    BY <1>4, <2>1 DEF BindingsInv
<1> QED
  BY <1>7, <1>8

\* An event definition takes the place of what the element has.
Replacing(e, event, m) == [e EXCEPT !.events = <<event>>, !.message = m]

LEMMA Replaced ==
  ASSUME NEW e, NEW roots, ElementOk(e, roots), NEW event \in {"TIMER", "MESSAGE"}, NEW m \in 0..Len(roots),
         NEW new, new = Replacing(e, event, m)
  PROVE  /\ ElementOk(new, roots) /\ new.events = <<event>> /\ new.message = m
         /\ new.type = e.type /\ new.attr = e.attr
<1>1. <<event>> \in Seq(Bindings!Events)
  BY DEF Bindings!Events
<1>2. m \in Nat
  OBVIOUS
<1>3. new = [id |-> e.id, type |-> e.type, home |-> e.home, events |-> <<event>>, attr |-> e.attr, message |-> m]
  BY DEF Replacing, ElementOk, Bindings!Element
<1> QED
  BY <1>1, <1>2, <1>3 DEF ElementOk, Bindings!Element

LEMMA NoTimerFacts ==
  /\ DOMAIN Bindings!NoTimer = {"duration", "date", "cycle"}
  /\ \A a \in DOMAIN Bindings!NoTimer : Bindings!NoTimer[a] = "none"
BY DEF Bindings!NoTimer

LEMMA TimesFacts ==
  ASSUME NEW type \in {"DURATION", "DATE"}, NEW expression \in {"good", "other", "bad"}
  PROVE  /\ DOMAIN Bindings!Times(type, expression) = {"duration", "date", "cycle"}
         /\ Bindings!Times(type, expression)["duration"] = (IF type = "DURATION" THEN expression ELSE "none")
         /\ Bindings!Times(type, expression)["date"] = (IF type = "DATE" THEN expression ELSE "none")
         /\ Bindings!Times(type, expression)["cycle"] = "none"
BY DEF Bindings!Times

LEMMA AppliesTimer ==
  ASSUME BindingsInv, NEW type \in {"DURATION", "DATE"}, NEW expression \in {"good", "other", "bad"},
         Bindings!ApplyTimer(type, expression)
  PROVE  BindingsInv'
<1> DEFINE found == Bindings!Has(v1, "TIMER")
           cleared == Bindings!Set(v1, Bindings!NoTimer)
           fresh == IF found THEN v1 ELSE [cleared EXCEPT !.events = <<"TIMER">>, !.message = 0]
           bare == Bindings!Set(fresh, [correlation |-> "none"])
           times == Bindings!Times(type, expression)
           timed == Bindings!Set(bare, times)
           step(e) == [Bindings!State EXCEPT !.element = e]
           first == IF found THEN <<>> ELSE <<step(fresh)>>
<1>1. v1.type = "IntermediateCatchEvent" /\ Bindings!Execute(first \o <<step(bare), step(timed)>>)
  BY DEF Bindings!ApplyTimer
<1>2. ElementOk(v1, v3) /\ v1 \in Bindings!Element
  BY DEF BindingsInv, ElementOk
<1>3. ElementOk(cleared, v3) /\ cleared.type = v1.type /\ cleared.message = v1.message
  BY <1>2, SetOk, SetFacts, NoTimerFacts DEF Bindings!Text
<1>4. /\ ElementOk(fresh, v3) /\ fresh.type = v1.type
      /\ fresh.events = IF found THEN v1.events ELSE <<"TIMER">>
  <2>1. CASE found
    BY <1>2, <2>1
  <2>2. CASE ~found
    <3>1. fresh = [cleared EXCEPT !.events = <<"TIMER">>, !.message = 0]
      BY <2>2
    <3>2. 0 \in 0..Len(v3)
      BY <1>2 DEF ElementOk
    <3> HIDE DEF cleared, fresh, found
    <3>3. PICK event : event = "TIMER"
      OBVIOUS
    <3>4. fresh = Replacing(cleared, event, 0) /\ event \in {"TIMER", "MESSAGE"}
      BY <3>1, <3>3 DEF Replacing
    <3>5. ElementOk(fresh, v3) /\ fresh.events = <<event>> /\ fresh.type = cleared.type
      BY <1>3, <3>2, <3>4, Replaced
    <3> QED
      BY <1>3, <2>2, <3>3, <3>5
  <2> QED
    BY <2>1, <2>2
<1>5. ElementOk(bare, v3) /\ bare.type = v1.type /\ bare.events = fresh.events
  <2>1. PICK v : v = [correlation |-> "none"]
    OBVIOUS
  <2>2. DOMAIN v = {"correlation"} /\ v["correlation"] = "none"
    BY <2>1
  <2>3. bare = Bindings!Set(fresh, v)
    BY <2>1
  <2>4. \A a \in DOMAIN v : v[a] \in Bindings!Text
    BY <2>2 DEF Bindings!Text
  <2>5. fresh \in Bindings!Element
    BY <1>4 DEF ElementOk
  <2> HIDE DEF fresh, bare
  <2> QED
    BY <1>4, <2>2, <2>3, <2>4, <2>5, SetOk, SetFacts
<1>6. /\ ElementOk(timed, v3) /\ timed.type = v1.type /\ timed.events = fresh.events
      /\ timed.attr["duration"] = (IF type = "DURATION" THEN expression ELSE "none")
      /\ timed.attr["date"] = (IF type = "DATE" THEN expression ELSE "none")
      /\ timed.attr["cycle"] = "none"
  <2>1. DOMAIN times = {"duration", "date", "cycle"} /\ \A a \in DOMAIN times : times[a] \in Bindings!Text
    BY TimesFacts DEF Bindings!Text
  <2>2. bare \in Bindings!Element
    BY <1>5 DEF ElementOk
  <2>3. ElementOk(timed, v3)
    <3> HIDE DEF bare, times
    <3> QED
      BY <1>5, <2>1, SetOk
  <2>4. timed =
          [id |-> bare.id, type |-> bare.type, home |-> bare.home, events |-> bare.events,
           attr |-> [a \in Bindings!Attributes |-> IF a \in DOMAIN times THEN times[a] ELSE bare.attr[a]],
           message |-> bare.message]
    <3> HIDE DEF bare, times
    <3> QED
      BY <2>1, <2>2, SetFacts
  <2> HIDE DEF bare, times, timed, fresh
  <2>5. timed.attr["duration"] = times["duration"] /\ timed.attr["date"] = times["date"]
        /\ timed.attr["cycle"] = times["cycle"]
    BY <2>1, <2>4 DEF Bindings!Attributes
  <2> QED
    BY <1>5, <2>3, <2>4, <2>5, TimesFacts DEF times
<1>7. /\ v1' = timed /\ v3' = v3 /\ v2' = v2 /\ ElementOk(v1, v3)' /\ v5' \in Seq(States)
  <2>1. \A e : ElementOk(e, v3) => step(e) \in States /\ step(e).element = e /\ step(e).messages = v3
    BY DEF Bindings!State, States, ElementOk, MessagesOk
  <2>2. step(fresh) \in States /\ step(bare) \in States /\ step(timed) \in States
        /\ step(timed).element = timed /\ step(timed).messages = v3
    <3> HIDE DEF fresh, bare, timed, step
    <3> QED
      BY <1>4, <1>5, <1>6, <2>1
  <2> DEFINE all == first \o <<step(bare), step(timed)>>
  <2>3. first \in Seq(States)
    <3> HIDE DEF fresh, step
    <3> QED
      BY <2>2
  <2>4. all \in Seq(States) /\ all # <<>> /\ all[Len(all)] = step(timed)
    <3> HIDE DEF first, bare, timed, step
    <3> QED
      BY <2>2, <2>3
  <2>5. Bindings!Execute(all)
    BY <1>1
  <2> HIDE DEF all, fresh, bare, timed, step
  <2> QED
    BY <2>2, <2>4, <2>5, Executes
<1>8. AppliedRuns'
  <2>1. CASE expression \notin Bindings!Good
    BY <2>1 DEF Bindings!ApplyTimer, Bindings!ApplyRefused, AppliedRuns
  <2>2. CASE expression \in Bindings!Good
    <3>1. v6' = [part |-> "all", contract |-> <<type, expression>>]
      BY <2>2 DEF Bindings!ApplyTimer, Bindings!Apply
    <3>2. ASSUME Len(v1'.events) <= 1
          PROVE  Bindings!Run(v1, v3)' = <<type, expression>>
      <4>1. Bindings!Has(v1, "TIMER")' /\ Len(v1'.events) = 1
        <5>1. CASE found
          <6>1. Len(v1.events) = 1 /\ v1.events[1] = "TIMER" /\ v1'.events = v1.events
            BY <1>2, <1>4, <1>6, <1>7, <3>2, <5>1, OneEvent, ElementFacts
          <6> QED
            BY <6>1 DEF Bindings!Has, Bindings!ToSet
        <5>2. CASE ~found
          <6>1. v1'.events = <<"TIMER">>
            BY <1>4, <1>6, <1>7, <5>2
          <6> QED
            BY <6>1 DEF Bindings!Has, Bindings!ToSet
        <5> QED
          BY <5>1, <5>2
      <4>2. /\ v1'.type = "IntermediateCatchEvent" /\ v1'.attr["cycle"] = "none"
            /\ v1'.attr["duration"] = (IF type = "DURATION" THEN expression ELSE "none")
            /\ v1'.attr["date"] = (IF type = "DATE" THEN expression ELSE "none")
        BY <1>1, <1>6, <1>7
      <4>3. Bindings!TimerOf(v1)' = <<type, expression>>
        BY <2>2, <4>1, <4>2 DEF Bindings!TimerOf, Bindings!Trim, Bindings!Present, Bindings!OneExpression, Bindings!Good
      <4>4. <<type, expression>> # None
        <5>1. type \in Bindings!Words /\ expression \in Bindings!Words
          BY DEF Bindings!Words, Bindings!Text
        <5> QED
          BY <5>1, NoContract
      <4> QED
        BY <4>2, <4>3, <4>4 DEF Bindings!Run
    <3> QED
      BY <3>1, <3>2 DEF AppliedRuns
  <2> QED
    BY <2>1, <2>2
<1> QED
  BY <1>7, <1>8 DEF BindingsInv

\* The message of an element gets a name; it is a new one if there is none.
LEMMA Named ==
  ASSUME NEW roots, MessagesOk(roots), NEW at \in 1..Len(roots),
         NEW name \in Bindings!Text
  PROVE  LET named == [roots EXCEPT ![at] = <<roots[at][1], name>>]
         IN MessagesOk(named) /\ Len(named) = Len(roots) /\ named[at][2] = name
<1>1. roots \in Seq({"own", "foreign"} \X Bindings!Text) /\ roots[at] \in {"own", "foreign"} \X Bindings!Text
  BY DEF MessagesOk
<1>2. <<roots[at][1], name>> \in {"own", "foreign"} \X Bindings!Text
  BY <1>1
<1> QED
  BY <1>1, <1>2 DEF MessagesOk

LEMMA Contracts ==
  ASSUME BindingsInv, NEW name \in Bindings!Good, NEW values, DOMAIN values \subseteq {"correlation", "mapping"},
         \A a \in DOMAIN values : values[a] \in Bindings!Text, Bindings!Execute(Bindings!Contract(name, values))
  PROVE  /\ v2' = v2 /\ ElementOk(v1, v3)' /\ v5' \in Seq(States)
         /\ v1'.type = v1.type /\ v1'.events = <<"MESSAGE">> /\ Bindings!Name(v1, v3)' = name
         /\ \A a \in DOMAIN values : v1'.attr[a] = values[a]
<1> DEFINE new == v1.message = 0
           at == IF new THEN Len(v3) + 1 ELSE v1.message
           roots == IF new THEN Append(v3, <<"own", "none">>) ELSE v3
           named == [roots EXCEPT ![at] = <<roots[at][1], name>>]
           linked == IF Bindings!Has(v1, "MESSAGE") THEN [v1 EXCEPT !.message = at] ELSE v1
           replaced == Replacing(v1, "MESSAGE", at)
           cleared == Bindings!Set(replaced, Bindings!NoTimer)
           final == Bindings!Set(cleared, values)
           step(e, r) == [element |-> e, messages |-> r]
           first == IF new THEN <<step(v1, roots)>> ELSE <<>>
           all == first \o <<step(v1, named), step(linked, named), step(final, named)>>
<1>1. Bindings!Execute(all)
  BY DEF Bindings!Contract, Replacing
<1>2. ElementOk(v1, v3) /\ v1 \in Bindings!Element /\ MessagesOk(v3)
      /\ v1.message \in 0..Len(v3)
  BY DEF BindingsInv, ElementOk, MessagesOk
<1>3. /\ MessagesOk(roots) /\ Len(v3) <= Len(roots)
      /\ at \in 1..Len(roots)
  <2>1. <<"own", "none">> \in {"own", "foreign"} \X Bindings!Text
    BY DEF Bindings!Text
  <2>2. CASE new
    <3>1. roots = Append(v3, <<"own", "none">>) /\ at = Len(v3) + 1
      BY <2>2
    <3>2. v3 \in Seq({"own", "foreign"} \X Bindings!Text) /\ Len(v3) \in Nat \ {0}
      BY <1>2 DEF MessagesOk
    <3>3. /\ roots \in Seq({"own", "foreign"} \X Bindings!Text) /\ roots # <<>> /\ Len(roots) = Len(v3) + 1
          /\ roots[Len(v3) + 1][1] = "own" /\ \A n \in 1..Len(v3) : roots[n] = v3[n]
      BY <2>1, <3>1, <3>2
    <3> HIDE DEF roots
    <3>4. \A n \in 1..Len(roots) : roots[n][1] = IF n = 1 THEN "foreign" ELSE "own"
      <4> TAKE n \in 1..Len(roots)
      <4>1. CASE n \in 1..Len(v3)
        BY <1>2, <3>3, <4>1 DEF MessagesOk
      <4>2. CASE n = Len(v3) + 1
        BY <3>2, <3>3, <4>2
      <4> QED
        BY <3>2, <3>3, <4>1, <4>2
    <3>5. MessagesOk(roots)
      BY <3>3, <3>4 DEF MessagesOk
    <3> QED
      BY <3>1, <3>2, <3>3, <3>5
  <2>3. CASE ~new
    BY <1>2, <2>3
  <2> QED
    BY <2>2, <2>3
<1>4. /\ MessagesOk(named) /\ Len(named) = Len(roots)
      /\ named[at][2] = name
  <2>1. name \in Bindings!Text
    BY DEF Bindings!Good, Bindings!Text
  <2> HIDE DEF roots, at
  <2> QED
    BY <1>3, <2>1, Named
<1>5. ElementOk(v1, roots) /\ ElementOk(v1, named)
  <2> HIDE DEF roots, named
  <2> QED
    BY <1>2, <1>3, <1>4 DEF ElementOk
<1>6. at \in 1..Len(named)
  BY <1>3, <1>4
<1>7. ElementOk(linked, named)
  <2>1. CASE Bindings!Has(v1, "MESSAGE")
    <3>1. linked = [id |-> v1.id, type |-> v1.type, home |-> v1.home, events |-> v1.events, attr |-> v1.attr,
                    message |-> at]
      BY <1>2, <2>1 DEF Bindings!Element
    <3> HIDE DEF linked, named, at
    <3> QED
      BY <1>2, <1>5, <1>6, <3>1 DEF ElementOk, Bindings!Element
  <2>2. CASE ~Bindings!Has(v1, "MESSAGE")
    BY <1>5, <2>2
  <2> QED
    BY <2>1, <2>2
<1>8. /\ ElementOk(replaced, named) /\ replaced.events = <<"MESSAGE">> /\ replaced.message = at
      /\ replaced.type = v1.type
  <2>1. PICK event : event = "MESSAGE"
    OBVIOUS
  <2>2. replaced = Replacing(v1, event, at)
    BY <2>1
  <2> HIDE DEF named, at, replaced
  <2> QED
    BY <1>5, <1>6, <2>1, <2>2, Replaced
<1>9. /\ ElementOk(cleared, named) /\ cleared.events = <<"MESSAGE">> /\ cleared.message = at
      /\ cleared.type = v1.type
  <2>1. replaced \in Bindings!Element
    BY <1>8 DEF ElementOk
  <2> HIDE DEF named, at, replaced
  <2> QED
    BY <1>8, <2>1, SetOk, SetFacts, NoTimerFacts DEF Bindings!Text
<1>10. /\ ElementOk(final, named) /\ final.events = <<"MESSAGE">> /\ final.message = at
       /\ final.type = v1.type /\ \A a \in DOMAIN values : final.attr[a] = values[a]
  <2>1. cleared \in Bindings!Element
    BY <1>9 DEF ElementOk
  <2>2. DOMAIN values \subseteq Bindings!Attributes
    BY DEF Bindings!Attributes
  <2> HIDE DEF named, at, cleared
  <2>3. ElementOk(final, named)
    BY <1>9, SetOk
  <2>4. final = [id |-> cleared.id, type |-> cleared.type, home |-> cleared.home, events |-> cleared.events,
                 attr |-> [a \in Bindings!Attributes |-> IF a \in DOMAIN values THEN values[a] ELSE cleared.attr[a]],
                 message |-> cleared.message]
    BY <2>1, SetFacts
  <2> HIDE DEF final
  <2> QED
    BY <1>9, <2>2, <2>3, <2>4
<1>11. \A e, r : ElementOk(e, r) => step(e, r) \in States /\ step(e, r).element = e /\ step(e, r).messages = r
  BY DEF States, ElementOk, MessagesOk
<1>12. all \in Seq(States) /\ all # <<>> /\ all[Len(all)] = step(final, named)
  <2> HIDE DEF step, roots, named, linked, final, new
  <2>1. /\ step(v1, roots) \in States /\ step(v1, named) \in States /\ step(linked, named) \in States
        /\ step(final, named) \in States
    BY <1>5, <1>7, <1>10, <1>11
  <2>2. first \in Seq(States)
    BY <2>1
  <2> HIDE DEF first
  <2> QED
    BY <2>1, <2>2
<1>13. /\ v1' = final /\ v3' = named /\ v2' = v2 /\ ElementOk(v1, v3)' /\ v5' \in Seq(States)
  <2> HIDE DEF step, named, final, all
  <2> QED
    BY <1>1, <1>10, <1>11, <1>12, Executes
<1>14. Bindings!Name(v1, v3)' = name
  <2>1. v1'.message = at /\ at # 0
    BY <1>3, <1>10, <1>13
  <2> HIDE DEF at, named, final
  <2> QED
    BY <1>4, <1>13, <2>1 DEF Bindings!Name
<1> HIDE DEF final, named
<1> QED
  BY <1>10, <1>13, <1>14

LEMMA MessageRuns ==
  ASSUME NEW e, NEW roots, e.events = <<"MESSAGE">>, Bindings!Name(e, roots) \in Bindings!Good,
         e.attr["correlation"] \in Bindings!Good,
         e.type = "IntermediateThrowEvent" => Bindings!Mapping(e.attr["mapping"]),
         e.type \in {"IntermediateCatchEvent", "IntermediateThrowEvent"}
  PROVE  Bindings!Run(e, roots) =
           <<Bindings!Name(e, roots), e.attr["correlation"],
             IF e.type = "IntermediateThrowEvent" THEN e.attr["mapping"] ELSE "none">>
<1>1. Bindings!Has(e, "MESSAGE") /\ ~Bindings!Has(e, "TIMER") /\ Len(e.events) = 1
  BY DEF Bindings!Has, Bindings!ToSet
<1>2. Bindings!TimerOf(e) = None
  BY <1>1 DEF Bindings!TimerOf
<1>3. Bindings!Run(e, roots) = Bindings!MessageOf(e, roots)
  BY <1>2 DEF Bindings!Run
<1> QED
  BY <1>1, <1>3 DEF Bindings!MessageOf

LEMMA AppliesMessage ==
  ASSUME BindingsInv, NEW name \in {"good", "other"}, NEW correlation \in {"good", "other"},
         Bindings!ApplyMessage(name, correlation)
  PROVE  BindingsInv'
<1>1. PICK values : values = [correlation |-> correlation]
  OBVIOUS
<1>2. DOMAIN values = {"correlation"} /\ values["correlation"] = correlation
  BY <1>1
<1>3. v1.type = "IntermediateCatchEvent" /\ Bindings!Execute(Bindings!Contract(name, values))
  BY <1>1 DEF Bindings!ApplyMessage
<1>4. name \in Bindings!Good /\ correlation \in Bindings!Good /\ correlation \in Bindings!Text
  BY DEF Bindings!Good, Bindings!Text
<1>5. /\ v2' = v2 /\ ElementOk(v1, v3)' /\ v5' \in Seq(States)
      /\ v1'.type = v1.type /\ v1'.events = <<"MESSAGE">> /\ Bindings!Name(v1, v3)' = name
      /\ v1'.attr["correlation"] = correlation
  BY <1>2, <1>3, <1>4, Contracts
<1>6. Bindings!Run(v1, v3)' = <<name, correlation, "none">>
  <2>1. Bindings!Run(v1', v3') = <<Bindings!Name(v1', v3'), v1'.attr["correlation"], "none">>
    BY <1>3, <1>4, <1>5, MessageRuns
  <2> QED
    BY <1>5, <2>1
<1>7. v6' = [part |-> "all", contract |-> <<name, correlation, "none">>]
  BY DEF Bindings!ApplyMessage, Bindings!Apply
<1>8. AppliedRuns'
  BY <1>6, <1>7 DEF AppliedRuns
<1> QED
  BY <1>5, <1>8 DEF BindingsInv

LEMMA AppliesMessageThrow ==
  ASSUME BindingsInv, NEW name \in {"good", "other"}, NEW correlation \in {"good", "other"},
         NEW mapping \in {"none", "good", "bad"}, Bindings!ApplyMessageThrow(name, correlation, mapping)
  PROVE  BindingsInv'
<1>1. PICK values : values = [correlation |-> correlation, mapping |-> mapping]
  OBVIOUS
<1>2. DOMAIN values = {"correlation", "mapping"} /\ values["correlation"] = correlation
      /\ values["mapping"] = mapping
  BY <1>1
<1>3. v1.type = "IntermediateThrowEvent" /\ Bindings!Execute(Bindings!Contract(name, values))
  BY <1>1 DEF Bindings!ApplyMessageThrow
<1>4. name \in Bindings!Good /\ correlation \in Bindings!Good /\ {correlation, mapping} \subseteq Bindings!Text
  BY DEF Bindings!Good, Bindings!Text
<1>5. /\ v2' = v2 /\ ElementOk(v1, v3)' /\ v5' \in Seq(States)
      /\ v1'.type = v1.type /\ v1'.events = <<"MESSAGE">> /\ Bindings!Name(v1, v3)' = name
      /\ v1'.attr["correlation"] = correlation /\ v1'.attr["mapping"] = mapping
  BY <1>2, <1>3, <1>4, Contracts
<1>6. CASE Bindings!Mapping(mapping)
  <2>1. Bindings!Run(v1, v3)' = <<name, correlation, mapping>>
    <3>1. Bindings!Run(v1', v3') = <<Bindings!Name(v1', v3'), v1'.attr["correlation"], v1'.attr["mapping"]>>
      BY <1>3, <1>4, <1>5, <1>6, MessageRuns
    <3> QED
      BY <1>5, <3>1
  <2>2. v6' = [part |-> "all", contract |-> <<name, correlation, mapping>>]
    BY <1>6 DEF Bindings!ApplyMessageThrow, Bindings!Apply
  <2>3. AppliedRuns'
    BY <2>1, <2>2 DEF AppliedRuns
  <2> QED
    BY <1>5, <2>3 DEF BindingsInv
<1>7. CASE ~Bindings!Mapping(mapping)
  <2>1. AppliedRuns'
    BY <1>7 DEF Bindings!ApplyMessageThrow, Bindings!ApplyRefused, AppliedRuns
  <2> QED
    BY <1>5, <2>1 DEF BindingsInv
<1> QED
  BY <1>6, <1>7

\* Another kind of event, with its attributes taken out or the correlation kept.
LEMMA Morphs ==
  ASSUME BindingsInv, NEW event \in {"TIMER", "MESSAGE"}, Bindings!Morph(event)
  PROVE  BindingsInv'
<1>1. PICK kept \in BOOLEAN :
        Bindings!Execute(<<[Bindings!State EXCEPT !.element =
          [Bindings!Set(v1, IF kept THEN Bindings!NoTimer ELSE Bindings!NoEvent) EXCEPT
             !.events = <<event>>, !.message = 0]]>>)
  BY DEF Bindings!Morph
<1> DEFINE values == IF kept THEN Bindings!NoTimer ELSE Bindings!NoEvent
           cleared == Bindings!Set(v1, values)
<1>2. DOMAIN values \subseteq {"duration", "date", "cycle", "correlation"} /\ \A a \in DOMAIN values : values[a] = "none"
  BY NoTimerFacts DEF Bindings!NoEvent
<1>3. ElementOk(v1, v3) /\ v1 \in Bindings!Element /\ 0 \in 0..Len(v3)
  BY DEF BindingsInv, ElementOk
<1>4. ElementOk(cleared, v3)
  <2>1. \A a \in DOMAIN values : values[a] \in Bindings!Text
    BY <1>2 DEF Bindings!Text
  <2> HIDE DEF values
  <2> QED
    BY <1>2, <1>3, <2>1, SetOk
<1>5. PICK s : s = [element |-> Replacing(cleared, event, 0), messages |-> v3]
  OBVIOUS
<1>6. Bindings!Execute(<<s>>)
  BY <1>1, <1>5 DEF Bindings!State, Replacing
<1>7. s \in States
  <2>1. ElementOk(Replacing(cleared, event, 0), v3)
    <3> HIDE DEF cleared
    <3> QED
      BY <1>3, <1>4, Replaced
  <2> HIDE DEF cleared
  <2> QED
    BY <1>5, <2>1 DEF States, ElementOk, MessagesOk
<1>8. v2' = v2 /\ ElementOk(v1, v3)' /\ v5' \in Seq(States)
  <2>1. <<s>> \in Seq(States) /\ <<s>> # <<>>
    BY <1>7
  <2> QED
    BY <1>6, <2>1, Executes
<1>9. v6' = None
  BY DEF Bindings!Morph
<1> QED
  BY <1>8, <1>9 DEF BindingsInv, AppliedRuns

LEMMA Undoes ==
  ASSUME BindingsInv, Bindings!Undo
  PROVE  BindingsInv'
<1>1. /\ v5 \in Seq(States) /\ v5 # <<>> /\ v1' = v5[Len(v5)].element /\ v3' = v5[Len(v5)].messages
      /\ v5' = SubSeq(v5, 1, Len(v5) - 1) /\ v6' = None /\ v2' = v2
  BY DEF BindingsInv, Bindings!Undo
<1>2. v5[Len(v5)] \in States /\ v5' \in Seq(States)
  BY <1>1
<1>3. ElementOk(v1, v3)'
  BY <1>1, <1>2 DEF States, ElementOk
<1> QED
  BY <1>1, <1>2, <1>3 DEF BindingsInv, AppliedRuns

\* A file has two messages that are read at most: the one that it had, and the
\* first of those that share an id.
Readable(roots) == IF Len(roots) = 1 THEN 1 ELSE 2

LEMMA FirstsAreRead ==
  ASSUME NEW roots, MessagesOk(roots)
  PROVE  /\ Readable(roots) \in 1..Len(roots)
         /\ Bindings!FirstIds(roots) = 1..Readable(roots)
         /\ Bindings!Cardinality(Bindings!FirstIds(roots)) = Readable(roots)
<1>1. Len(roots) \in Nat \ {0} /\ DOMAIN roots = 1..Len(roots)
  BY DEF MessagesOk
<1>2. Readable(roots) \in 1..Len(roots)
  BY <1>1 DEF Readable
<1>3. \A n \in 1..Len(roots) : n <= 2 <=> \A k \in 1..(n - 1) : roots[k][1] # roots[n][1]
  <2> TAKE n \in 1..Len(roots)
  <2>1. CASE n <= 2
    BY <1>1, <2>1 DEF MessagesOk
  <2>2. CASE n > 2
    <3>1. 2 \in 1..(n - 1) /\ roots[2][1] = "own" /\ roots[n][1] = "own"
      BY <1>1, <2>2 DEF MessagesOk
    <3> QED
      BY <2>2, <3>1
  <2> QED
    BY <1>1, <2>1, <2>2
<1>4. Bindings!FirstIds(roots) = 1..Readable(roots)
  BY <1>1, <1>3 DEF Bindings!FirstIds, Readable
<1>5. Cardinality(1..Readable(roots)) = Readable(roots)
  BY <1>1, <1>2, FS_Interval
<1>6. Bindings!Cardinality(1..Readable(roots)) = Cardinality(1..Readable(roots))
  BY Zenon DEF Bindings!Cardinality, Cardinality
<1> QED
  BY <1>2, <1>4, <1>5, <1>6

LEMMA Positions ==
  ASSUME NEW e, NEW roots, ElementOk(e, roots)
  PROVE  /\ Bindings!Position(e, roots) \in 0..Readable(roots)
         /\ Readable(roots) = Len(roots) => Bindings!Position(e, roots) = e.message
<1>1. /\ MessagesOk(roots) /\ e.message \in 0..Len(roots) /\ Len(roots) \in Nat \ {0}
      /\ Bindings!FirstIds(roots) = 1..Readable(roots) /\ Readable(roots) \in 1..Len(roots)
  BY FirstsAreRead DEF ElementOk, MessagesOk
<1>2. CASE e.message = 0
  BY <1>1, <1>2 DEF Bindings!Position
<1>3. CASE e.message # 0
  <2> DEFINE found == {n \in 1..Readable(roots) : roots[n][1] = roots[e.message][1]}
  <2>1. Bindings!Position(e, roots) = CHOOSE n \in 1..Readable(roots) : roots[n][1] = roots[e.message][1]
    BY <1>1, <1>3 DEF Bindings!Position, Bindings!Ref
  <2>2. \E n \in 1..Readable(roots) : roots[n][1] = roots[e.message][1]
    <3>1. CASE e.message = 1
      BY <1>1, <3>1
    <3>2. CASE e.message > 1
      <4>1. Readable(roots) = 2 /\ roots[2][1] = "own" /\ roots[e.message][1] = "own"
        BY <1>1, <3>2 DEF Readable, MessagesOk
      <4> QED
        BY <4>1
    <3> QED
      BY <1>1, <1>3, <3>1, <3>2
  <2>3. /\ Bindings!Position(e, roots) \in 1..Readable(roots)
        /\ roots[Bindings!Position(e, roots)][1] = roots[e.message][1]
    BY <2>1, <2>2
  <2>4. ASSUME Readable(roots) = Len(roots)
        PROVE  Bindings!Position(e, roots) = e.message
    <3>1. \A n, m \in 1..Len(roots) : roots[n][1] = roots[m][1] => n = m
      BY <1>1, <2>4 DEF Readable, MessagesOk
    <3> QED
      BY <1>1, <1>3, <2>3, <2>4, <3>1
  <2> QED
    BY <1>1, <2>3, <2>4
<1> QED
  BY <1>2, <1>3

\* When all messages are read, the element refers to the one it referred to.
LEMMA RereadIsSame ==
  ASSUME ElementOk(v1, v3), Bindings!AllRead
  PROVE  Bindings!Reread = v1 /\ Readable(v3) = Len(v3)
<1>1. Readable(v3) = Len(v3)
  <2>1. 1..Readable(v3) = 1..Len(v3) /\ Readable(v3) \in 1..Len(v3) /\ Len(v3) \in Nat
    BY FirstsAreRead DEF ElementOk, MessagesOk, Bindings!AllRead
  <2>2. Len(v3) \in 1..Readable(v3)
    BY <2>1
  <2> QED
    BY <2>1, <2>2
<1>2. Bindings!Position(v1, v3) = v1.message
  BY <1>1, Positions
<1> QED
  BY <1>1, <1>2 DEF Bindings!Reread, ElementOk, Bindings!Element

LEMMA Reloads ==
  ASSUME BindingsInv, Bindings!Reload
  PROVE  BindingsInv'
<1>1. ElementOk(v1, v3) /\ v1 \in Bindings!Element /\ MessagesOk(v3)
  BY DEF BindingsInv, ElementOk
<1>2. /\ v3' = SubSeq(v3, 1, Readable(v3)) /\ Readable(v3) \in 1..Len(v3)
      /\ v1' = [v1 EXCEPT !.message = Bindings!Position(v1, v3)]
      /\ v5' = <<>> /\ v2' = v2 /\ v6' = IF Bindings!AllRead THEN v6 ELSE None
  BY <1>1, FirstsAreRead DEF Bindings!Reload, Bindings!Reread
<1>3. MessagesOk(v3') /\ Len(v3') = Readable(v3)
  BY <1>1, <1>2 DEF MessagesOk
<1>4. Bindings!Position(v1, v3) \in 0..Readable(v3)
  BY <1>1, Positions
<1>5. v1' = [id |-> v1.id, type |-> v1.type, home |-> v1.home, events |-> v1.events, attr |-> v1.attr,
             message |-> Bindings!Position(v1, v3)]
  BY <1>1, <1>2 DEF Bindings!Element
<1>6. ElementOk(v1, v3)'
  BY <1>1, <1>3, <1>4, <1>5 DEF ElementOk, Bindings!Element
<1>7. AppliedRuns'
  <2>1. CASE Bindings!AllRead
    <3>1. Bindings!Reread = v1 /\ Readable(v3) = Len(v3)
      BY <1>1, <2>1, RereadIsSame
    <3>2. v1' = v1 /\ v6' = v6
      BY <1>2, <2>1, <3>1 DEF Bindings!Reread
    <3>3. v3' = v3
      BY <1>1, <1>2, <3>1 DEF MessagesOk
    <3> QED
      BY <3>2, <3>3 DEF BindingsInv, AppliedRuns
  <2>2. CASE ~Bindings!AllRead
    BY <1>2, <2>2 DEF AppliedRuns
  <2> QED
    BY <2>1, <2>2
<1> QED
  BY <1>2, <1>6, <1>7 DEF BindingsInv

LEMMA BindingsPreserved ==
  ASSUME BindingsInv, [Bindings!Next]_Bindings!vars
  PROVE  BindingsInv'
<1>1. CASE UNCHANGED <<v1, v2, v3, v5, v6>>
  BY <1>1 DEF BindingsInv, ElementOk, AppliedRuns
<1>2. CASE Bindings!Select
  BY <1>1, <1>2 DEF Bindings!Select
<1>3. CASE UNCHANGED Bindings!vars
  BY <1>1, <1>3 DEF Bindings!vars
<1> QED
  BY <1>2, <1>3, AppliesForm, AppliesOwner, AppliesDecision, AppliesJob, AppliesTimer, AppliesMessage,
     AppliesMessageThrow, Morphs, Undoes, Reloads DEF Bindings!Next, Bindings!Good

\* What was applied in the panel is what the runtime reads from the saved file.
LEMMA AppliedIsSaved ==
  ASSUME BindingsInv
  PROVE  Bindings!AppliedIsRun
<1> SUFFICES ASSUME v6 # None, Len(v1.events) <= 1, Bindings!AllRead
             PROVE  Bindings!AppliedIsRun
  BY DEF Bindings!AppliedIsRun
<1>1. Bindings!Reread = v1
  BY RereadIsSame DEF BindingsInv
<1> QED
  BY <1>1 DEF Bindings!AppliedIsRun, BindingsInv, AppliedRuns

-----------------------------------------------------------------------------
(* The workspace.                                                           *)

\* What each component keeps true.
ComponentInv ==
  /\ part = "bindings" => BindingsInv
  /\ part = "team" => Team!IInv
  /\ part = "talk" => Team!TalkInv
  /\ part = "tools" => Team!ToolsInv
  /\ part = "repeats" => Repeats!IInv
  /\ part = "decision" => Repeats!TableInv
  /\ part = "preview" => Repeats!PreviewInv

LEMMA WorkspaceInitially == WorkspaceInit => ComponentInv
<1> SUFFICES ASSUME WorkspaceInit
             PROVE  ComponentInv
  OBVIOUS
<1>1. part = "team" => Team!IInv
  BY PeopleAssumption, Team!Initially DEF WorkspaceInit
<1>2. part = "talk" => Team!TalkInv
  BY Team!TalkInitially DEF WorkspaceInit
<1>3. part = "tools" => Team!ToolsInv
  BY Team!ToolsInitially DEF WorkspaceInit
<1>4. part = "repeats" => Repeats!IInv
  BY Repeats!Initially DEF WorkspaceInit
<1>5. part = "decision" => Repeats!TableInv
  BY TablesAssumption, Repeats!TableInitially DEF WorkspaceInit
<1>6. part = "preview" => Repeats!PreviewInv
  BY Repeats!PreviewInitially DEF WorkspaceInit
<1>7. part = "bindings" => BindingsInv
  BY BindingsInitially DEF WorkspaceInit
<1> QED
  BY <1>1, <1>2, <1>3, <1>4, <1>5, <1>6, <1>7 DEF ComponentInv

\* The workspace stays the component it is.
LEMMA PartStays ==
  ASSUME [WorkspaceNext]_workspaceVars
  PROVE  part' = part
BY DEF WorkspaceNext, workspaceVars, Only, InProfile, InBindings, InDecision, InTools, InTalk, InTeam,
       InPreview, InRepeats

\* A step of the workspace is one of that component, or none of it.
LEMMA BindingsSteps ==
  ASSUME part = "bindings", [WorkspaceNext]_workspaceVars
  PROVE  [Bindings!Next]_Bindings!vars
BY DEF WorkspaceNext, workspaceVars, Bindings!Next, Bindings!vars, Bindings!Good, Only, InProfile, InBindings,
       InDecision, InTools, InTalk, InTeam, InPreview, InRepeats

LEMMA TeamSteps ==
  ASSUME part = "team", [WorkspaceNext]_workspaceVars
  PROVE  [Team!Next]_Team!vars
BY DEF WorkspaceNext, workspaceVars, Team!Next, Team!vars, Only, InProfile, InBindings,
       InDecision, InTools, InTalk, InTeam, InPreview, InRepeats

LEMMA TalkSteps ==
  ASSUME part = "talk", [WorkspaceNext]_workspaceVars
  PROVE  [Team!Talk!Next]_Team!Talk!vars
BY DEF WorkspaceNext, workspaceVars, Team!Talk!Next, Team!Talk!vars, Team!Talk!Arrive, Team!Talk!Lose, Only, InProfile, InBindings,
       InDecision, InTools, InTalk, InTeam, InPreview, InRepeats

LEMMA ToolsSteps ==
  ASSUME part = "tools", [WorkspaceNext]_workspaceVars
  PROVE  [Team!Tools!Next]_Team!Tools!vars
BY DEF WorkspaceNext, workspaceVars, Team!Tools!Next, Team!Tools!vars, Only, InProfile, InBindings,
       InDecision, InTools, InTalk, InTeam, InPreview, InRepeats

LEMMA RepeatsSteps ==
  ASSUME part = "repeats", [WorkspaceNext]_workspaceVars
  PROVE  [Repeats!Next]_Repeats!vars
BY DEF WorkspaceNext, workspaceVars, Repeats!Next, Repeats!vars, Only, InProfile, InBindings,
       InDecision, InTools, InTalk, InTeam, InPreview, InRepeats

LEMMA DecisionSteps ==
  ASSUME part = "decision", [WorkspaceNext]_workspaceVars
  PROVE  [Repeats!Table!Next]_Repeats!Table!vars
BY DEF WorkspaceNext, workspaceVars, Repeats!Table!Next, Repeats!Table!vars, Only, InProfile, InBindings,
       InDecision, InTools, InTalk, InTeam, InPreview, InRepeats

LEMMA PreviewSteps ==
  ASSUME part = "preview", [WorkspaceNext]_workspaceVars
  PROVE  [Repeats!Preview!Next]_Repeats!Preview!vars
BY DEF WorkspaceNext, workspaceVars, Repeats!Preview!Next, Repeats!Preview!vars, Only, InProfile, InBindings,
       InDecision, InTools, InTalk, InTeam, InPreview, InRepeats

LEMMA WorkspacePreserves ==
  ASSUME ComponentInv, [WorkspaceNext]_workspaceVars
  PROVE  ComponentInv'
<1>1. part' = part
  BY PartStays
<1>2. CASE part = "team"
  <2>1. Team!IInv'
    BY <1>2, TeamSteps, Team!Preserved DEF ComponentInv
  <2> QED
    BY <1>1, <1>2, <2>1 DEF ComponentInv
<1>3. CASE part = "talk"
  <2>1. Team!TalkInv'
    BY <1>3, TalkSteps, Team!TalkPreserved DEF ComponentInv
  <2> QED
    BY <1>1, <1>3, <2>1 DEF ComponentInv
<1>4. CASE part = "tools"
  <2>1. Team!ToolsInv'
    BY <1>4, ToolsSteps, Team!ToolsPreserved DEF ComponentInv
  <2> QED
    BY <1>1, <1>4, <2>1 DEF ComponentInv
<1>5. CASE part = "repeats"
  <2>1. Repeats!IInv'
    BY <1>5, AnswersAssumption, RepeatsSteps, Repeats!Preserved DEF ComponentInv
  <2> QED
    BY <1>1, <1>5, <2>1 DEF ComponentInv
<1>6. CASE part = "decision"
  <2>1. Repeats!TableInv'
    BY <1>6, TablesAssumption, DecisionSteps, Repeats!TablePreserved DEF ComponentInv
  <2> QED
    BY <1>1, <1>6, <2>1 DEF ComponentInv
<1>7. CASE part = "preview"
  <2>1. Repeats!PreviewInv'
    BY <1>7, DraftsAssumption, PreviewSteps, Repeats!PreviewPreserved DEF ComponentInv
  <2> QED
    BY <1>1, <1>7, <2>1 DEF ComponentInv
<1>8. CASE part = "bindings"
  <2>1. BindingsInv'
    BY <1>8, BindingsSteps, BindingsPreserved DEF ComponentInv
  <2> QED
    BY <1>1, <1>8, <2>1 DEF ComponentInv
<1>9. CASE part \notin {"bindings", "team", "talk", "tools", "repeats", "decision", "preview"}
  BY <1>1, <1>9 DEF ComponentInv
<1> QED
  BY <1>2, <1>3, <1>4, <1>5, <1>6, <1>7, <1>8, <1>9

LEMMA ComponentsHold == WorkspaceSpec => []ComponentInv
<1>1. WorkspaceInit => ComponentInv
  BY WorkspaceInitially
<1>2. ComponentInv /\ [WorkspaceNext]_workspaceVars => ComponentInv'
  BY WorkspacePreserves
<1> QED
  BY <1>1, <1>2, PTL DEF WorkspaceSpec

\* Of an element that is accepted, the panel shows what the runtime will do
\* (selectedElement against listBpmn*).
THEOREM PanelShowsTheRun == WorkspaceSpec => []ShownIsRun
<1>1. ComponentInv => ShownIsRun
  BY ElementShown DEF ComponentInv, BindingsInv, ShownIsRun
<1> QED
  BY <1>1, ComponentsHold, PTL

\* What was applied last is what the runtime reads from the saved file, whatever
\* was edited, taken back and read again before (set...Binding and listBpmn*).
THEOREM PanelSetsTheRun == WorkspaceSpec => []AppliedIsRun
<1>1. ComponentInv => AppliedIsRun
  BY AppliedIsSaved DEF ComponentInv, AppliedIsRun
<1> QED
  BY <1>1, ComponentsHold, PTL

\* When all of a file is executable and the profile starts it, no wait without a
\* binding is met: counting is enough (assertRuntimeProfile, waitsFrom).
THEOREM CountingIsEnough == WorkspaceSpec => []WaitsAreBound
<1>1. ComponentInv => WaitsAreBound
  BY BoundWaits DEF ComponentInv, BindingsInv, ElementOk, WaitsAreBound
<1> QED
  BY <1>1, ComponentsHold, PTL

\* Who has accepted an invitation can sign in and is a member of its workspace,
\* although requests take accounts back (the accept route).
THEOREM PeopleSignIn == WorkspaceSpec => []AcceptedCanSignIn
<1>1. ComponentInv => AcceptedCanSignIn
  BY DEF ComponentInv, AcceptedCanSignIn, Team!IInv
<1> QED
  BY <1>1, ComponentsHold, PTL

\* Authority over a workspace is never handed on from another one
\* (resolvePrincipalContext, createInvitation, acceptInvitation).
THEOREM AuthorityStays == WorkspaceSpec => []AuthorityIsHandedOn
<1>1. ComponentInv => AuthorityIsHandedOn
  BY DEF ComponentInv, AuthorityIsHandedOn, Team!IInv
<1> QED
  BY <1>1, ComponentsHold, PTL

\* The assistant is told nothing that is not on record
\* (recordAiChoiceResponse and the human tools).
THEOREM AssistantIsToldRecords == WorkspaceSpec => []ToldIsOnRecord
<1>1. ComponentInv => ToldIsOnRecord
  BY Team!TalkIsTold DEF ComponentInv, ToldIsOnRecord
<1> QED
  BY <1>1, ComponentsHold, PTL

\* Whatever tool calls race or break off, a key that an assistant is shown or
\* answered leads back to the artifact it was given for, and the revision of a
\* result holds what the call generated (the artifacts route and
\* ai_experience_one_main_idx).
THEOREM KeysAreKept == WorkspaceSpec => []KeysLeadBack
<1>1. ComponentInv => KeysLeadBack
  BY Team!ToolsLeadBack DEF ComponentInv, KeysLeadBack
<1> QED
  BY <1>1, ComponentsHold, PTL

\* All who send one key get the one answer to their request
\* (evaluateDecision, startProcessInstance).
THEOREM RetriesGetOneAnswer == WorkspaceSpec => []RetriesAgree
<1>1. ComponentInv => RetriesAgree
  BY AnswersAssumption, Repeats!Agree DEF ComponentInv, RetriesAgree
<1> QED
  BY <1>1, ComponentsHold, PTL

\* Rule by rule evaluation ends in what the whole table says
\* (evaluateParsedDmnDecision).
THEOREM TableDecides == WorkspaceSpec => []DecidedByTheTable
<1>1. ComponentInv => DecidedByTheTable
  BY DEF ComponentInv, DecidedByTheTable, Repeats!TableInv
<1> QED
  BY <1>1, ComponentsHold, PTL

\* The path that a preview shows is a path of one saved source
\* (simulateArtifactDraft, the envelope's deploymentHash).
THEOREM PreviewIsOnePath == WorkspaceSpec => []JourneyIsOnePath
<1>1. ComponentInv => JourneyIsOnePath
  BY DEF ComponentInv, JourneyIsOnePath, Repeats!PreviewInv
<1> QED
  BY <1>1, ComponentsHold, PTL

=============================================================================
