-------------------------------- MODULE Requests --------------------------------
(***************************************************************************)
(* Requests that carry an Idempotency-Key: the evaluation of a deployed    *)
(* decision and the start of a process instance.  The key is looked up     *)
(* before the transaction that inserts, so equal requests that run at the  *)
(* same time meet at a unique index.  A call may stay where it is: then    *)
(* the server has stopped or the answer was lost, before or after the row  *)
(* was inserted, and another call of the same request is its retry.        *)
(***************************************************************************)
EXTENDS Naturals, FiniteSets

CONSTANTS
  Calls,          \* the calls that are made, one request each
  Workspaces,
  Scopes,         \* workspaceScopeId of the callers: a workspace, or None
  Contents,       \* decision inputs, process variables
  BusinessKeys,
  Keys,           \* Idempotency-Keys
  None

\* What request_sha256 is taken of.  A deployment belongs to one workspace and,
\* here, to one environment.
Bodies ==
  [operation : {"evaluate"}, workspace : Workspaces, content : Contents, business : {None}] \cup
  [operation : {"start"}, workspace : Workspaces, content : Contents, business : BusinessKeys \cup {None}]

Phases == {"idle", "deployment", "lookup", "insert", "reload", "read", "done"}
Refusals == {"NOT_FOUND", "REUSED", "DUPLICATE"}

VARIABLES
  rows,    \* decision_evaluations; process_instances with their START command
  call     \* the calls

vars == <<rows, call>>

\* A call inserts one row at most: the row is named after it.
TypeOK ==
  /\ rows \subseteq [id : Calls, key : Keys \cup {None}, body : Bodies]
  /\ \A c \in Calls : call[c].phase \in Phases /\ call[c].answer \in Calls \cup Refusals \cup {None}

Init ==
  /\ rows = {}
  /\ call = [c \in Calls |-> [phase |-> "idle", answer |-> None]]

-----------------------------------------------------------------------------
Sees(scope, workspace) == scope \in {None, workspace}

\* The key is looked up in the organization for a start, among what the caller
\* may see for an evaluation.
Found(c) ==
  {r \in rows : /\ call[c].key # None /\ r.key = call[c].key
                /\ r.body.operation = call[c].body.operation
                /\ r.body.operation = "evaluate" => Sees(call[c].scope, r.body.workspace)}

GoTo(c, phase) == call' = [call EXCEPT ![c].phase = phase]
Answer(c, answer) == call' = [call EXCEPT ![c].phase = "done", ![c].answer = answer]

\* The hash tells whether the row is this request's.
Settle(c, row) == Answer(c, IF row.body = call[c].body THEN row.id ELSE "REUSED")

\* A start finds its deployment first, an evaluation looks its key up first.
Begin(c, body, key, scope) ==
  /\ call[c].phase = "idle"
  /\ call' = [call EXCEPT ![c] =
       [phase |-> IF body.operation = "start" THEN "deployment" ELSE "lookup",
        answer |-> None, body |-> body, key |-> key, scope |-> scope]]
  /\ UNCHANGED rows

FindDeployment(c) ==
  /\ call[c].phase = "deployment"
  /\ call[c].body.operation = "start"
  /\ IF Sees(call[c].scope, call[c].body.workspace) THEN GoTo(c, "lookup") ELSE Answer(c, "NOT_FOUND")
  /\ UNCHANGED rows

\* The decision in its deployment; it is evaluated here, too.
FindDecision(c) ==
  /\ call[c].phase = "deployment"
  /\ call[c].body.operation = "evaluate"
  /\ IF Sees(call[c].scope, call[c].body.workspace) THEN GoTo(c, "insert") ELSE Answer(c, "NOT_FOUND")
  /\ UNCHANGED rows

LookUp(c) ==
  /\ call[c].phase = "lookup"
  /\ IF Found(c) # {} THEN \E row \in Found(c) : Settle(c, row)
     ELSE GoTo(c, IF call[c].body.operation = "start" THEN "insert" ELSE "deployment")
  /\ UNCHANGED rows

\* Mutant: the index on the key is not unique.
TakenOnce(c) == FALSE

\* decision_evaluations_idempotency_idx, runtime_commands_idempotency_idx: the
\* key is unique in the organization.
KeyTaken(c) ==
  \E r \in rows : call[c].key # None /\ r.key = call[c].key /\ r.body.operation = call[c].body.operation

\* process_instances_business_key_idx: unique in the environment.
BusinessTaken(c) ==
  \E r \in rows : /\ call[c].body.business # None /\ r.body.business = call[c].body.business
                  /\ r.body.workspace = call[c].body.workspace

\* The transaction.  A unique violation (23505) leaves nothing behind.
Insert(c) ==
  /\ call[c].phase = "insert"
  /\ IF KeyTaken(c) \/ BusinessTaken(c)
     THEN GoTo(c, "reload") /\ UNCHANGED rows
     ELSE /\ rows' = rows \cup {[id |-> c, key |-> call[c].key, body |-> call[c].body]}
          /\ GoTo(c, "read")

\* Who met the index looks again for the row of the same request.
Again(c) ==
  IF Found(c) # {} THEN \E row \in Found(c) : Settle(c, row)
  ELSE Answer(c, IF call[c].body.operation = "start" THEN "DUPLICATE" ELSE "REUSED")

Reload(c) == call[c].phase = "reload" /\ Again(c) /\ UNCHANGED rows

\* getDecisionEvaluation, getProcessInstance
Read(c) == call[c].phase = "read" /\ Answer(c, c) /\ UNCHANGED rows

Next ==
  \E c \in Calls :
    \/ \E body \in Bodies, key \in Keys \cup {None}, scope \in Scopes : Begin(c, body, key, scope)
    \/ FindDeployment(c) \/ FindDecision(c) \/ LookUp(c) \/ Insert(c) \/ Reload(c) \/ Read(c)

Spec == Init /\ [][Next]_vars

-----------------------------------------------------------------------------
Answered == {c \in Calls : call[c].answer \in Calls}

\* However calls race, stop and are repeated: what a caller is answered was
\* made for this very request, all who send one key get the one answer, and
\* nobody is refused, as a duplicate or for reuse of the key, because of an
\* equal request.
RetriesAgree ==
  /\ \A c \in Answered : \E r \in rows : r.id = call[c].answer /\ r.body = call[c].body
  /\ \A c, d \in Answered :
       call[c].key = call[d].key /\ call[c].key # None /\ call[c].body.operation = call[d].body.operation
         => call[c].answer = call[d].answer
  /\ \A c \in Calls : call[c].answer \in {"REUSED", "DUPLICATE"} =>
       \A r \in rows : ~(r.key = call[c].key /\ r.key # None /\ r.body = call[c].body)

=============================================================================
