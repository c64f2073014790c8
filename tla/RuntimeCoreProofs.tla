-------------------------- MODULE RuntimeCoreProofs --------------------------
(***************************************************************************)
(* Theorems about RuntimeCore for every set of instances, commands and     *)
(* workers, every process path and every bound on leases: its invariants,  *)
(* that a finished instance is never touched again, and that every step is *)
(* a step, or a stutter, of InstanceLifecycle.                             *)
(***************************************************************************)
EXTENDS RuntimeCore, TLAPS

\* The path has a length, and every wait has a next revision.
LEMMA RevisionFacts ==
  /\ Len(Path) \in Nat
  /\ LastRevision = Len(Path) + 1
  /\ Waits = 1..Len(Path)
  /\ Revisions = 0..LastRevision
  BY PathAssumption DEF LastRevision, Waits, Revisions

\* One wait is closed and the next one opened.
LEMMA OneWaitLater ==
  ASSUME NEW r \in Nat, NEW v \in Nat, NEW before, NEW after,
         after = IF r = v /\ before = "OPEN" THEN "CLOSED" ELSE IF r = v + 1 THEN "OPEN" ELSE before,
         before = "OPEN" <=> r = v,
         before = "CLOSED" <=> r < v
  PROVE  /\ after = "OPEN" <=> r = v + 1
         /\ after = "CLOSED" <=> r < v + 1
<1>1. CASE r = v
  BY <1>1
<1>2. CASE r # v /\ r = v + 1
  BY <1>2
<1>3. CASE r # v /\ r # v + 1
  <2>1. r < v <=> r < v + 1
    BY <1>3
  <2> QED
    BY <1>3, <2>1
<1> QED
  BY <1>1, <1>2, <1>3

\* Settling a work row keeps its type.
LEMMA MarkedWork ==
  ASSUME NEW row \in Work, NEW s \in WorkStatus
  PROVE  [row EXCEPT !.status = s, !.expired = FALSE] \in Work
  BY DEF Work

\* Writing a status, or a status and a token, into a command row keeps its type.
LEMMA MarkedCommand ==
  ASSUME NEW row \in Command, NEW s \in CommandStatus, NEW t \in Nat
  PROVE  /\ [row EXCEPT !.status = s] \in Command
         /\ [row EXCEPT !.status = s, !.token = t] \in Command
  BY DEF Command, CommandStatus

\* A failing claim keeps its type and what it remembers.
LEMMA MarkedClaim ==
  ASSUME NEW row \in Claim,
         NEW failed, failed = [row EXCEPT !.stage = "failing", !.cause = "ADVANCE_FAILED"]
  PROVE  /\ failed \in Claim
         /\ failed.stage = "failing"
         /\ failed.command = row.command
         /\ failed.token = row.token
         /\ failed.target = row.target
         /\ failed.projection = row.projection
         /\ failed.cause = "ADVANCE_FAILED"
  BY DEF Claim, Stages, Causes

\* Checkpoints stay accounted for while no command becomes or stops being
\* applied.
LEMMA ContinuationKept ==
  ASSUME OneContinuation, UNCHANGED <<revision, checkpoints>>,
         \A d \in Commands :
           /\ command'[d].status = "APPLIED" <=> command[d].status = "APPLIED"
           /\ work'[d].status = "DONE" <=> work[d].status = "DONE"
           /\ command[d].status = "APPLIED" =>
                command'[d].instance = command[d].instance /\ command'[d].expected = command[d].expected
  PROVE  OneContinuation'
<1>1. ASSUME NEW j \in Instances, NEW r \in 1..LastRevision, NEW d \in Commands
      PROVE  checkpoints[j][r] = d <=> /\ command'[d].status = "APPLIED"
                                       /\ command'[d].instance = j
                                       /\ command'[d].expected = r - 1
  BY <1>1 DEF OneContinuation
<1> QED
  BY <1>1 DEF OneContinuation

-----------------------------------------------------------------------------
(* Accepting a trigger.                                                     *)

\* A trigger accepted for a new instance or for an idle waiting instance
\* keeps the invariant.
LEMMA AcceptKeeps ==
  ASSUME IInv, NEW i \in Instances, NEW c \in Commands, NEW type \in CommandTypes,
         AcceptCommand(i, c, type, revision[i]),
         \/ /\ type = "START"
            /\ status[i] = "NONE"
            /\ status' = [status EXCEPT ![i] = "STARTING"]
         \/ /\ type # "START"
            /\ status[i] = "WAITING"
            /\ pending[i] = Null
            /\ status' = status
  PROVE  IInv'
<1> USE DEF IInv
<1>1. /\ pending[i] = Null
      /\ revision[i] \in 0..Len(Path)
      /\ type = "START" <=> revision[i] = 0
      /\ status'[i] \in {"STARTING", "WAITING"}
      /\ \A j \in Instances \ {i} : status'[j] = status[j]
      /\ status' \in [Instances -> InstanceStatus]
  <2>1. pending[i] = Null
    <3>1. status[i] \in {"NONE", "WAITING"} /\ (status[i] = "WAITING" => pending[i] = Null)
      OBVIOUS
    <3>2. pending[i] \in Commands \cup {Null}
      BY DEF TypeOK
    <3>3. status[i] = "NONE" => pending[i] \notin Commands
      BY DEF InFlightAgrees
    <3> QED
      BY <3>1, <3>2, <3>3
  <2>2. revision[i] \in 0..Len(Path) /\ (type = "START" <=> revision[i] = 0)
    BY RevisionFacts DEF PhaseShape
  <2>3. status'[i] \in {"STARTING", "WAITING"} /\ status' \in [Instances -> InstanceStatus]
    BY DEF TypeOK, InstanceStatus
  <2>4. \A j \in Instances \ {i} : status'[j] = status[j]
    BY DEF TypeOK
  <2> QED
    BY <2>1, <2>2, <2>3, <2>4
<1>2. /\ c # Null
      /\ i # Null
      /\ command[c].status = "NONE"
      /\ work[c].status = "NONE"
  BY NullAssumption DEF AcceptCommand, CommandRows
<1>3. /\ command'[c] = [status |-> "ACCEPTED", instance |-> i, type |-> type,
                        expected |-> revision[i], target |-> revision[i], token |-> 0]
      /\ work'[c] = [status |-> "AVAILABLE", token |-> 0, expired |-> FALSE]
      /\ pending'[i] = c
      /\ \A d \in Commands \ {c} : command'[d] = command[d] /\ work'[d] = work[d]
      /\ \A j \in Instances \ {i} : pending'[j] = pending[j]
      /\ UNCHANGED <<revision, activeToken, projection, waits, checkpoints, incidents, claim>>
  BY DEF AcceptCommand, TypeOK
<1>4. TypeOK'
  <2>1. revision[i] \in Nat /\ revision[i] \in Revisions
    BY RevisionFacts DEF TypeOK
  <2>2. command'[c] \in Command
    BY <1>3, <2>1, <1>1, RevisionFacts DEF Command, CommandStatus
  <2>3. work'[c] \in Work
    BY <1>3 DEF Work, WorkStatus
  <2>4. command' \in [Commands -> Command]
    BY <2>2 DEF AcceptCommand, TypeOK
  <2>5. work' \in [Commands -> Work]
    BY <2>3 DEF AcceptCommand, TypeOK
  <2>6. pending' \in [Instances -> Commands \cup {Null}]
    BY DEF AcceptCommand, TypeOK
  <2> QED
    BY <1>1, <1>3, <2>4, <2>5, <2>6 DEF TypeOK
<1>5. CommandRows'
  <2> SUFFICES ASSUME NEW d \in Commands
               PROVE  /\ command'[d].status = "NONE" <=> command'[d].instance = Null
                      /\ command'[d].status = "NONE" <=> work'[d].status = "NONE"
                      /\ command'[d].status # "NONE" =>
                           /\ command'[d].target = command'[d].expected
                           /\ command'[d].type = "START" <=> command'[d].expected = 0
                           /\ command'[d].expected <= Len(Path)
                           /\ command'[d].expected <= revision'[command'[d].instance]
    BY DEF CommandRows
  <2>1. CASE d = c
    BY <1>1, <1>2, <1>3, <2>1, RevisionFacts
  <2>2. CASE d # c
    BY <1>3, <2>2 DEF CommandRows
  <2> QED
    BY <2>1, <2>2
<1>6. InFlightAgrees'
  <2> SUFFICES ASSUME NEW j \in Instances, NEW d \in Commands
               PROVE  /\ pending'[j] = d <=> /\ command'[d].status \in {"ACCEPTED", "CLAIMED"}
                                             /\ command'[d].instance = j
                      /\ pending'[j] = d => /\ command'[d].expected = revision'[j]
                                            /\ work'[d].status \in {"AVAILABLE", "CLAIMED"}
                                            /\ status'[j] \in {"STARTING", "WAITING"}
    BY DEF InFlightAgrees
  <2>1. pending[j] # c
    BY <1>2 DEF InFlightAgrees
  <2>2. i = j => pending[j] # d
    BY <1>1, NullAssumption
  <2>3. CASE d = c
    BY <1>1, <1>2, <1>3, <2>1, <2>3
  <2>4. CASE d # c
    BY <1>1, <1>3, <2>2, <2>4 DEF InFlightAgrees
  <2> QED
    BY <2>3, <2>4
<1>7. PhaseShape'
  BY <1>1, <1>3, RevisionFacts DEF PhaseShape
<1>8. ProjectionHonest'
  BY <1>3 DEF ProjectionHonest, OpenWaits
<1>9. ClaimsRemember'
  <2>1. ASSUME NEW v \in Workers, claim[v].stage # "idle"
        PROVE  /\ command'[claim[v].command] = command[claim[v].command]
               /\ work'[claim[v].command] = work[claim[v].command]
    BY <1>2, <1>3, <2>1 DEF ClaimsRemember, TypeOK, Claim
  <2> QED
    BY <1>3, <2>1 DEF ClaimsRemember
<1>10. Fenced'
  <2>1. \A d \in Commands :
          /\ command'[d].status = "ACCEPTED" => work'[d].token = 0
          /\ command'[d].status = "CLAIMED" =>
               /\ command'[d].token = work'[d].token
               /\ activeToken'[command'[d].instance] = work'[d].token
    <3> SUFFICES ASSUME NEW d \in Commands
                 PROVE  /\ command'[d].status = "ACCEPTED" => work'[d].token = 0
                        /\ command'[d].status = "CLAIMED" =>
                             /\ command'[d].token = work'[d].token
                             /\ activeToken'[command'[d].instance] = work'[d].token
      OBVIOUS
    <3>1. CASE d = c
      BY <1>3, <3>1
    <3>2. CASE d # c
      BY <1>3, <3>2 DEF Fenced
    <3> QED
      BY <3>1, <3>2
  <2> QED
    BY <1>3, <2>1 DEF Fenced
<1>11. OneContinuation'
  <2>1. \A d \in Commands :
           /\ command'[d].status = "APPLIED" <=> command[d].status = "APPLIED"
           /\ work'[d].status = "DONE" <=> work[d].status = "DONE"
           /\ command[d].status = "APPLIED" =>
                command'[d].instance = command[d].instance /\ command'[d].expected = command[d].expected
    BY <1>2, <1>3
  <2> QED
    BY <1>3, <2>1, ContinuationKept
<1>12. IncidentAgrees' /\ OneIncident'
  BY <1>1, <1>3 DEF IncidentAgrees, OneIncident
<1> QED
  BY <1>4, <1>5, <1>6, <1>7, <1>8, <1>9, <1>10, <1>11, <1>12

-----------------------------------------------------------------------------
(* Transitions of operators and of the job ledger.                          *)

\* Stalling, retrying and cancelling keep the invariant.
LEMMA OperatorKeeps ==
  ASSUME IInv, NEW i \in Instances, ExhaustJob(i) \/ RetryJob(i) \/ CancelInstance(i)
  PROVE  IInv'
<1> USE DEF IInv
<1>1. /\ pending[i] = Null
      /\ status[i] # "NONE"
      /\ status'[i] \in {"WAITING", "INCIDENT", "CANCELLED"}
      /\ status'[i] = "WAITING" => revision[i] \in Waits
      /\ status'[i] = "INCIDENT" <=> incidents'[i] # {}
      /\ ~({"COMMAND", "JOB"} \subseteq incidents'[i])
      /\ incidents'[i] \in SUBSET {"COMMAND", "JOB"}
  <2>1. CASE ExhaustJob(i)
    <3>1. incidents[i] = {}
      BY <2>1 DEF ExhaustJob, ActiveWait, IncidentAgrees
    <3> QED
      BY <2>1, <3>1 DEF ExhaustJob, ActiveWait, TypeOK
  <2>2. CASE RetryJob(i)
    <3>1. /\ "JOB" \in incidents[i]
          /\ "COMMAND" \notin incidents[i]
          /\ incidents[i] \in SUBSET {"COMMAND", "JOB"}
      BY <2>2 DEF RetryJob, OneIncident, TypeOK
    <3>2. incidents'[i] = {}
      BY <2>2, <3>1 DEF RetryJob, TypeOK
    <3>3. revision[i] \in Waits
      BY <2>2 DEF RetryJob, ProjectionHonest, WaitsAt
    <3> QED
      BY <2>2, <3>2, <3>3 DEF RetryJob, TypeOK
  <2>3. CASE CancelInstance(i)
    BY <2>3 DEF CancelInstance, CancelAllowed, TypeOK
  <2> QED
    BY <2>1, <2>2, <2>3
<1>2. /\ \A j \in Instances \ {i} : status'[j] = status[j] /\ incidents'[j] = incidents[j]
      /\ status' \in [Instances -> InstanceStatus]
      /\ incidents' \in [Instances -> SUBSET {"COMMAND", "JOB"}]
      /\ UNCHANGED <<revision, pending, activeToken, projection, waits, checkpoints, command, work, claim>>
  BY <1>1 DEF ExhaustJob, RetryJob, CancelInstance, TypeOK, InstanceStatus
<1>3. TypeOK'
  BY <1>2 DEF TypeOK
<1>4. CommandRows' /\ ClaimsRemember' /\ Fenced' /\ OneContinuation'
  BY <1>2 DEF CommandRows, ClaimsRemember, Fenced, OneContinuation
<1>5. InFlightAgrees'
  BY <1>1, <1>2, NullAssumption DEF InFlightAgrees
<1>6. PhaseShape'
  BY <1>1, <1>2 DEF PhaseShape
<1>7. ProjectionHonest'
  BY <1>2 DEF ProjectionHonest, OpenWaits
<1>8. IncidentAgrees' /\ OneIncident'
  BY <1>1, <1>2 DEF IncidentAgrees, OneIncident
<1> QED
  BY <1>3, <1>4, <1>5, <1>6, <1>7, <1>8

-----------------------------------------------------------------------------
(* The worker.                                                              *)

\* Granting a lease keeps the invariant; the command is never outdated.
LEMMA ClaimKeeps ==
  ASSUME IInv, NEW w \in Workers, NEW c \in Commands, ClaimWork(w, c)
  PROVE  IInv'
<1> DEFINE i == command[c].instance
           token == work[c].token + 1
<1> USE DEF IInv
<1>1. /\ i \in Instances
      /\ c # Null
      /\ command[c].status \in {"ACCEPTED", "CLAIMED"}
      /\ pending[i] = c
      /\ revision[i] = command[c].expected
      /\ work[c].status \in {"AVAILABLE", "CLAIMED"}
      /\ work[c].token \in Nat
      /\ claim[w].stage = "idle"
  <2>1. i \in Instances
    BY DEF ClaimWork, Claimable, CommandRows, TypeOK, Command
  <2> QED
    BY <2>1, NullAssumption DEF ClaimWork, Claimable, InFlightAgrees, TypeOK, Work
<1>2. OpenWaits(i) = WaitsAt(command[c].expected)
  BY <1>1 DEF ProjectionHonest
<1>3. projection[i] = WaitsAt(command[c].expected)
  BY <1>1, <1>2 DEF ProjectionHonest
<1>4. (IF command[c].target \in OpenWaits(i) THEN command[c].target ELSE 0) = command[c].expected
  BY <1>1, <1>2, RevisionFacts, SMTT(20) DEF CommandRows, WaitsAt, TypeOK, Command
<1>5. /\ claim' = [claim EXCEPT ![w] =
                    [stage |-> "claimed", command |-> c, token |-> token,
                     projection |-> WaitsAt(command[c].expected),
                     target |-> command[c].expected, cause |-> "none"]]
      /\ command' = [command EXCEPT ![c].status = "CLAIMED", ![c].token = token]
      /\ work' = [work EXCEPT ![c] = [status |-> "CLAIMED", token |-> token, expired |-> FALSE]]
      /\ activeToken' = [activeToken EXCEPT ![i] = token]
      /\ UNCHANGED <<status, revision, pending, projection, waits, checkpoints, incidents>>
  BY <1>1, <1>3, <1>4 DEF ClaimWork
<1>6. /\ command'[c].status = "CLAIMED"
      /\ command'[c].token = token
      /\ command'[c].instance = i
      /\ command'[c].type = command[c].type
      /\ command'[c].expected = command[c].expected
      /\ command'[c].target = command[c].target
      /\ work'[c].status = "CLAIMED"
      /\ work'[c].token = token
      /\ \A d \in Commands \ {c} : command'[d] = command[d] /\ work'[d] = work[d]
  BY <1>5 DEF TypeOK, Command
<1>7. /\ claim'[w] = [stage |-> "claimed", command |-> c, token |-> token,
                      projection |-> WaitsAt(command[c].expected),
                      target |-> command[c].expected, cause |-> "none"]
      /\ \A v \in Workers \ {w} : claim'[v] = claim[v]
      /\ activeToken'[i] = token
      /\ \A j \in Instances \ {i} : activeToken'[j] = activeToken[j]
  BY <1>1, <1>5 DEF TypeOK
<1>8. TypeOK'
  <2>1. command' \in [Commands -> Command]
    <3>1. \A d \in Commands : command'[d] \in Command
      <4>1. command[c] \in Command /\ token \in Nat
        BY <1>1 DEF TypeOK
      <4>2. command'[c] = [command[c] EXCEPT !.status = "CLAIMED", !.token = token]
        BY <1>5 DEF TypeOK, Command
      <4>3. "CLAIMED" \in CommandStatus
        BY DEF CommandStatus
      <4>4. [command[c] EXCEPT !.status = "CLAIMED", !.token = token] \in Command
        BY <4>1, <4>3, MarkedCommand
      <4> QED
        BY <1>6, <4>2, <4>4 DEF TypeOK
    <3>2. command' = [d \in Commands |-> command'[d]]
      BY <1>5 DEF TypeOK
    <3> QED
      BY <3>1, <3>2
  <2>2. work' \in [Commands -> Work]
    BY <1>1, <1>5 DEF TypeOK, Work, WorkStatus
  <2>3. claim' \in [Workers -> Claim]
    <3>1. command[c].expected \in Revisions /\ WaitsAt(command[c].expected) \in SUBSET Waits
      BY DEF TypeOK, Command, WaitsAt
    <3> HIDE DEF i
    <3>2. [stage |-> "claimed", command |-> c, token |-> token,
           projection |-> WaitsAt(command[c].expected),
           target |-> command[c].expected, cause |-> "none"] \in Claim
      BY <1>1, <3>1 DEF Claim, Stages, Causes
    <3> QED
      BY <1>5, <3>2 DEF TypeOK
  <2>4. activeToken' \in [Instances -> Nat]
    BY <1>1, <1>5 DEF TypeOK
  <2> QED
    BY <1>5, <2>1, <2>2, <2>3, <2>4 DEF TypeOK
<1>9. CommandRows'
  <2> SUFFICES ASSUME NEW d \in Commands
               PROVE  /\ command'[d].status = "NONE" <=> command'[d].instance = Null
                      /\ command'[d].status = "NONE" <=> work'[d].status = "NONE"
                      /\ command'[d].status # "NONE" =>
                           /\ command'[d].target = command'[d].expected
                           /\ command'[d].type = "START" <=> command'[d].expected = 0
                           /\ command'[d].expected <= Len(Path)
                           /\ command'[d].expected <= revision'[command'[d].instance]
    BY DEF CommandRows
  <2>1. CASE d = c
    BY <1>1, <1>5, <1>6, <2>1, NullAssumption DEF CommandRows
  <2>2. CASE d # c
    <3>1. command'[d] = command[d] /\ work'[d] = work[d] /\ revision' = revision
      BY <1>5, <1>6, <2>2
    <3> QED
      BY <3>1 DEF CommandRows
  <2> QED
    BY <2>1, <2>2
<1>10. InFlightAgrees'
  <2> SUFFICES ASSUME NEW j \in Instances, NEW d \in Commands
               PROVE  /\ pending'[j] = d <=> /\ command'[d].status \in {"ACCEPTED", "CLAIMED"}
                                             /\ command'[d].instance = j
                      /\ pending'[j] = d => /\ command'[d].expected = revision'[j]
                                            /\ work'[d].status \in {"AVAILABLE", "CLAIMED"}
                                            /\ status'[j] \in {"STARTING", "WAITING"}
    BY DEF InFlightAgrees
  <2>1. CASE d = c
    BY <1>1, <1>5, <1>6, <2>1 DEF InFlightAgrees
  <2>2. CASE d # c
    <3>1. command'[d] = command[d] /\ work'[d] = work[d]
      BY <1>6, <2>2
    <3>2. pending'[j] = pending[j] /\ revision'[j] = revision[j] /\ status'[j] = status[j]
      BY <1>5
    <3>3. /\ pending[j] = d <=> /\ command[d].status \in {"ACCEPTED", "CLAIMED"}
                                /\ command[d].instance = j
          /\ pending[j] = d => /\ command[d].expected = revision[j]
                               /\ work[d].status \in {"AVAILABLE", "CLAIMED"}
                               /\ status[j] \in {"STARTING", "WAITING"}
      BY DEF InFlightAgrees
    <3> QED
      BY <3>1, <3>2, <3>3
  <2> QED
    BY <2>1, <2>2
<1>11. PhaseShape' /\ ProjectionHonest' /\ IncidentAgrees' /\ OneIncident'
  BY <1>5 DEF PhaseShape, ProjectionHonest, OpenWaits, IncidentAgrees, OneIncident
<1>12. ClaimsRemember'
  <2> SUFFICES ASSUME NEW v \in Workers
               PROVE  LET d == claim'[v].command IN
                      /\ claim'[v].stage = "idle" <=> d = Null
                      /\ claim'[v].stage = "idle" <=> claim'[v].token = 0
                      /\ claim'[v].stage = "idle" => claim'[v].cause = "none"
                      /\ claim'[v].stage # "idle" =>
                           /\ command'[d].status # "NONE"
                           /\ claim'[v].token <= work'[d].token
                           /\ claim'[v].target = command'[d].expected
                           /\ claim'[v].projection = WaitsAt(command'[d].expected)
                           /\ claim'[v].cause \in {"PROJECTION_HASH_MISMATCH", "MISSING_RUNTIME_CHECKPOINT"} =>
                                revision'[command'[d].instance] # command'[d].expected
    BY DEF ClaimsRemember
  <2>1. CASE v = w
    BY <1>1, <1>6, <1>7, <2>1
  <2>2. CASE v # w
    <3>1. claim[v].stage # "idle" => claim[v].command \in Commands
      BY DEF ClaimsRemember, TypeOK, Claim
    <3>2. claim[v].token \in Nat
      BY DEF TypeOK, Claim
    <3>3. claim[v].stage # "idle" /\ claim[v].command = c =>
            claim[v].token <= work'[c].token
      BY <1>1, <1>6, <3>2 DEF ClaimsRemember
    <3>4. \A d \in Commands : /\ command'[d].expected = command[d].expected
                              /\ command'[d].instance = command[d].instance
                              /\ command[d].status # "NONE" => command'[d].status # "NONE"
      BY <1>6
    <3>5. claim[v].stage # "idle" => claim[v].token <= work'[claim[v].command].token
      BY <1>6, <3>1, <3>3 DEF ClaimsRemember
    <3>6. claim'[v] = claim[v] /\ revision' = revision
      BY <1>5, <1>7, <2>2
    <3>7. ASSUME claim[v].stage # "idle"
          PROVE  /\ command'[claim[v].command].status # "NONE"
                 /\ command'[claim[v].command].expected = command[claim[v].command].expected
                 /\ command'[claim[v].command].instance = command[claim[v].command].instance
      BY <3>1, <3>4, <3>7 DEF ClaimsRemember
    <3> QED
      BY <3>5, <3>6, <3>7 DEF ClaimsRemember
  <2> QED
    BY <2>1, <2>2
<1>13. Fenced'
  <2>1. \A v \in Workers \ {w} : claim[v].command = c => claim[v].token # token
    BY <1>1 DEF ClaimsRemember, TypeOK, Claim, Work
  <2>2. \A v, u \in Workers :
          claim'[u].stage # "idle" /\ claim'[v].command = claim'[u].command
            /\ claim'[v].token = claim'[u].token => v = u
    BY <1>7, <2>1 DEF Fenced
  <2>3. \A d \in Commands \ {c} : command[d].status = "CLAIMED" =>
                                    command[d].instance \in Instances \ {i}
    BY <1>1, NullAssumption DEF InFlightAgrees, CommandRows, TypeOK, Command
  <2> QED
    BY <1>1, <1>6, <1>7, <2>2, <2>3 DEF Fenced
<1>14. OneContinuation'
  <2>1. \A d \in Commands :
           /\ command'[d].status = "APPLIED" <=> command[d].status = "APPLIED"
           /\ work'[d].status = "DONE" <=> work[d].status = "DONE"
           /\ command[d].status = "APPLIED" =>
                command'[d].instance = command[d].instance /\ command'[d].expected = command[d].expected
    BY <1>1, <1>6
  <2> QED
    BY <1>5, <2>1, ContinuationKept
<1> QED
  BY <1>8, <1>9, <1>10, <1>11, <1>12, <1>13, <1>14

\* A step that only moves one worker on with its claim, or makes it forget
\* the claim, keeps the invariant.
LEMMA ClaimOnlyKeeps ==
  ASSUME IInv, NEW w \in Workers, UNCHANGED <<instanceVars, command, work>>,
         \/ claim' = [claim EXCEPT ![w] = Idle]
         \/ /\ claim[w].stage # "idle"
            /\ \/ claim' = [claim EXCEPT ![w].stage = "advanced"]
               \/ \E cause \in Causes :
                    /\ FailWith(w, cause)
                    /\ cause \in {"PROJECTION_HASH_MISMATCH", "MISSING_RUNTIME_CHECKPOINT"} =>
                         revision[command[claim[w].command].instance] # command[claim[w].command].expected
  PROVE  IInv'
<1> USE DEF IInv
<1>1. UNCHANGED <<status, revision, pending, activeToken, projection, waits, checkpoints,
                  incidents, command, work>>
  BY DEF instanceVars
<1>2. /\ CommandRows' /\ InFlightAgrees' /\ PhaseShape' /\ IncidentAgrees' /\ OneIncident'
      /\ ProjectionHonest' /\ OneContinuation'
  BY <1>1 DEF CommandRows, InFlightAgrees, PhaseShape, IncidentAgrees, OneIncident,
     ProjectionHonest, OpenWaits, OneContinuation
<1>3. CASE claim' = [claim EXCEPT ![w] = Idle]
  <2>1. claim'[w] = Idle /\ \A v \in Workers \ {w} : claim'[v] = claim[v]
    BY <1>3 DEF TypeOK
  <2>2. TypeOK'
    <3>1. Idle \in Claim
      BY RevisionFacts DEF Idle, Claim, Stages, Causes
    <3> QED
      BY <1>1, <1>3, <3>1 DEF TypeOK
  <2>3. ClaimsRemember'
    BY <1>1, <2>1 DEF ClaimsRemember, Idle
  <2>4. Fenced'
    <3>1. Idle.stage = "idle" /\ Idle.token = 0
      BY DEF Idle
    <3>2. ASSUME NEW v \in Workers, NEW u \in Workers, claim'[u].stage # "idle",
                 claim'[v].command = claim'[u].command, claim'[v].token = claim'[u].token
          PROVE  v = u
      <4>1. u # w /\ claim'[u] = claim[u]
        BY <2>1, <3>1, <3>2
      <4>2. claim[u].token # 0
        BY <3>2, <4>1 DEF ClaimsRemember
      <4>3. v # w
        BY <2>1, <3>1, <3>2, <4>1, <4>2
      <4> QED
        BY <2>1, <3>2, <4>1, <4>3 DEF Fenced
    <3> QED
      BY <1>1, <3>2 DEF Fenced
  <2> QED
    BY <1>2, <2>2, <2>3, <2>4
<1>4. CASE claim[w].stage # "idle" /\ claim' # [claim EXCEPT ![w] = Idle]
  <2>1. /\ claim'[w] \in Claim
        /\ claim'[w].stage # "idle"
        /\ claim'[w].command = claim[w].command
        /\ claim'[w].token = claim[w].token
        /\ claim'[w].target = claim[w].target
        /\ claim'[w].projection = claim[w].projection
        /\ \/ claim'[w].cause = claim[w].cause
           \/ claim'[w].cause \in {"PROJECTION_HASH_MISMATCH", "MISSING_RUNTIME_CHECKPOINT"} =>
                revision[command[claim[w].command].instance] # command[claim[w].command].expected
    <3> claim[w] \in Claim
      BY DEF TypeOK
    <3>1. CASE claim' = [claim EXCEPT ![w].stage = "advanced"]
      BY <3>1 DEF TypeOK, Claim, Stages
    <3>2. ASSUME NEW cause \in Causes, FailWith(w, cause),
                 cause \in {"PROJECTION_HASH_MISMATCH", "MISSING_RUNTIME_CHECKPOINT"} =>
                   revision[command[claim[w].command].instance] # command[claim[w].command].expected
          PROVE  /\ claim'[w] = [claim[w] EXCEPT !.stage = "failing", !.cause = cause]
                 /\ claim'[w] \in Claim
      BY <3>2 DEF FailWith, TypeOK, Claim, Stages
    <3> QED
      BY <1>4, <3>1, <3>2, ZenonT(30) DEF Claim
  <2>2. /\ \A v \in Workers \ {w} : claim'[v] = claim[v]
        /\ claim' = [v \in Workers |-> claim'[v]]
    BY <1>4 DEF FailWith, TypeOK
  <2>3. TypeOK'
    <3>1. \A v \in Workers : claim'[v] \in Claim
      BY <2>1, <2>2 DEF TypeOK
    <3> QED
      BY <1>1, <2>2, <3>1 DEF TypeOK
  <2>4. ClaimsRemember'
    BY <1>1, <1>4, <2>1, <2>2 DEF ClaimsRemember
  <2>5. Fenced'
    <3>1. \A v \in Workers : /\ claim'[v].command = claim[v].command
                             /\ claim'[v].token = claim[v].token
                             /\ claim'[v].stage = "idle" <=> claim[v].stage = "idle"
      BY <1>4, <2>1, <2>2
    <3> QED
      BY <1>1, <3>1 DEF Fenced
  <2> QED
    BY <1>2, <2>3, <2>4, <2>5
<1> QED
  BY <1>3, <1>4

\* Verifying and advancing, raising, losing and crashing keep the invariant;
\* a checkpoint is found corrupt only by a worker that was overtaken.
LEMMA WorkerKeeps ==
  ASSUME IInv, NEW w \in Workers,
         Advance(w) \/ CommitRaises(w) \/ LoseClaim(w) \/ CrashWorker(w)
  PROVE  IInv'
<1> DEFINE c == claim[w].command
<1>1. CASE LoseClaim(w) \/ CrashWorker(w)
  BY <1>1, ClaimOnlyKeeps DEF LoseClaim, CrashWorker
<1>2. CASE CommitRaises(w)
  <2>1. claim[w].stage # "idle" /\ FailWith(w, "ADVANCE_FAILED") /\ "ADVANCE_FAILED" \in Causes
    BY <1>2 DEF CommitRaises, Causes
  <2> QED
    BY <1>2, <2>1, ClaimOnlyKeeps DEF CommitRaises
<1>3. CASE Advance(w)
  <2>1. /\ claim[w].stage # "idle"
        /\ UNCHANGED <<instanceVars, command, work>>
    BY <1>3 DEF Advance
  <2>2. /\ c \in Commands
        /\ command[c].status # "NONE"
        /\ command[c].instance \in Instances
        /\ claim[w].target = command[c].expected
        /\ claim[w].projection = WaitsAt(command[c].expected)
        /\ command[c].type = "START" <=> command[c].expected = 0
    BY <2>1 DEF IInv, ClaimsRemember, CommandRows, TypeOK, Claim, Command
  <2>3. ~ProjectionMatches(w) => revision[command[c].instance] # command[c].expected
    BY <2>2 DEF ProjectionMatches, IInv, ProjectionHonest
  <2>4. \/ claim' = [claim EXCEPT ![w].stage = "advanced"]
        \/ FailWith(w, "ADVANCE_FAILED")
        \/ FailWith(w, "PROJECTION_HASH_MISMATCH") /\ ~ProjectionMatches(w)
    BY <1>3, <2>2 DEF Advance
  <2>5. /\ "ADVANCE_FAILED" \in Causes
        /\ "PROJECTION_HASH_MISMATCH" \in Causes
    BY DEF Causes
  <2> QED
    BY <2>1, <2>3, <2>4, <2>5, ClaimOnlyKeeps
<1> QED
  BY <1>1, <1>2, <1>3

\* An expiring lease keeps the invariant.
LEMMA ExpireKeeps ==
  ASSUME IInv, NEW c \in Commands, ExpireLease(c)
  PROVE  IInv'
<1> USE DEF IInv
<1>1. /\ UNCHANGED <<status, revision, pending, activeToken, projection, waits, checkpoints,
                     incidents, command, claim>>
      /\ \A d \in Commands : work'[d].status = work[d].status /\ work'[d].token = work[d].token
  BY DEF ExpireLease, instanceVars, TypeOK, Work
<1>2. TypeOK'
  BY <1>1 DEF ExpireLease, TypeOK, Work
<1>3. CommandRows' /\ InFlightAgrees'
  BY <1>1 DEF CommandRows, InFlightAgrees
<1>4. PhaseShape' /\ ProjectionHonest' /\ IncidentAgrees' /\ OneIncident'
  BY <1>1 DEF PhaseShape, ProjectionHonest, OpenWaits, IncidentAgrees, OneIncident
<1>5. ClaimsRemember'
  <2>1. \A w \in Workers : claim[w].stage # "idle" => claim[w].command \in Commands
    BY DEF ClaimsRemember, TypeOK, Claim
  <2> QED
    BY <1>1, <2>1 DEF ClaimsRemember
<1>6. Fenced'
  BY <1>1 DEF Fenced
<1>7. OneContinuation'
  BY <1>1, ContinuationKept
<1> QED
  BY <1>2, <1>3, <1>4, <1>5, <1>6, <1>7

\* What the compare-and-swap of commit and of failure establishes: the
\* worker holds the latest lease of the command the instance waits for.
LEMMA HolderFacts ==
  ASSUME IInv, NEW w \in Workers, claim[w].stage # "idle", Holds(w)
  PROVE  LET c == claim[w].command
             i == command[c].instance
         IN  /\ c \in Commands
             /\ i \in Instances
             /\ i # Null
             /\ pending[i] = c
             /\ revision[i] = command[c].expected
             /\ revision[i] \in 0..Len(Path)
             /\ status[i] \in {"STARTING", "WAITING"}
             /\ incidents[i] = {}
             /\ command[c].status = "CLAIMED"
             /\ command[c].token = claim[w].token
             /\ work[c].token = claim[w].token
             /\ claim[w].target = revision[i]
<1> DEFINE c == claim[w].command
           i == command[c].instance
<1> USE DEF IInv
<1>1. /\ c \in Commands
      /\ i \in Instances
      /\ i # Null
      /\ claim[w].token \in Nat \ {0}
      /\ claim[w].token <= work[c].token
      /\ work[c].token \in Nat
      /\ claim[w].target = command[c].expected
      /\ command[c].expected <= Len(Path)
      /\ command[c].expected \in Nat
  BY NullAssumption, RevisionFacts DEF ClaimsRemember, CommandRows, TypeOK, Claim, Command, Work
<1>2. pending[i] = c /\ revision[i] = command[c].expected /\ activeToken[i] = claim[w].token
  BY DEF Holds
<1>3. command[c].status \in {"ACCEPTED", "CLAIMED"} /\ status[i] \in {"STARTING", "WAITING"}
  BY <1>1, <1>2 DEF InFlightAgrees
<1>4. command[c].status = "CLAIMED"
  BY <1>1, <1>3 DEF Fenced
<1>5. command[c].token = claim[w].token /\ work[c].token = claim[w].token
  BY <1>1, <1>2, <1>4 DEF Fenced
<1>6. incidents[i] = {}
  BY <1>1, <1>3 DEF IncidentAgrees
<1>7. revision[i] \in 0..Len(Path)
  BY <1>1, <1>2, RevisionFacts DEF TypeOK
<1> QED
  BY <1>1, <1>2, <1>3, <1>4, <1>5, <1>6, <1>7

\* The instance of the command that w has claimed.
InstanceOf(w) == command[claim[w].command].instance

\* Settling the command of an instance, with or without a new checkpoint,
\* keeps the bookkeeping of commands, claims and tokens.
LEMMA SettleKeeps ==
  ASSUME IInv, NEW w \in Workers, claim[w].stage # "idle", Holds(w),
         NEW commandStatus \in {"APPLIED", "QUARANTINED"},
         NEW workStatus \in {"DONE", "QUARANTINED"},
         SettleRows(w, commandStatus, workStatus),
         pending' = [pending EXCEPT ![InstanceOf(w)] = Null],
         \A j \in Instances \ {InstanceOf(w)} : status'[j] = status[j],
         \A j \in Instances \ {InstanceOf(w)} : revision'[j] = revision[j],
         revision'[InstanceOf(w)] \in {revision[InstanceOf(w)], revision[InstanceOf(w)] + 1},
         activeToken' = activeToken,
         \/ claim' = [claim EXCEPT ![w] = Idle]
         \/ FailWith(w, "ADVANCE_FAILED")
  PROVE  /\ command' = [command EXCEPT ![claim[w].command].status = commandStatus]
         /\ command' \in [Commands -> Command]
         /\ work' \in [Commands -> Work]
         /\ work'[claim[w].command].status = workStatus
         /\ \A d \in Commands \ {claim[w].command} : work'[d] = work[d]
         /\ claim' \in [Workers -> Claim]
         /\ CommandRows'
         /\ InFlightAgrees'
         /\ ClaimsRemember'
         /\ Fenced'
<1> SUFFICES ASSUME NEW CONSTANT c, c = claim[w].command, NEW CONSTANT i, i = InstanceOf(w)
             PROVE  /\ command' = [command EXCEPT ![c].status = commandStatus]
                    /\ command' \in [Commands -> Command]
                    /\ work' \in [Commands -> Work]
                    /\ work'[c].status = workStatus
                    /\ \A d \in Commands \ {c} : work'[d] = work[d]
                    /\ claim' \in [Workers -> Claim]
                    /\ CommandRows'
                    /\ InFlightAgrees'
                    /\ ClaimsRemember'
                    /\ Fenced'
  OBVIOUS
<1>0. i = command[c].instance
  BY DEF InstanceOf
<1>1. /\ c \in Commands
      /\ i \in Instances
      /\ i # Null
      /\ c # Null
      /\ pending[i] = c
      /\ revision[i] = command[c].expected
      /\ revision[i] \in 0..Len(Path)
      /\ command[c].status = "CLAIMED"
      /\ command[c].token = claim[w].token
      /\ work[c].token = claim[w].token
  BY <1>0, HolderFacts, NullAssumption, SMTT(20)
<1>2. /\ command' = [command EXCEPT ![c].status = commandStatus]
      /\ work' = [work EXCEPT ![c].status = workStatus, ![c].expired = FALSE]
  BY <1>1 DEF SettleRows
<1> USE DEF IInv
<1>3. /\ command'[c] = [command[c] EXCEPT !.status = commandStatus]
      /\ command'[c].status = commandStatus
      /\ \A d \in Commands : /\ command'[d].instance = command[d].instance
                             /\ command'[d].type = command[d].type
                             /\ command'[d].expected = command[d].expected
                             /\ command'[d].target = command[d].target
                             /\ command'[d].token = command[d].token
      /\ \A d \in Commands \ {c} : command'[d] = command[d]
      /\ command' = [d \in Commands |-> command'[d]]
  <2>1. command'[c] = [command[c] EXCEPT !.status = commandStatus]
    BY <1>1, <1>2 DEF TypeOK
  <2>2. \A d \in Commands \ {c} : command'[d] = command[d]
    BY <1>2 DEF TypeOK
  <2>3. command' = [d \in Commands |-> command'[d]]
    BY <1>2 DEF TypeOK
  <2>4. /\ command'[c].status = commandStatus
        /\ command'[c].instance = command[c].instance
        /\ command'[c].type = command[c].type
        /\ command'[c].expected = command[c].expected
        /\ command'[c].target = command[c].target
        /\ command'[c].token = command[c].token
    BY <1>1, <2>1 DEF TypeOK, Command
  <2> QED
    BY <2>1, <2>2, <2>3, <2>4
<1>4. /\ work'[c] = [work[c] EXCEPT !.status = workStatus, !.expired = FALSE]
      /\ work'[c].status = workStatus
      /\ \A d \in Commands : work'[d].token = work[d].token
      /\ \A d \in Commands \ {c} : work'[d] = work[d]
      /\ work' = [d \in Commands |-> work'[d]]
  <2>1. work'[c] = [work[c] EXCEPT !.status = workStatus, !.expired = FALSE]
    BY <1>1, <1>2 DEF TypeOK
  <2>2. \A d \in Commands \ {c} : work'[d] = work[d]
    BY <1>2 DEF TypeOK
  <2>3. work' = [d \in Commands |-> work'[d]]
    BY <1>2 DEF TypeOK
  <2>4. work'[c].status = workStatus /\ work'[c].token = work[c].token
    BY <1>1, <2>1 DEF TypeOK, Work
  <2> QED
    BY <2>1, <2>2, <2>3, <2>4
<1>5. \A j \in Instances : revision'[j] = revision[j] \/ (j = i /\ revision'[j] = revision[j] + 1)
  <2>1. revision'[i] = revision[i] \/ revision'[i] = revision[i] + 1
    OBVIOUS
  <2> QED
    BY <2>1
<1>6. command' \in [Commands -> Command]
  <2>1. commandStatus \in CommandStatus /\ command[c] \in Command /\ 0 \in Nat
    BY <1>1 DEF CommandStatus, TypeOK
  <2>2. [command[c] EXCEPT !.status = commandStatus] \in Command
    BY <2>1, MarkedCommand
  <2>3. ASSUME NEW d \in Commands PROVE command'[d] \in Command
    <3>1. CASE d = c
      BY <1>3, <2>2, <3>1
    <3>2. CASE d # c
      BY <1>3, <3>2 DEF TypeOK
    <3> QED
      BY <3>1, <3>2
  <2> QED
    BY <1>3, <2>3
<1>7. work' \in [Commands -> Work]
  <2>1. workStatus \in WorkStatus /\ work[c] \in Work
    BY <1>1 DEF WorkStatus, TypeOK
  <2>2. [work[c] EXCEPT !.status = workStatus, !.expired = FALSE] \in Work
    BY <2>1, MarkedWork
  <2>3. ASSUME NEW d \in Commands PROVE work'[d] \in Work
    <3>1. CASE d = c
      BY <1>4, <2>2, <3>1
    <3>2. CASE d # c
      BY <1>4, <3>2 DEF TypeOK
    <3> QED
      BY <3>1, <3>2
  <2> QED
    BY <1>4, <2>3
<1>8. CommandRows'
  <2> SUFFICES ASSUME NEW d \in Commands
               PROVE  /\ command'[d].status = "NONE" <=> command'[d].instance = Null
                      /\ command'[d].status = "NONE" <=> work'[d].status = "NONE"
                      /\ command'[d].status # "NONE" =>
                           /\ command'[d].target = command'[d].expected
                           /\ command'[d].type = "START" <=> command'[d].expected = 0
                           /\ command'[d].expected <= Len(Path)
                           /\ command'[d].expected <= revision'[command'[d].instance]
    BY DEF CommandRows
  <2>1. /\ command[d].status = "NONE" <=> command[d].instance = Null
        /\ command[d].status = "NONE" <=> work[d].status = "NONE"
        /\ command[d].status # "NONE" =>
             /\ command[d].target = command[d].expected
             /\ command[d].type = "START" <=> command[d].expected = 0
             /\ command[d].expected <= Len(Path)
             /\ command[d].expected <= revision[command[d].instance]
    BY DEF CommandRows
  <2>2. command'[d].status = "NONE" <=> command[d].status = "NONE"
    <3>1. CASE d = c
      BY <1>1, <1>3, <3>1
    <3>2. CASE d # c
      BY <1>3, <3>2
    <3> QED
      BY <3>1, <3>2
  <2>3. work'[d].status = "NONE" <=> work[d].status = "NONE"
    <3>1. CASE d = c
      BY <1>1, <1>4, <2>1, <3>1
    <3>2. CASE d # c
      BY <1>4, <3>2
    <3> QED
      BY <3>1, <3>2
  <2>4. ASSUME command[d].status # "NONE"
        PROVE  command[d].expected <= revision'[command[d].instance]
    <3>1. /\ command[d].instance \in Instances
          /\ command[d].expected \in Nat
          /\ revision[command[d].instance] \in Nat
      BY <2>1, <2>4, RevisionFacts DEF TypeOK, Command
    <3> QED
      BY <1>5, <2>1, <2>4, <3>1
  <2> QED
    BY <1>3, <2>1, <2>2, <2>3, <2>4
<1>9. InFlightAgrees'
  <2> SUFFICES ASSUME NEW j \in Instances, NEW d \in Commands
               PROVE  /\ pending'[j] = d <=> /\ command'[d].status \in {"ACCEPTED", "CLAIMED"}
                                             /\ command'[d].instance = j
                      /\ pending'[j] = d => /\ command'[d].expected = revision'[j]
                                            /\ work'[d].status \in {"AVAILABLE", "CLAIMED"}
                                            /\ status'[j] \in {"STARTING", "WAITING"}
    BY DEF InFlightAgrees
  <2>1. /\ pending[j] = d <=> /\ command[d].status \in {"ACCEPTED", "CLAIMED"}
                              /\ command[d].instance = j
        /\ pending[j] = d => /\ command[d].expected = revision[j]
                             /\ work[d].status \in {"AVAILABLE", "CLAIMED"}
                             /\ status[j] \in {"STARTING", "WAITING"}
    BY DEF InFlightAgrees
  <2>2. pending'[i] = Null /\ \A k \in Instances \ {i} : pending'[k] = pending[k]
    BY <1>1 DEF TypeOK
  <2>3. CASE d = c
    <3>1. pending'[j] # c
      <4>1. CASE j = i
        BY <1>1, <2>2, <4>1
      <4>2. CASE j # i
        BY <1>0, <1>1, <2>1, <2>2, <2>3, <4>2
      <4> QED
        BY <4>1, <4>2
    <3>2. command'[d].status \notin {"ACCEPTED", "CLAIMED"}
      BY <1>3, <2>3
    <3> QED
      BY <2>3, <3>1, <3>2
  <2>4. CASE d # c /\ j = i
    BY <1>1, <1>3, <2>1, <2>2, <2>4, NullAssumption
  <2>5. CASE d # c /\ j # i
    BY <1>3, <1>4, <1>5, <2>1, <2>2, <2>5
  <2> QED
    BY <2>3, <2>4, <2>5
<1>10. /\ \A v \in Workers \ {w} : claim'[v] = claim[v]
       /\ \/ claim'[w] = Idle
          \/ claim'[w] = [claim[w] EXCEPT !.stage = "failing", !.cause = "ADVANCE_FAILED"]
       /\ claim' = [v \in Workers |-> claim'[v]]
  BY DEF TypeOK, Claim, FailWith
<1>11. claim' \in [Workers -> Claim]
  <2>1. Idle \in Claim
    BY RevisionFacts DEF Idle, Claim, Stages, Causes
  <2>2. [claim[w] EXCEPT !.stage = "failing", !.cause = "ADVANCE_FAILED"] \in Claim
    <3>1. claim[w] \in Claim
      BY DEF TypeOK
    <3> QED
      BY <3>1, MarkedClaim
  <2>3. \A v \in Workers : claim'[v] \in Claim
    BY <1>10, <2>1, <2>2, SMTT(20) DEF TypeOK
  <2> QED
    BY <1>10, <2>3
<1>12. ASSUME NEW v \in Workers, claim'[v].stage # "idle"
       PROVE  /\ claim[v].stage # "idle"
              /\ claim'[v].command = claim[v].command
              /\ claim'[v].token = claim[v].token
              /\ claim'[v].target = claim[v].target
              /\ claim'[v].projection = claim[v].projection
              /\ claim'[v].cause \in {claim[v].cause, "ADVANCE_FAILED"}
  <2>1. CASE v = w
    <3>1. claim[w] \in Claim /\ Idle.stage = "idle"
      BY DEF TypeOK, Idle
    <3>2. claim'[w] = [claim[w] EXCEPT !.stage = "failing", !.cause = "ADVANCE_FAILED"]
      BY <1>10, <1>12, <2>1, <3>1
    <3>3. /\ claim[w].stage # "idle"
          /\ claim'[w].command = claim[w].command
          /\ claim'[w].token = claim[w].token
          /\ claim'[w].target = claim[w].target
          /\ claim'[w].projection = claim[w].projection
          /\ claim'[w].cause = "ADVANCE_FAILED"
      BY <3>1, <3>2, MarkedClaim, ZenonT(30)
    <3> QED
      BY <2>1, <3>3
  <2>2. CASE v # w
    BY <1>10, <1>12, <2>2
  <2> QED
    BY <2>1, <2>2
<1>13. ASSUME NEW v \in Workers, claim'[v].stage = "idle"
       PROVE  claim'[v].command = Null /\ claim'[v].token = 0 /\ claim'[v].cause = "none"
  <2>1. CASE v = w
    <3>1. claim[w] \in Claim
      BY DEF TypeOK
    <3>2. claim'[w] = Idle
      BY <1>10, <1>13, <2>1, <3>1, MarkedClaim
    <3> QED
      BY <2>1, <3>2 DEF Idle
  <2>2. CASE v # w
    BY <1>10, <1>13, <2>2 DEF ClaimsRemember
  <2> QED
    BY <2>1, <2>2
<1>14. ClaimsRemember'
  <2> SUFFICES ASSUME NEW v \in Workers
               PROVE  LET d == claim'[v].command IN
                      /\ claim'[v].stage = "idle" <=> d = Null
                      /\ claim'[v].stage = "idle" <=> claim'[v].token = 0
                      /\ claim'[v].stage = "idle" => claim'[v].cause = "none"
                      /\ claim'[v].stage # "idle" =>
                           /\ command'[d].status # "NONE"
                           /\ claim'[v].token <= work'[d].token
                           /\ claim'[v].target = command'[d].expected
                           /\ claim'[v].projection = WaitsAt(command'[d].expected)
                           /\ claim'[v].cause \in {"PROJECTION_HASH_MISMATCH", "MISSING_RUNTIME_CHECKPOINT"} =>
                                revision'[command'[d].instance] # command'[d].expected
    BY DEF ClaimsRemember
  <2>1. CASE claim'[v].stage = "idle"
    BY <1>13, <2>1
  <2>2. CASE claim'[v].stage # "idle"
    <3> DEFINE d == claim[v].command
    <3>1. /\ claim[v].stage # "idle"
          /\ d # Null
          /\ d \in Commands
          /\ claim[v].token # 0
          /\ command[d].status # "NONE"
          /\ claim[v].token <= work[d].token
          /\ claim[v].target = command[d].expected
          /\ claim[v].projection = WaitsAt(command[d].expected)
          /\ claim[v].cause \in {"PROJECTION_HASH_MISMATCH", "MISSING_RUNTIME_CHECKPOINT"} =>
               revision[command[d].instance] # command[d].expected
      BY <1>12, <2>2 DEF ClaimsRemember, TypeOK, Claim
    <3>2. command'[d].status # "NONE"
      BY <1>3, <3>1
    <3>3. /\ command[d].instance \in Instances
          /\ command[d].expected \in Nat
          /\ revision[command[d].instance] \in Nat
          /\ command[d].expected <= revision[command[d].instance]
      BY <3>1, RevisionFacts DEF CommandRows, TypeOK, Command
    <3>4. revision[command[d].instance] # command[d].expected =>
            revision'[command[d].instance] # command[d].expected
      BY <1>5, <3>3
    <3> QED
      BY <1>3, <1>4, <1>12, <2>2, <3>1, <3>2, <3>4, SMTT(20)
  <2> QED
    BY <2>1, <2>2
<1>15. Fenced'
  <2>1. ASSUME NEW v \in Workers, NEW u \in Workers, claim'[u].stage # "idle",
               claim'[v].command = claim'[u].command, claim'[v].token = claim'[u].token
        PROVE  v = u
    <3>1. claim'[v].stage # "idle"
      BY <1>14, <2>1 DEF ClaimsRemember
    <3> QED
      BY <1>12, <2>1, <3>1 DEF Fenced
  <2>2. ASSUME NEW d \in Commands
        PROVE  /\ command'[d].status = "ACCEPTED" => work'[d].token = 0
               /\ command'[d].status = "CLAIMED" =>
                    /\ command'[d].token = work'[d].token
                    /\ activeToken'[command'[d].instance] = work'[d].token
    <3>1. CASE d = c
      BY <1>3, <3>1
    <3>2. CASE d # c
      BY <1>3, <1>4, <3>2 DEF Fenced
    <3> QED
      BY <3>1, <3>2
  <2> QED
    BY <2>1, <2>2 DEF Fenced
<1> QED
  BY <1>2, <1>4, <1>6, <1>7, <1>8, <1>9, <1>11, <1>14, <1>15

\* Quarantining a command keeps the invariant.
LEMMA FailKeeps ==
  ASSUME IInv, NEW w \in Workers, FailWork(w)
  PROVE  IInv'
<1> DEFINE c == claim[w].command
           i == command[c].instance
<1>1. claim[w].stage # "idle" /\ Holds(w)
  BY DEF FailWork
<1>2. /\ c \in Commands
      /\ i \in Instances
      /\ incidents[i] = {}
      /\ command[c].status = "CLAIMED"
  BY <1>1, HolderFacts
<1>3. /\ status' = [status EXCEPT ![i] = "INCIDENT"]
      /\ pending' = [pending EXCEPT ![i] = Null]
      /\ incidents' = [incidents EXCEPT ![i] = @ \cup {"COMMAND"}]
      /\ SettleRows(w, "QUARANTINED", "QUARANTINED")
      /\ claim' = [claim EXCEPT ![w] = Idle]
      /\ UNCHANGED <<revision, activeToken, projection, waits, checkpoints>>
  BY DEF FailWork
<1>4. /\ status'[i] = "INCIDENT"
      /\ incidents'[i] = {"COMMAND"}
      /\ \A j \in Instances \ {i} : status'[j] = status[j] /\ incidents'[j] = incidents[j]
  BY <1>2, <1>3 DEF IInv, TypeOK
<1>5. /\ command' = [command EXCEPT ![c].status = "QUARANTINED"]
      /\ command' \in [Commands -> Command]
      /\ work' \in [Commands -> Work]
      /\ work'[c].status = "QUARANTINED"
      /\ \A d \in Commands \ {c} : work'[d] = work[d]
      /\ claim' \in [Workers -> Claim]
      /\ CommandRows' /\ InFlightAgrees' /\ ClaimsRemember' /\ Fenced'
  <2>1. /\ \A j \in Instances \ {i} : revision'[j] = revision[j]
        /\ revision'[i] \in {revision[i], revision[i] + 1}
    BY <1>3
  <2>2. InstanceOf(w) = i /\ claim[w].command = c
    BY DEF InstanceOf
  <2> HIDE DEF c, i
  <2> QED
    BY <1>1, <1>3, <1>4, <2>1, <2>2, SettleKeeps
<1>6. TypeOK'
  <2>1. status' \in [Instances -> InstanceStatus]
    BY <1>3 DEF IInv, TypeOK, InstanceStatus
  <2>2. pending' \in [Instances -> Commands \cup {Null}]
    BY <1>3 DEF IInv, TypeOK
  <2>3. incidents' \in [Instances -> SUBSET {"COMMAND", "JOB"}]
    BY <1>3 DEF IInv, TypeOK
  <2> QED
    BY <1>3, <1>5, <2>1, <2>2, <2>3 DEF IInv, TypeOK
<1>7. PhaseShape' /\ ProjectionHonest'
  BY <1>3, <1>4 DEF IInv, PhaseShape, ProjectionHonest, OpenWaits
<1>8. IncidentAgrees' /\ OneIncident'
  BY <1>4 DEF IInv, IncidentAgrees, OneIncident
<1>9. OneContinuation'
  <2>1. command[c].status # "APPLIED" /\ work[c].status # "DONE"
    BY <1>2 DEF IInv, OneContinuation
  <2>2. ASSUME NEW d \in Commands
        PROVE  /\ command'[d].status = "APPLIED" <=> command[d].status = "APPLIED"
               /\ work'[d].status = "DONE" <=> work[d].status = "DONE"
               /\ command[d].status = "APPLIED" =>
                    command'[d].instance = command[d].instance /\ command'[d].expected = command[d].expected
    <3>1. CASE d = c
      <4>1. command'[c].status = "QUARANTINED"
        BY <1>2, <1>5 DEF IInv, TypeOK, Command
      <4> QED
        BY <1>5, <2>1, <3>1, <4>1
    <3>2. CASE d # c
      <4>1. command'[d] = command[d]
        BY <1>5, <3>2 DEF IInv, TypeOK
      <4> QED
        BY <1>5, <3>2, <4>1
    <3> QED
      BY <3>1, <3>2
  <2> QED
    BY <1>3, <2>2, ContinuationKept DEF IInv
<1> QED
  BY <1>5, <1>6, <1>7, <1>8, <1>9 DEF IInv

\* Writing checkpoint N+1 keeps the invariant.
LEMMA CommitKeeps ==
  ASSUME IInv, NEW w \in Workers, CommitWork(w)
  PROVE  IInv'
<1> DEFINE c == claim[w].command
           i == command[c].instance
           next == command[c].expected + 1
<1>1. claim[w].stage # "idle" /\ Holds(w)
  BY DEF CommitWork
<1>2. /\ c \in Commands
      /\ i \in Instances
      /\ revision[i] = command[c].expected
      /\ revision[i] \in 0..Len(Path)
      /\ status[i] \in {"STARTING", "WAITING"}
      /\ incidents[i] = {}
      /\ command[c].status = "CLAIMED"
      /\ claim[w].target = revision[i]
      /\ next \in 1..LastRevision
  BY <1>1, HolderFacts, RevisionFacts
<1>3. /\ revision' = [revision EXCEPT ![i] = next]
      /\ status' = [status EXCEPT ![i] = IF WaitsAt(next) = {} THEN "COMPLETED" ELSE "WAITING"]
      /\ pending' = [pending EXCEPT ![i] = Null]
      /\ projection' = [projection EXCEPT ![i] = WaitsAt(next)]
      /\ waits' = [waits EXCEPT ![i] = WaitsAfter(w, WaitsAt(next))]
      /\ checkpoints' = [checkpoints EXCEPT ![i][next] = c]
      /\ SettleRows(w, "APPLIED", "DONE")
      /\ claim' = [claim EXCEPT ![w] = Idle] \/ FailWith(w, "ADVANCE_FAILED")
      /\ UNCHANGED <<activeToken, incidents>>
  BY DEF CommitWork
<1>4. /\ revision'[i] = next
      /\ \A j \in Instances \ {i} :
           /\ revision'[j] = revision[j]
           /\ status'[j] = status[j]
           /\ projection'[j] = projection[j]
           /\ waits'[j] = waits[j]
           /\ checkpoints'[j] = checkpoints[j]
  BY <1>2, <1>3 DEF IInv, TypeOK
<1>5. /\ status'[i] \in {"COMPLETED", "WAITING"}
      /\ status'[i] = "COMPLETED" => next = LastRevision
      /\ status'[i] = "WAITING" => next \in Waits
  BY <1>2, <1>3, RevisionFacts, SMTT(20) DEF IInv, TypeOK, WaitsAt
<1>6. /\ command' = [command EXCEPT ![c].status = "APPLIED"]
      /\ command' \in [Commands -> Command]
      /\ work' \in [Commands -> Work]
      /\ work'[c].status = "DONE"
      /\ \A d \in Commands \ {c} : work'[d] = work[d]
      /\ claim' \in [Workers -> Claim]
      /\ CommandRows' /\ InFlightAgrees' /\ ClaimsRemember' /\ Fenced'
  <2>1. /\ \A j \in Instances \ {InstanceOf(w)} : revision'[j] = revision[j]
        /\ revision'[InstanceOf(w)] \in {revision[InstanceOf(w)], revision[InstanceOf(w)] + 1}
        /\ \A j \in Instances \ {InstanceOf(w)} : status'[j] = status[j]
    BY <1>2, <1>4 DEF InstanceOf
  <2>2. /\ pending' = [pending EXCEPT ![InstanceOf(w)] = Null]
        /\ SettleRows(w, "APPLIED", "DONE")
        /\ claim' = [claim EXCEPT ![w] = Idle] \/ FailWith(w, "ADVANCE_FAILED")
        /\ activeToken' = activeToken
    BY <1>3 DEF InstanceOf
  <2> QED
    BY <1>1, <2>1, <2>2, SettleKeeps
<1>7. /\ \A r \in Waits : waits'[i][r] = IF r = revision[i] /\ waits[i][r] = "OPEN" THEN "CLOSED"
                                         ELSE IF r = next THEN "OPEN" ELSE waits[i][r]
      /\ waits' \in [Instances -> [Waits -> {"ABSENT", "OPEN", "CLOSED"}]]
  <2>1. WaitsAfter(w, WaitsAt(next)) =
          [r \in Waits |-> IF r = revision[i] /\ waits[i][r] = "OPEN" THEN "CLOSED"
                           ELSE IF r = next THEN "OPEN" ELSE waits[i][r]]
    BY <1>2 DEF WaitsAfter, WaitsAt
  <2>2. waits[i] \in [Waits -> {"ABSENT", "OPEN", "CLOSED"}]
    BY <1>2 DEF IInv, TypeOK
  <2>3. WaitsAfter(w, WaitsAt(next)) \in [Waits -> {"ABSENT", "OPEN", "CLOSED"}]
    BY <2>1, <2>2
  <2>4. waits'[i] = WaitsAfter(w, WaitsAt(next))
    BY <1>2, <1>3 DEF IInv, TypeOK
  <2> QED
    BY <1>3, <2>1, <2>3, <2>4 DEF IInv, TypeOK
<1>8. /\ checkpoints'[i][next] = c
      /\ \A r \in 1..LastRevision : r # next => checkpoints'[i][r] = checkpoints[i][r]
      /\ checkpoints' \in [Instances -> [1..LastRevision -> Commands \cup {Null}]]
  BY <1>2, <1>3 DEF IInv, TypeOK
<1>9. TypeOK'
  <2>1. revision' \in [Instances -> Revisions]
    BY <1>2, <1>3, RevisionFacts, SMTT(20) DEF IInv, TypeOK
  <2>2. status' \in [Instances -> InstanceStatus]
    BY <1>3 DEF IInv, TypeOK, InstanceStatus
  <2>3. pending' \in [Instances -> Commands \cup {Null}]
    BY <1>3 DEF IInv, TypeOK
  <2>4. projection' \in [Instances -> SUBSET Waits]
    BY <1>3 DEF IInv, TypeOK, WaitsAt
  <2> QED
    BY <1>3, <1>6, <1>7, <1>8, <2>1, <2>2, <2>3, <2>4 DEF IInv, TypeOK
<1>10. PhaseShape'
  BY <1>4, <1>5 DEF IInv, PhaseShape
<1>11. ProjectionHonest'
  <2> SUFFICES ASSUME NEW j \in Instances
               PROVE  /\ projection'[j] = {r \in Waits : waits'[j][r] = "OPEN"}
                      /\ {r \in Waits : waits'[j][r] = "OPEN"} = WaitsAt(revision'[j])
                      /\ \A r \in Waits : waits'[j][r] = "CLOSED" <=> r < revision'[j]
    BY DEF ProjectionHonest, OpenWaits
  <2>1. CASE j # i
    BY <1>4, <2>1 DEF IInv, ProjectionHonest, OpenWaits
  <2>2. CASE j = i
    <3>1. \A r \in Waits : /\ waits[i][r] = "OPEN" <=> r = revision[i]
                           /\ waits[i][r] = "CLOSED" <=> r < revision[i]
      BY <1>2 DEF IInv, ProjectionHonest, OpenWaits, WaitsAt
    <3>2. ASSUME NEW r \in Waits
          PROVE  /\ waits'[i][r] = "OPEN" <=> r = next
                 /\ waits'[i][r] = "CLOSED" <=> r < next
      <4>1. next = revision[i] + 1 /\ revision[i] \in Nat /\ r \in Nat
        BY <1>2, RevisionFacts
      <4>2. /\ waits'[i][r] = IF r = revision[i] /\ waits[i][r] = "OPEN" THEN "CLOSED"
                              ELSE IF r = next THEN "OPEN" ELSE waits[i][r]
            /\ waits[i][r] = "OPEN" <=> r = revision[i]
            /\ waits[i][r] = "CLOSED" <=> r < revision[i]
        BY <1>7, <3>1
      <4> QED
        BY <4>1, <4>2, OneWaitLater
    <3>3. {r \in Waits : waits'[i][r] = "OPEN"} = WaitsAt(next)
      BY <3>2 DEF WaitsAt
    <3>4. projection'[i] = WaitsAt(next)
      BY <1>2, <1>3 DEF IInv, TypeOK
    <3> QED
      BY <1>4, <2>2, <3>2, <3>3, <3>4
  <2> QED
    BY <2>1, <2>2
<1>12. IncidentAgrees' /\ OneIncident'
  <2>1. incidents' = incidents /\ incidents[i] = {}
    BY <1>2, <1>3
  <2>2. ASSUME NEW j \in Instances
        PROVE  status'[j] = "INCIDENT" <=> incidents'[j] # {}
    <3>1. CASE j = i
      BY <1>5, <2>1, <3>1
    <3>2. CASE j # i
      BY <1>4, <2>1, <3>2 DEF IInv, IncidentAgrees
    <3> QED
      BY <3>1, <3>2
  <2> QED
    BY <2>1, <2>2 DEF IInv, IncidentAgrees, OneIncident
<1>13. OneContinuation'
  <2>1. /\ command'[c].status = "APPLIED"
        /\ command'[c].instance = i
        /\ command'[c].expected = revision[i]
        /\ \A d \in Commands \ {c} : command'[d] = command[d]
    BY <1>2, <1>6 DEF IInv, TypeOK, Command
  <2>2. c # Null
    BY <1>2, NullAssumption
  <2>3. command[c].status # "APPLIED"
    BY <1>2
  <2>4. ASSUME NEW j \in Instances, NEW r \in 1..LastRevision
        PROVE  checkpoints'[j][r] # Null <=> r <= revision'[j]
    <3>1. checkpoints[j][r] # Null <=> r <= revision[j]
      BY DEF IInv, OneContinuation
    <3>2. CASE j = i
      <4>1. revision'[j] = revision[j] + 1 /\ revision[j] \in Nat
        BY <1>2, <1>4, <3>2
      <4>2. next = revision[j] + 1
        BY <1>2, <3>2
      <4>3. CASE r = next
        <5>1. checkpoints'[j][r] # Null
          BY <1>8, <2>2, <3>2, <4>3
        <5>2. r <= revision'[j]
          BY <4>1, <4>2, <4>3
        <5> QED
          BY <5>1, <5>2
      <4>4. CASE r # next
        <5>1. checkpoints'[j][r] = checkpoints[j][r]
          BY <1>8, <3>2, <4>4
        <5>2. r <= revision'[j] <=> r <= revision[j]
          BY <4>1, <4>2, <4>4
        <5> QED
          BY <3>1, <5>1, <5>2
      <4> QED
        BY <4>3, <4>4
    <3>3. CASE j # i
      BY <1>4, <3>1, <3>3
    <3> QED
      BY <3>2, <3>3
  <2>5. ASSUME NEW j \in Instances, NEW r \in 1..LastRevision, NEW d \in Commands
        PROVE  checkpoints'[j][r] = d <=> /\ command'[d].status = "APPLIED"
                                          /\ command'[d].instance = j
                                          /\ command'[d].expected = r - 1
    <3>1. checkpoints[j][r] = d <=> /\ command[d].status = "APPLIED"
                                    /\ command[d].instance = j
                                    /\ command[d].expected = r - 1
      BY DEF IInv, OneContinuation
    <3>2. CASE d = c
      <4>1. checkpoints[j][r] # c
        BY <2>3, <3>1, <3>2
      <4>2. j = i /\ r = next => checkpoints'[j][r] = c
        BY <1>8
      <4>3. ~(j = i /\ r = next) => checkpoints'[j][r] # c
        BY <1>4, <1>8, <4>1
      <4> QED
        BY <1>2, <2>1, <3>2, <4>2, <4>3
    <3>3. CASE d # c
      <4>1. checkpoints[i][next] = Null
        BY <1>2 DEF IInv, OneContinuation
      <4>2. ~(j = i /\ r = next) => checkpoints'[j][r] = checkpoints[j][r]
        BY <1>4, <1>8
      <4>3. d # Null
        BY NullAssumption
      <4> QED
        BY <1>8, <2>1, <3>1, <3>3, <4>1, <4>2, <4>3
    <3> QED
      BY <3>2, <3>3
  <2>6. ASSUME NEW d \in Commands
        PROVE  command'[d].status = "APPLIED" <=> work'[d].status = "DONE"
    <3>1. CASE d = c
      BY <1>6, <2>1, <3>1
    <3>2. CASE d # c
      BY <1>6, <2>1, <3>2 DEF IInv, OneContinuation
    <3> QED
      BY <3>1, <3>2
  <2> QED
    BY <2>4, <2>5, <2>6 DEF OneContinuation
<1> QED
  BY <1>6, <1>9, <1>10, <1>11, <1>12, <1>13 DEF IInv

-----------------------------------------------------------------------------
(* The invariant and what follows from it.                                  *)

LEMMA InitIInv == Init => IInv
<1> SUFFICES ASSUME Init PROVE IInv
  OBVIOUS
<1> USE DEF Init
<1>1. TypeOK
  BY RevisionFacts DEF TypeOK, InstanceStatus, Command, CommandStatus, CommandTypes,
     Work, WorkStatus, Claim, Stages, Causes, Idle
<1>2. CommandRows
  BY DEF CommandRows
<1>7. InFlightAgrees
  <2>1. \A i \in Instances : pending[i] = Null
    OBVIOUS
  <2>2. \A c \in Commands : command[c].status = "NONE" /\ c # Null
    BY NullAssumption
  <2> QED
    BY <2>1, <2>2 DEF InFlightAgrees
<1>8. PhaseShape
  BY DEF PhaseShape
<1>3. ProjectionHonest
  <2> SUFFICES ASSUME NEW i \in Instances
               PROVE  /\ projection[i] = OpenWaits(i)
                      /\ OpenWaits(i) = WaitsAt(revision[i])
                      /\ \A r \in Waits : waits[i][r] = "CLOSED" <=> r < revision[i]
    BY DEF ProjectionHonest
  <2>1. projection[i] = {} /\ revision[i] = 0 /\ waits[i] = [r \in Waits |-> "ABSENT"]
    OBVIOUS
  <2>2. \A r \in Waits : waits[i][r] = "ABSENT" /\ r \in Nat /\ r # 0
    BY <2>1, RevisionFacts DEF Waits
  <2>3. OpenWaits(i) = {}
    BY <2>2 DEF OpenWaits
  <2>4. WaitsAt(revision[i]) = {}
    BY <2>1, <2>2 DEF WaitsAt
  <2>5. \A r \in Waits : waits[i][r] # "CLOSED" /\ ~(r < revision[i])
    BY <2>1, <2>2
  <2> QED
    BY <2>1, <2>3, <2>4, <2>5
<1>4. ClaimsRemember /\ Fenced
  BY DEF ClaimsRemember, Fenced, Idle
<1>5. OneContinuation
  BY RevisionFacts, NullAssumption DEF OneContinuation
<1>6. IncidentAgrees /\ OneIncident
  BY DEF IncidentAgrees, OneIncident
<1> QED
  BY <1>1, <1>2, <1>3, <1>4, <1>5, <1>6, <1>7, <1>8 DEF IInv

LEMMA NextIInv == IInv /\ [Next]_vars => IInv'
<1> SUFFICES ASSUME IInv, [Next]_vars PROVE IInv'
  OBVIOUS
<1>1. ASSUME NEW i \in Instances, NEW c \in Commands, StartInstance(i, c) PROVE IInv'
  <2>1. revision[i] = 0 /\ "START" \in CommandTypes
    BY <1>1 DEF StartInstance, IInv, PhaseShape, CommandTypes
  <2> QED
    BY <1>1, <2>1, AcceptKeeps DEF StartInstance
<1>2. ASSUME NEW i \in Instances, NEW c \in Commands,
             CompleteTask(i, c) \/ CompleteJob(i, c) \/ FireTimer(i, c) \/ CorrelateMessage(i, c)
      PROVE  IInv'
  <2>1. \E type \in CommandTypes : type # "START" /\ AcceptCommand(i, c, type, revision[i])
    BY <1>2 DEF CompleteTask, CompleteJob, FireTimer, CorrelateMessage, CommandTypes
  <2>2. status[i] = "WAITING" /\ pending[i] = Null /\ status' = status
    BY <1>2 DEF CompleteTask, CompleteJob, FireTimer, CorrelateMessage, ActiveWait
  <2> QED
    BY <2>1, <2>2, AcceptKeeps
<1>3. ASSUME NEW i \in Instances, ExhaustJob(i) \/ RetryJob(i) \/ CancelInstance(i) PROVE IInv'
  BY <1>3, OperatorKeeps
<1>4. ASSUME NEW w \in Workers, WorkerStep(w) \/ CommitRaises(w) \/ CrashWorker(w) PROVE IInv'
  BY <1>4, ClaimKeeps, WorkerKeeps, CommitKeeps, FailKeeps DEF WorkerStep
<1>5. ASSUME NEW c \in Commands, ExpireLease(c) PROVE IInv'
  BY <1>5, ExpireKeeps
<1>6. CASE UNCHANGED vars
  BY <1>6 DEF vars, instanceVars, IInv, TypeOK, CommandRows, InFlightAgrees, PhaseShape,
     ProjectionHonest, OpenWaits, ClaimsRemember, Fenced, OneContinuation, IncidentAgrees, OneIncident
<1> QED
  BY <1>1, <1>2, <1>3, <1>4, <1>5, <1>6 DEF Next

\* The inductive invariant of the runtime.
THEOREM Invariant == SafeSpec => []IInv
  BY InitIInv, NextIInv, PTL DEF SafeSpec

\* Every variable of the runtime keeps its type.
THEOREM TypeCorrect == SafeSpec => []TypeOK
<1>1. IInv => TypeOK
  BY DEF IInv
<1> QED
  BY <1>1, Invariant, PTL

\* At most one command of an instance is in flight and none is forgotten.
THEOREM InFlight == SafeSpec => []InFlightAgrees
<1>1. IInv => InFlightAgrees
  BY DEF IInv
<1> QED
  BY <1>1, Invariant, PTL

\* The last checkpoint stays a recovery record whose hash verifies.
THEOREM Honesty == SafeSpec => []ProjectionHonest
<1>1. IInv => ProjectionHonest
  BY DEF IInv
<1> QED
  BY <1>1, Invariant, PTL

\* Every checkpoint is the work of exactly one applied command.
THEOREM Continuation == SafeSpec => []OneContinuation
<1>1. IInv => OneContinuation
  BY DEF IInv
<1> QED
  BY <1>1, Invariant, PTL

\* Two holders of one instance would hold the same token of the same command.
LEMMA WriterFromIInv == IInv => OneWriter
<1> SUFFICES ASSUME IInv, NEW w \in Workers, claim[w].stage # "idle", Holds(w)
             PROVE  /\ work[claim[w].command].token = claim[w].token
                    /\ command[claim[w].command].token = claim[w].token
                    /\ \A v \in Workers \ {w} :
                         claim[v].stage # "idle" /\ Holds(v) =>
                           command[claim[v].command].instance # command[claim[w].command].instance
  BY DEF OneWriter
<1>1. /\ work[claim[w].command].token = claim[w].token
      /\ command[claim[w].command].token = claim[w].token
  BY HolderFacts
<1>2. ASSUME NEW v \in Workers, v # w, claim[v].stage # "idle", Holds(v),
             command[claim[v].command].instance = command[claim[w].command].instance
      PROVE  FALSE
  <2>1. claim[v].command = claim[w].command /\ claim[v].token = claim[w].token
    BY <1>2 DEF Holds
  <2> QED
    BY <1>2, <2>1 DEF IInv, Fenced
<1> QED
  BY <1>1, <1>2

\* A stale worker cannot commit: of all workers that remember a claim on an
\* instance at most one passes the compare-and-swap of commit and failure.
THEOREM Writer == SafeSpec => []OneWriter
  BY WriterFromIInv, Invariant, PTL

\* No worker that still holds an instance ever finds its checkpoint corrupt.
LEMMA NoFalseFromIInv == IInv => NoFalseIncident
<1> SUFFICES ASSUME IInv, NEW w \in Workers, Holds(w),
                    claim[w].cause \in {"PROJECTION_HASH_MISMATCH", "MISSING_RUNTIME_CHECKPOINT"}
             PROVE  FALSE
  BY DEF NoFalseIncident
<1>1. claim[w].stage # "idle"
  BY DEF IInv, ClaimsRemember
<1>2. revision[command[claim[w].command].instance] # command[claim[w].command].expected
  BY <1>1 DEF IInv, ClaimsRemember
<1> QED
  BY <1>2 DEF Holds

\* INCIDENT and open incident rows come and go together, and a
\* corrupt-checkpoint verdict that comes from reading during a commit never
\* opens one.
THEOREM Incidents == SafeSpec => []IncidentsAreReal
<1>1. IInv => IncidentsAreReal
  BY NoFalseFromIInv DEF IInv, IncidentsAreReal
<1> QED
  BY <1>1, Invariant, PTL

-----------------------------------------------------------------------------
(* Terminal instances.                                                      *)

\* No step changes a completed or cancelled instance.
LEMMA TerminalStep ==
  ASSUME IInv, [Next]_vars, NEW i \in Instances, status[i] \in {"COMPLETED", "CANCELLED"}
  PROVE  UNCHANGED <<status[i], revision[i], pending[i], waits[i], checkpoints[i]>>
<1> USE DEF IInv, TypeOK
<1>1. ASSUME NEW j \in Instances, NEW c \in Commands,
             \/ StartInstance(j, c) \/ CompleteTask(j, c) \/ CompleteJob(j, c)
             \/ FireTimer(j, c) \/ CorrelateMessage(j, c)
      PROVE  UNCHANGED <<status[i], revision[i], pending[i], waits[i], checkpoints[i]>>
  <2>1. j # i
    BY <1>1 DEF StartInstance, CompleteTask, CompleteJob, FireTimer, CorrelateMessage, ActiveWait
  <2>2. /\ UNCHANGED <<revision, waits, checkpoints>>
        /\ pending' = [pending EXCEPT ![j] = c]
        /\ status' = status \/ status' = [status EXCEPT ![j] = "STARTING"]
    BY <1>1 DEF StartInstance, CompleteTask, CompleteJob, FireTimer, CorrelateMessage, AcceptCommand
  <2> QED
    BY <2>1, <2>2
<1>2. ASSUME NEW j \in Instances, ExhaustJob(j) \/ RetryJob(j) \/ CancelInstance(j)
      PROVE  UNCHANGED <<status[i], revision[i], pending[i], waits[i], checkpoints[i]>>
  BY <1>2 DEF ExhaustJob, RetryJob, CancelInstance, CancelAllowed, ActiveWait
<1>3. ASSUME NEW w \in Workers, CommitWork(w) \/ FailWork(w)
      PROVE  UNCHANGED <<status[i], revision[i], pending[i], waits[i], checkpoints[i]>>
  <2>1. claim[w].stage # "idle" /\ Holds(w)
    BY <1>3 DEF CommitWork, FailWork
  <2>2. command[claim[w].command].instance # i
    BY <2>1, HolderFacts
  <2> QED
    BY <1>3, <2>2 DEF CommitWork, FailWork
<1>4. ASSUME NEW w \in Workers, NEW c \in Commands, ClaimWork(w, c)
      PROVE  UNCHANGED <<status[i], revision[i], pending[i], waits[i], checkpoints[i]>>
  BY <1>4 DEF ClaimWork
<1>5. ASSUME NEW w \in Workers, Advance(w) \/ LoseClaim(w) \/ CommitRaises(w) \/ CrashWorker(w)
      PROVE  UNCHANGED <<status[i], revision[i], pending[i], waits[i], checkpoints[i]>>
  BY <1>5 DEF Advance, LoseClaim, CommitRaises, CrashWorker, instanceVars
<1>6. ASSUME NEW c \in Commands, ExpireLease(c)
      PROVE  UNCHANGED <<status[i], revision[i], pending[i], waits[i], checkpoints[i]>>
  BY <1>6 DEF ExpireLease, instanceVars
<1>7. CASE UNCHANGED vars
  BY <1>7 DEF vars, instanceVars
<1> QED
  BY <1>1, <1>2, <1>3, <1>4, <1>5, <1>6, <1>7 DEF Next, WorkerStep

\* A completed or cancelled instance is never changed again.
THEOREM Finality == SafeSpec => TerminalIsFinal
<1>1. IInv /\ [Next]_vars =>
        [\A i \in Instances : status[i] \in {"COMPLETED", "CANCELLED"} =>
           UNCHANGED <<status[i], revision[i], pending[i], waits[i], checkpoints[i]>>]_vars
  BY TerminalStep
<1> QED
  BY <1>1, Invariant, PTL DEF SafeSpec, TerminalIsFinal

-----------------------------------------------------------------------------
(* Refinement of InstanceLifecycle.                                         *)

InFlightMap == [i \in Instances |-> pending[i] # Null]

\* An accepted trigger is Begin or Accept.
LEMMA AcceptMaps ==
  ASSUME IInv, NEW i \in Instances, NEW c \in Commands,
         \/ StartInstance(i, c) \/ CompleteTask(i, c) \/ CompleteJob(i, c)
         \/ FireTimer(i, c) \/ CorrelateMessage(i, c)
  PROVE  Lifecycle!Begin(i) \/ Lifecycle!Accept(i)
<1> USE DEF IInv, TypeOK
<1>1. /\ UNCHANGED revision
      /\ pending' = [pending EXCEPT ![i] = c]
      /\ \/ status[i] = "NONE" /\ status' = [status EXCEPT ![i] = "STARTING"]
         \/ status[i] = "WAITING" /\ pending[i] = Null /\ status' = status
  BY DEF StartInstance, CompleteTask, CompleteJob, FireTimer, CorrelateMessage, ActiveWait, AcceptCommand
<1>2. InFlightMap' = [InFlightMap EXCEPT ![i] = TRUE]
  BY <1>1, NullAssumption DEF InFlightMap
<1>3. pending[i] = Null => ~InFlightMap[i]
  BY DEF InFlightMap
<1> QED
  BY <1>1, <1>2, <1>3 DEF Lifecycle!Begin, Lifecycle!Accept, InFlightMap

\* Exhausted, retried and cancelled are Stall, Resume and Cancel.
LEMMA OperatorMaps ==
  ASSUME IInv, NEW i \in Instances, ExhaustJob(i) \/ RetryJob(i) \/ CancelInstance(i)
  PROVE  Lifecycle!Stall(i) \/ Lifecycle!Resume(i) \/ Lifecycle!Cancel(i)
<1> USE DEF IInv, TypeOK
<1>1. InFlightMap' = InFlightMap /\ ~InFlightMap[i] /\ revision' = revision
  BY DEF ExhaustJob, RetryJob, CancelInstance, CancelAllowed, ActiveWait, InFlightMap
<1>2. CASE ExhaustJob(i)
  BY <1>1, <1>2 DEF ExhaustJob, ActiveWait, Lifecycle!Stall, InFlightMap
<1>3. CASE RetryJob(i)
  <2>1. PICK r \in OpenWaits(i) : TRUE
    BY <1>3 DEF RetryJob
  <2>2. revision[i] \in Waits
    BY <2>1 DEF ProjectionHonest, WaitsAt
  <2>3. revision[i] > 0
    BY <2>2, RevisionFacts
  <2> QED
    BY <1>1, <1>3, <2>3 DEF RetryJob, Lifecycle!Resume, InFlightMap
<1>4. CASE CancelInstance(i)
  <2>1. status[i] \in {"WAITING", "INCIDENT"} /\ revision[i] > 0
    BY <1>4, RevisionFacts DEF CancelInstance, CancelAllowed, PhaseShape, InstanceStatus
  <2> QED
    BY <1>1, <1>4, <2>1 DEF CancelInstance, Lifecycle!Cancel, InFlightMap
<1> QED
  BY <1>2, <1>3, <1>4

\* Committing is Advance, failing is Quarantine.
LEMMA SettleMaps ==
  ASSUME IInv, NEW w \in Workers, CommitWork(w) \/ FailWork(w)
  PROVE  \E i \in Instances : Lifecycle!Settle(i)
<1>1. claim[w].stage # "idle" /\ Holds(w)
  BY DEF CommitWork, FailWork
<1>c. PICK c \in Commands : c = claim[w].command
  BY <1>1, HolderFacts
<1>i. PICK i \in Instances : i = command[c].instance
  BY <1>1, <1>c, HolderFacts
<1> DEFINE next == command[c].expected + 1
<1>2. /\ pending[i] = c
      /\ revision[i] = command[c].expected
      /\ revision[i] \in 0..Len(Path)
  BY <1>1, <1>c, <1>i, HolderFacts DEF Holds
<1>3. InFlightMap[i]
  BY <1>2, NullAssumption DEF InFlightMap
<1>4. pending' = [pending EXCEPT ![i] = Null]
  BY <1>c, <1>i DEF CommitWork, FailWork
<1>5. InFlightMap' = [InFlightMap EXCEPT ![i] = FALSE]
  BY <1>2, <1>4 DEF InFlightMap, IInv, TypeOK
<1>6. CASE CommitWork(w)
  <2>1. /\ revision' = [revision EXCEPT ![i] = next]
        /\ status' = [status EXCEPT ![i] = IF WaitsAt(next) = {} THEN "COMPLETED" ELSE "WAITING"]
    BY <1>6, <1>c, <1>i DEF CommitWork
  <2>2. revision[i] < LastRevision /\ next = revision[i] + 1
    BY <1>2, RevisionFacts
  <2>3. WaitsAt(next) = {} <=> revision[i] + 1 = LastRevision
    BY <1>2, RevisionFacts DEF WaitsAt
  <2> HIDE DEF next
  <2>4. revision' = [revision EXCEPT ![i] = @ + 1]
    BY <2>1, <2>2
  <2>5. status' = [status EXCEPT ![i] = IF revision[i] + 1 = LastRevision THEN "COMPLETED" ELSE "WAITING"]
    BY <2>1, <2>3
  <2>6. Lifecycle!Advance(i)
    BY <1>3, <1>5, <2>2, <2>4, <2>5 DEF Lifecycle!Advance, InFlightMap
  <2> QED
    BY <1>2, <2>6 DEF Lifecycle!Settle
<1>7. CASE FailWork(w)
  <2>1. status' = [status EXCEPT ![i] = "INCIDENT"] /\ revision' = revision
    BY <1>7, <1>c, <1>i DEF FailWork
  <2>2. Lifecycle!Quarantine(i)
    BY <1>3, <1>5, <2>1 DEF Lifecycle!Quarantine, InFlightMap
  <2> QED
    BY <1>2, <2>2 DEF Lifecycle!Settle
<1> QED
  BY <1>6, <1>7

\* A step of the runtime is a step of the lifecycle or leaves it unchanged.
LEMMA StepMaps == IInv /\ [Next]_vars => [Lifecycle!Next]_(Lifecycle!vars)
<1> SUFFICES ASSUME IInv, [Next]_vars PROVE [Lifecycle!Next]_(Lifecycle!vars)
  OBVIOUS
<1>1. ASSUME NEW i \in Instances, NEW c \in Commands,
             \/ StartInstance(i, c) \/ CompleteTask(i, c) \/ CompleteJob(i, c)
             \/ FireTimer(i, c) \/ CorrelateMessage(i, c)
      PROVE  Lifecycle!Next
  BY <1>1, AcceptMaps DEF Lifecycle!Next
<1>2. ASSUME NEW i \in Instances, ExhaustJob(i) \/ RetryJob(i) \/ CancelInstance(i)
      PROVE  Lifecycle!Next
  BY <1>2, OperatorMaps DEF Lifecycle!Next
<1>3. ASSUME NEW w \in Workers, CommitWork(w) \/ FailWork(w) PROVE Lifecycle!Next
  BY <1>3, SettleMaps DEF Lifecycle!Next
<1>4. ASSUME UNCHANGED <<status, revision, pending>> PROVE UNCHANGED Lifecycle!vars
  BY <1>4 DEF Lifecycle!vars
<1>5. ASSUME NEW w \in Workers,
             \/ \E c \in Commands : ClaimWork(w, c)
             \/ Advance(w) \/ LoseClaim(w) \/ CommitRaises(w) \/ CrashWorker(w)
      PROVE  UNCHANGED <<status, revision, pending>>
  BY <1>5 DEF ClaimWork, Advance, LoseClaim, CommitRaises, CrashWorker, instanceVars
<1>6. ASSUME NEW c \in Commands, ExpireLease(c) PROVE UNCHANGED <<status, revision, pending>>
  BY <1>6 DEF ExpireLease, instanceVars
<1>7. UNCHANGED vars => UNCHANGED <<status, revision, pending>>
  BY DEF vars, instanceVars
<1> QED
  BY <1>1, <1>2, <1>3, <1>4, <1>5, <1>6, <1>7 DEF Next, WorkerStep

\* The leased, crash-prone runtime implements the lifecycle of an instance.
THEOREM Implements == SafeSpec => Lifecycle!SafeSpec
<1>1. Init => Lifecycle!Init
  BY DEF Init, Lifecycle!Init
<1> QED
  BY <1>1, StepMaps, Invariant, PTL DEF SafeSpec, Lifecycle!SafeSpec

=============================================================================
