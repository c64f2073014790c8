----------------------------- MODULE RuntimeCore -----------------------------
(***************************************************************************)
(* The durable runtime: process instances that advance from checkpoint to  *)
(* checkpoint, the commands that trigger an advance, the durable work rows *)
(* that workers lease, and the workers themselves, which read a claim,     *)
(* advance the engine outside any transaction and then try to commit.      *)
(*                                                                         *)
(* Every action that touches the database is one transaction of            *)
(* packages/db: each of them locks the process_instances row it reads, so  *)
(* transactions of one instance are serial.  A worker holds no lock        *)
(* between Claim, Advance and Commit or Fail; that is where leases expire, *)
(* replacements claim the same work and stale workers come back.           *)
(*                                                                         *)
(* Time is not modelled: a lease is live until ExpireLease, a timer may be *)
(* due at any moment.  Process variables are fixed by the checkpoint they  *)
(* belong to, so a projection hash is the set of wait rows it covers.      *)
(***************************************************************************)
EXTENDS Naturals, Sequences

CONSTANTS
  Instances,       \* ids of process instances
  Commands,        \* ids of runtime commands (and of their work rows)
  Workers,         \* runtime worker processes
  Path,            \* the waits of the deployed process, in order
  MaxClaims,       \* bound: leases granted for one work row
  Null             \* SQL NULL for an id

WaitKinds == {"USER_TASK", "EXTERNAL_JOB", "TIMER", "MESSAGE"}

ASSUME PathAssumption == Path \in Seq(WaitKinds)
ASSUME MaxClaimsAssumption == MaxClaims \in Nat \ {0}
ASSUME NullAssumption == Null \notin Commands \cup Instances

Waits == 1..Len(Path)             \* checkpoint r stops at wait Path[r]
LastRevision == Len(Path) + 1     \* nothing is left to wait for
Revisions == 0..LastRevision

VARIABLES
  status,          \* process_instances.status
  revision,        \* process_instances.revision
  pending,         \* process_instances.pending_command_id
  activeToken,     \* process_instances.active_fencing_token
  projection,      \* process_instances.projection_sha256
  waits,           \* the task, job, timer and subscription rows
  checkpoints,     \* process_checkpoints.command_id, by revision
  incidents,       \* sources of the instance's OPEN incidents
  command,         \* runtime_commands
  work,            \* durable_work, one row per command
  claim            \* what each worker process holds in memory

instanceVars == <<status, revision, pending, activeToken, projection, waits, checkpoints, incidents>>
vars == <<instanceVars, command, work, claim>>

InstanceStatus == {"NONE", "STARTING", "WAITING", "COMPLETED", "INCIDENT", "CANCELLED"}
CommandTypes == {"START", "TASK_COMPLETE", "JOB_COMPLETE", "TIMER_FIRE", "MESSAGE_CORRELATE"}
CommandStatus == {"NONE", "ACCEPTED", "CLAIMED", "APPLIED", "QUARANTINED"}
WorkStatus == {"NONE", "AVAILABLE", "CLAIMED", "DONE", "QUARANTINED"}
Stages == {"idle", "claimed", "advanced", "failing"}
Causes == {"none", "PROJECTION_HASH_MISMATCH", "MISSING_RUNTIME_CHECKPOINT", "ADVANCE_FAILED"}

Command == [status : CommandStatus, instance : Instances \cup {Null}, type : CommandTypes,
            expected : Revisions, target : Revisions, token : Nat]
Work == [status : WorkStatus, token : Nat, expired : BOOLEAN]
Claim == [stage : Stages, command : Commands \cup {Null}, token : Nat,
          projection : SUBSET Waits, target : Revisions, cause : Causes]

Idle == [stage |-> "idle", command |-> Null, token |-> 0,
         projection |-> {}, target |-> 0, cause |-> "none"]

TypeOK ==
  /\ status \in [Instances -> InstanceStatus]
  /\ revision \in [Instances -> Revisions]
  /\ pending \in [Instances -> Commands \cup {Null}]
  /\ activeToken \in [Instances -> Nat]
  /\ projection \in [Instances -> SUBSET Waits]
  /\ waits \in [Instances -> [Waits -> {"ABSENT", "OPEN", "CLOSED"}]]
  /\ checkpoints \in [Instances -> [1..LastRevision -> Commands \cup {Null}]]
  /\ incidents \in [Instances -> SUBSET {"COMMAND", "JOB"}]
  /\ command \in [Commands -> Command]
  /\ work \in [Commands -> Work]
  /\ claim \in [Workers -> Claim]

Init ==
  /\ status = [i \in Instances |-> "NONE"]
  /\ revision = [i \in Instances |-> 0]
  /\ pending = [i \in Instances |-> Null]
  /\ activeToken = [i \in Instances |-> 0]
  /\ projection = [i \in Instances |-> {}]
  /\ waits = [i \in Instances |-> [r \in Waits |-> "ABSENT"]]
  /\ checkpoints = [i \in Instances |-> [r \in 1..LastRevision |-> Null]]
  /\ incidents = [i \in Instances |-> {}]
  /\ command = [c \in Commands |-> [status |-> "NONE", instance |-> Null, type |-> "START",
                                    expected |-> 0, target |-> 0, token |-> 0]]
  /\ work = [c \in Commands |-> [status |-> "NONE", token |-> 0, expired |-> FALSE]]
  /\ claim = [w \in Workers |-> Idle]

OpenWaits(i) == {r \in Waits : waits[i][r] = "OPEN"}

-----------------------------------------------------------------------------
(* Accepting a trigger: one transaction inserts the command, points the     *)
(* instance at it and schedules the work row.                               *)

\* Ids are random; which of the unused ones is taken makes no difference.
NewId == CHOOSE c \in Commands : command[c].status = "NONE"

AcceptCommand(i, c, type, target) ==
  /\ command[c].status = "NONE"
  /\ c = NewId
  /\ command' = [command EXCEPT ![c] =
       [status |-> "ACCEPTED", instance |-> i, type |-> type,
        expected |-> revision[i], target |-> target, token |-> 0]]
  /\ work' = [work EXCEPT ![c] = [status |-> "AVAILABLE", token |-> 0, expired |-> FALSE]]
  /\ pending' = [pending EXCEPT ![i] = c]
  /\ UNCHANGED <<revision, activeToken, projection, waits, checkpoints, incidents, claim>>

StartInstance(i, c) ==
  /\ status[i] = "NONE"
  /\ status' = [status EXCEPT ![i] = "STARTING"]
  /\ AcceptCommand(i, c, "START", 0)

\* The row of an active wait of the given kind at the current checkpoint.
ActiveWait(i, kind) ==
  /\ status[i] = "WAITING"
  /\ pending[i] = Null
  /\ revision[i] \in Waits
  /\ Path[revision[i]] = kind
  /\ waits[i][revision[i]] = "OPEN"

\* runtime_commands is unique by target timer and by target subscription.
Untargeted(i, type) ==
  ~\E d \in Commands : /\ command[d].status # "NONE"
                       /\ command[d].instance = i
                       /\ command[d].type = type
                       /\ command[d].target = revision[i]

CompleteTask(i, c) ==
  /\ ActiveWait(i, "USER_TASK")
  /\ AcceptCommand(i, c, "TASK_COMPLETE", revision[i])
  /\ UNCHANGED status

\* The worker's delivery lease is the subject of module ExternalJobs.
CompleteJob(i, c) ==
  /\ ActiveWait(i, "EXTERNAL_JOB")
  /\ AcceptCommand(i, c, "JOB_COMPLETE", revision[i])
  /\ UNCHANGED status

FireTimer(i, c) ==
  /\ ActiveWait(i, "TIMER")
  /\ Untargeted(i, "TIMER_FIRE")
  /\ AcceptCommand(i, c, "TIMER_FIRE", revision[i])
  /\ UNCHANGED status

CorrelateMessage(i, c) ==
  /\ ActiveWait(i, "MESSAGE")
  /\ Untargeted(i, "MESSAGE_CORRELATE")
  /\ AcceptCommand(i, c, "MESSAGE_CORRELATE", revision[i])
  /\ UNCHANGED status

-----------------------------------------------------------------------------
(* Operator and job-ledger transitions of the instance row.                 *)

\* The last delivery attempt of a retry cycle failed.
ExhaustJob(i) ==
  /\ ActiveWait(i, "EXTERNAL_JOB")
  /\ status' = [status EXCEPT ![i] = "INCIDENT"]
  /\ incidents' = [incidents EXCEPT ![i] = @ \cup {"JOB"}]
  /\ UNCHANGED <<revision, pending, activeToken, projection, waits, checkpoints, command, work, claim>>

RetryJob(i) ==
  /\ status[i] = "INCIDENT"
  /\ pending[i] = Null
  /\ "JOB" \in incidents[i]
  /\ \E r \in OpenWaits(i) : Path[r] = "EXTERNAL_JOB"
  /\ status' = [status EXCEPT ![i] = "WAITING"]
  /\ incidents' = [incidents EXCEPT ![i] = @ \ {"JOB"}]
  /\ UNCHANGED <<revision, pending, activeToken, projection, waits, checkpoints, command, work, claim>>

\* Mutant: cancellation does not wait for the accepted command.
CancelAllowedWhilePending(i) ==
  /\ status[i] \notin {"NONE", "CANCELLED", "COMPLETED"}
  /\ revision[i] >= 1

\* What cancelProcessInstance requires of the locked row.
CancelAllowed(i) ==
  /\ status[i] \notin {"NONE", "CANCELLED", "COMPLETED"}
  /\ pending[i] = Null
  /\ revision[i] >= 1

\* Mutant: the incidents of a cancelled instance stay open.
CancelInstanceKeepsIncidents(i) ==
  /\ CancelAllowed(i)
  /\ status' = [status EXCEPT ![i] = "CANCELLED"]
  /\ UNCHANGED <<revision, pending, activeToken, projection, waits, checkpoints, incidents, command, work, claim>>

\* Wait rows, projection and checkpoints stay as they are.
CancelInstance(i) ==
  /\ CancelAllowed(i)
  /\ status' = [status EXCEPT ![i] = "CANCELLED"]
  /\ incidents' = [incidents EXCEPT ![i] = {}]
  /\ UNCHANGED <<revision, pending, activeToken, projection, waits, checkpoints, command, work, claim>>

-----------------------------------------------------------------------------
(* A runtime worker.                                                        *)

\* Mutant: a lease that expired is never offered again.
ClaimableOnce(c) ==
  /\ command[c].status # "NONE"
  /\ pending[command[c].instance] = c
  /\ work[c].status = "AVAILABLE"

\* Work of a pending command that nobody holds a live lease on.
Claimable(c) ==
  /\ command[c].status # "NONE"
  /\ pending[command[c].instance] = c
  /\ \/ work[c].status = "AVAILABLE"
     \/ work[c].status = "CLAIMED" /\ work[c].expired
  /\ work[c].token < MaxClaims

\* Reads and marks in one transaction; an outdated command strands its work.
ClaimWork(w, c) ==
  LET i == command[c].instance
      token == work[c].token + 1
      current == revision[i] = command[c].expected
  IN
  /\ claim[w].stage = "idle"
  /\ Claimable(c)
  /\ work' = [work EXCEPT ![c] = [status |-> IF current THEN "CLAIMED" ELSE "QUARANTINED",
                                  token |-> token, expired |-> FALSE]]
  /\ command' = IF current
                  THEN [command EXCEPT ![c].status = "CLAIMED", ![c].token = token]
                  ELSE command
  /\ activeToken' = IF current THEN [activeToken EXCEPT ![i] = token] ELSE activeToken
  /\ claim' = IF current
                THEN [claim EXCEPT ![w] =
                       [stage |-> "claimed", command |-> c, token |-> token,
                        projection |-> projection[i],
                        target |-> IF command[c].target \in OpenWaits(i) THEN command[c].target ELSE 0,
                        cause |-> "none"]]
                ELSE claim
  /\ UNCHANGED <<status, revision, pending, projection, waits, checkpoints, incidents>>

\* The four projection queries run on separate connections.  A torn result
\* has the verdict of reading all four before the commit that tore it or
\* all four after it: a wait row opens once and closes once.
ProjectionMatches(w) ==
  LET c == claim[w].command IN
  command[c].expected = 0 \/ OpenWaits(command[c].instance) = claim[w].projection

FailWith(w, cause) ==
  claim' = [claim EXCEPT ![w].stage = "failing", ![w].cause = cause]

\* Verify the checkpoint, then run the engine up to its next wait.
Advance(w) ==
  LET c == claim[w].command IN
  /\ claim[w].stage = "claimed"
  /\ \/ /\ ~ProjectionMatches(w)
        /\ FailWith(w, "PROJECTION_HASH_MISMATCH")
     \/ /\ ProjectionMatches(w)
        /\ IF command[c].type # "START" /\ claim[w].target = 0
             THEN FailWith(w, "MISSING_RUNTIME_CHECKPOINT")
             ELSE \/ claim' = [claim EXCEPT ![w].stage = "advanced"]
                  \/ FailWith(w, "ADVANCE_FAILED")
  /\ UNCHANGED <<instanceVars, command, work>>

\* Mutant: the compare-and-swap forgets the fencing token.
HoldsUnfenced(w) ==
  LET c == claim[w].command
      i == command[c].instance
  IN
  /\ revision[i] = command[c].expected
  /\ pending[i] = c

\* The WHERE clause of the guarding UPDATE of commit and of failure.
Holds(w) ==
  LET c == claim[w].command
      i == command[c].instance
  IN
  /\ revision[i] = command[c].expected
  /\ pending[i] = c
  /\ activeToken[i] = claim[w].token

\* Command and work rows are settled WHERE fencing_token = the claim's token.
SettleRows(w, commandStatus, workStatus) ==
  LET c == claim[w].command
      token == claim[w].token
  IN
  /\ command' = IF command[c].token = token
                  THEN [command EXCEPT ![c].status = commandStatus] ELSE command
  /\ work' = IF work[c].token = token
               THEN [work EXCEPT ![c].status = workStatus, ![c].expired = FALSE] ELSE work

\* The waits the engine stops at for checkpoint r: one, or none at the end.
WaitsAt(r) == {r} \cap Waits

\* Mutant: the consumed wait stays open.
WaitsAfterUnconsumed(w, open) ==
  LET rows == waits[command[claim[w].command].instance] IN
  [r \in Waits |-> IF r \in open THEN "OPEN" ELSE rows[r]]

\* The wait rows of the instance once the claim's target is closed and the
\* waits the engine stopped at are inserted.
WaitsAfter(w, open) ==
  LET rows == waits[command[claim[w].command].instance] IN
  [r \in Waits |-> IF r = claim[w].target /\ rows[r] = "OPEN" THEN "CLOSED"
                   ELSE IF r \in open THEN "OPEN" ELSE rows[r]]

\* The compare-and-swap writes checkpoint N+1 and everything it contains.
\* When the answer to COMMIT is lost the worker takes it for a failure.
CommitWork(w) ==
  LET c == claim[w].command
      i == command[c].instance
      next == command[c].expected + 1
      open == WaitsAt(next)
  IN
  /\ claim[w].stage = "advanced"
  /\ Holds(w)
  /\ revision' = [revision EXCEPT ![i] = next]
  /\ status' = [status EXCEPT ![i] = IF open = {} THEN "COMPLETED" ELSE "WAITING"]
  /\ pending' = [pending EXCEPT ![i] = Null]
  /\ projection' = [projection EXCEPT ![i] = open]
  /\ waits' = [waits EXCEPT ![i] = WaitsAfter(w, open)]
  /\ checkpoints' = [checkpoints EXCEPT ![i][next] = c]
  /\ SettleRows(w, "APPLIED", "DONE")
  /\ \/ claim' = [claim EXCEPT ![w] = Idle]
     \/ FailWith(w, "ADVANCE_FAILED")
  /\ UNCHANGED <<activeToken, incidents>>

FailWork(w) ==
  LET i == command[claim[w].command].instance IN
  /\ claim[w].stage = "failing"
  /\ Holds(w)
  /\ status' = [status EXCEPT ![i] = "INCIDENT"]
  /\ pending' = [pending EXCEPT ![i] = Null]
  /\ incidents' = [incidents EXCEPT ![i] = @ \cup {"COMMAND"}]
  /\ SettleRows(w, "QUARANTINED", "QUARANTINED")
  /\ claim' = [claim EXCEPT ![w] = Idle]
  /\ UNCHANGED <<revision, activeToken, projection, waits, checkpoints>>

\* The compare-and-swap of a fenced worker matches no row.
LoseClaim(w) ==
  /\ claim[w].stage \in {"advanced", "failing"}
  /\ ~Holds(w)
  /\ claim' = [claim EXCEPT ![w] = Idle]
  /\ UNCHANGED <<instanceVars, command, work>>

\* A commit that raises (a constraint, a lost connection) becomes a failure.
CommitRaises(w) ==
  /\ claim[w].stage = "advanced"
  /\ FailWith(w, "ADVANCE_FAILED")
  /\ UNCHANGED <<instanceVars, command, work>>

\* Leases are lost at most MaxClaims - 1 times per work row.
ExpireLease(c) ==
  /\ work[c].status = "CLAIMED"
  /\ ~work[c].expired
  /\ work[c].token < MaxClaims
  /\ work' = [work EXCEPT ![c].expired = TRUE]
  /\ UNCHANGED <<instanceVars, command, claim>>

CrashWorker(w) ==
  /\ claim[w].stage # "idle"
  /\ work[claim[w].command].token < MaxClaims
  /\ claim' = [claim EXCEPT ![w] = Idle]
  /\ UNCHANGED <<instanceVars, command, work>>

-----------------------------------------------------------------------------

WorkerStep(w) ==
  \/ \E c \in Commands : ClaimWork(w, c)
  \/ Advance(w)
  \/ CommitWork(w)
  \/ FailWork(w)
  \/ LoseClaim(w)

Next ==
  \/ \E i \in Instances, c \in Commands :
       \/ StartInstance(i, c)
       \/ CompleteTask(i, c)
       \/ CompleteJob(i, c)
       \/ FireTimer(i, c)
       \/ CorrelateMessage(i, c)
  \/ \E i \in Instances : ExhaustJob(i) \/ RetryJob(i) \/ CancelInstance(i)
  \/ \E w \in Workers : WorkerStep(w) \/ CommitRaises(w) \/ CrashWorker(w)
  \/ \E c \in Commands : ExpireLease(c)

SafeSpec == Init /\ [][Next]_vars

\* The worker loop polls for ever, its oldest work first; clocks move on.
\* Nobody is obliged to start, complete, retry or cancel anything.
Fairness ==
  /\ \A w \in Workers : WF_vars(WorkerStep(w))
  /\ \A c \in Commands : WF_vars(ExpireLease(c))

Spec == SafeSpec /\ Fairness

-----------------------------------------------------------------------------
(* Safety.                                                                  *)

\* The instance's pending pointer, the command's status and its work row
\* always tell the same story: a command is in flight exactly while the
\* instance points at it, it was accepted against the current checkpoint and
\* its work row can still be leased.  So at most one command of an instance
\* is in flight, none is forgotten, and the stranding branch of a claim
\* (a pending command with an outdated revision) is never taken.
InFlightAgrees ==
  \A i \in Instances, c \in Commands :
    /\ pending[i] = c <=> /\ command[c].status \in {"ACCEPTED", "CLAIMED"}
                          /\ command[c].instance = i
    /\ pending[i] = c => /\ command[c].expected = revision[i]
                         /\ work[c].status \in {"AVAILABLE", "CLAIMED"}
                         /\ status[i] \in {"STARTING", "WAITING"}

\* The stored projection always equals what the wait rows say, whatever was
\* accepted, quarantined, cancelled or retried since the checkpoint: the last
\* checkpoint stays a recovery record whose hash verifies.
ProjectionHonest ==
  \A i \in Instances :
    /\ projection[i] = OpenWaits(i)
    /\ OpenWaits(i) = WaitsAt(revision[i])
    /\ \A r \in Waits : waits[i][r] = "CLOSED" <=> r < revision[i]

\* Exactly one logical continuation: every checkpoint up to the current one
\* was written by the one APPLIED command accepted against the checkpoint
\* before it, whose work is done; no command is incorporated twice, or
\* incorporated without its command and work rows saying so.
OneContinuation ==
  /\ \A i \in Instances, r \in 1..LastRevision :
       /\ checkpoints[i][r] # Null <=> r <= revision[i]
       /\ \A c \in Commands :
            checkpoints[i][r] = c <=> /\ command[c].status = "APPLIED"
                                      /\ command[c].instance = i
                                      /\ command[c].expected = r - 1
  /\ \A c \in Commands : command[c].status = "APPLIED" <=> work[c].status = "DONE"

\* A stale worker cannot commit: of all workers that still remember a claim
\* on the same instance, at most one would pass the compare-and-swap, and it
\* is the one whose token the command and the work row carry.
OneWriter ==
  \A w \in Workers :
    claim[w].stage # "idle" /\ Holds(w) =>
      /\ work[claim[w].command].token = claim[w].token
      /\ command[claim[w].command].token = claim[w].token
      /\ \A v \in Workers \ {w} :
           claim[v].stage # "idle" /\ Holds(v) =>
             command[claim[v].command].instance # command[claim[w].command].instance

\* A worker that reads the projection while another one commits may conclude
\* that the checkpoint is corrupt.  That verdict never opens an incident: a
\* worker which reaches it no longer holds the instance.
NoFalseIncident ==
  \A w \in Workers :
    claim[w].cause \in {"PROJECTION_HASH_MISMATCH", "MISSING_RUNTIME_CHECKPOINT"} => ~Holds(w)

\* An instance is in INCIDENT exactly while it has an OPEN incident row.
IncidentAgrees ==
  \A i \in Instances : status[i] = "INCIDENT" <=> incidents[i] # {}

\* An instance is called broken exactly while an operator has an OPEN incident
\* to act on (failRuntimeWork, failExternalJob, retryExternalJob,
\* cancelProcessInstance), and no incident comes from a projection that was
\* read while another worker committed.
IncidentsAreReal == IncidentAgrees /\ NoFalseIncident

\* A completed or cancelled instance is never changed again, whatever late
\* completions, expired leases and stale workers do afterwards.
TerminalIsFinal ==
  [][\A i \in Instances : status[i] \in {"COMPLETED", "CANCELLED"} =>
       UNCHANGED <<status[i], revision[i], pending[i], waits[i], checkpoints[i]>>]_vars

-----------------------------------------------------------------------------
(* The inductive invariant: the properties above and what makes them so.    *)

\* A command row exists together with its instance and its work row; it
\* targets the wait of the checkpoint it was accepted against.
CommandRows ==
  \A c \in Commands :
    /\ command[c].status = "NONE" <=> command[c].instance = Null
    /\ command[c].status = "NONE" <=> work[c].status = "NONE"
    /\ command[c].status # "NONE" =>
         /\ command[c].target = command[c].expected
         /\ command[c].type = "START" <=> command[c].expected = 0
         /\ command[c].expected <= Len(Path)
         /\ command[c].expected <= revision[command[c].instance]

\* The instance status determines which revisions are possible.
PhaseShape ==
  \A i \in Instances :
    /\ status[i] \in {"NONE", "STARTING"} => revision[i] = 0
    /\ status[i] = "WAITING" => revision[i] \in Waits
    /\ status[i] = "COMPLETED" => revision[i] = LastRevision

\* What a worker remembers of its claim was true when it was granted.
ClaimsRemember ==
  \A w \in Workers :
    LET c == claim[w].command IN
    /\ claim[w].stage = "idle" <=> c = Null
    /\ claim[w].stage = "idle" <=> claim[w].token = 0
    /\ claim[w].stage = "idle" => claim[w].cause = "none"
    /\ claim[w].stage # "idle" =>
         /\ command[c].status # "NONE"
         /\ claim[w].token <= work[c].token
         /\ claim[w].target = command[c].expected
         /\ claim[w].projection = WaitsAt(command[c].expected)
         /\ claim[w].cause \in {"PROJECTION_HASH_MISMATCH", "MISSING_RUNTIME_CHECKPOINT"} =>
              revision[command[c].instance] # command[c].expected

\* A lease token is given to one worker once, and while a command is in
\* flight its instance, command row and work row agree on the latest token.
Fenced ==
  /\ \A v, w \in Workers :
       claim[w].stage # "idle" /\ claim[v].command = claim[w].command
         /\ claim[v].token = claim[w].token => v = w
  /\ \A c \in Commands :
       /\ command[c].status = "ACCEPTED" => work[c].token = 0
       /\ command[c].status = "CLAIMED" =>
            /\ command[c].token = work[c].token
            /\ activeToken[command[c].instance] = work[c].token

OneIncident == \A i \in Instances : ~({"COMMAND", "JOB"} \subseteq incidents[i])

\* Every step of the runtime preserves this conjunction.
IInv ==
  /\ TypeOK
  /\ CommandRows
  /\ InFlightAgrees
  /\ PhaseShape
  /\ ProjectionHonest
  /\ ClaimsRemember
  /\ Fenced
  /\ OneContinuation
  /\ IncidentAgrees
  /\ OneIncident

-----------------------------------------------------------------------------
(* Progress and refinement.                                                 *)

\* Every accepted command is eventually incorporated or quarantined, even if
\* workers crash and leases expire in between.
EveryCommandSettles ==
  \A i \in Instances : pending[i] # Null ~> pending[i] = Null

Lifecycle == INSTANCE InstanceLifecycle WITH
  phase <- status,
  checkpoint <- revision,
  inFlight <- [i \in Instances |-> pending[i] # Null]

\* The lifecycle the product promises of an instance, with its progress
\* guarantee, is what the leased, crash-prone runtime implements.
ImplementsLifecycle == Lifecycle!Spec

=============================================================================
