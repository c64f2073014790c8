---------------------------- MODULE MessageDispatch ----------------------------
(***************************************************************************)
(* Message correlation: processes that wait for a message, the throws      *)
(* that queue a delivery, the workers that dispatch deliveries, and the    *)
(* API clients that correlate messages of their own.                       *)
(*                                                                         *)
(* correlateMessage is one transaction under READ COMMITTED: it looks the  *)
(* idempotency key up, takes a snapshot of the matching subscriptions,     *)
(* then locks the rows, dropping the ones that no longer match, and        *)
(* commits.  Each of the three is a step of its own here, so rows that     *)
(* change or appear between them are seen as PostgreSQL shows them.        *)
(*                                                                         *)
(* The fencing token of a delivery is compared for equality only, and a    *)
(* worker has one claim at a time: it equals the row's token exactly when  *)
(* the worker is the row's last claimant, which is what is kept here.  The *)
(* message name, the environment and the payload are part of the key.      *)
(***************************************************************************)
EXTENDS Naturals, FiniteSets

CONSTANTS
  Receivers,      \* process instances that wait for messages
  Messages,       \* message throws; also the idempotency keys derived from them
  ApiKeys,        \* idempotency keys of the API clients
  Workers,        \* runtime workers, which dispatch deliveries
  Clients,        \* API clients that correlate messages
  Values,         \* correlation values, white space around them removed
  Padding,        \* whether a key may have white space around it
  MaxRevision,    \* bound: waits of a receiver
  MaxFaults,      \* bound: crashes, lost answers and leases that expire early
  Null

ASSUME PaddingAssumption == Padding \subseteq BOOLEAN
ASSUME BoundsAssumption == MaxRevision \in Nat \ {0} /\ MaxFaults \in Nat
ASSUME DistinctAssumption ==
  /\ Null \notin Receivers \cup Messages \cup ApiKeys \cup Workers \cup Clients
  /\ Messages \cap ApiKeys = {}
  /\ Workers \cap Clients = {}
ASSUME ReceiversAssumption == IsFiniteSet(Receivers)

VARIABLES
  instance,       \* process_instances of the receivers
  subscription,   \* message_subscriptions, by receiver and checkpoint revision
  commands,       \* MESSAGE_CORRELATE rows of runtime_commands
  attempt,        \* message_correlation_attempts, by idempotency key
  delivery,       \* message_deliveries
  call,           \* what each worker and each client is doing
  told,           \* history: outcomes that clients were told
  faults          \* how often the environment misbehaved

database == <<instance, subscription, commands, attempt, delivery>>
vars == <<database, call, told, faults>>

Keys == [value : Values, padded : Padding]
IdempotencyKeys == Messages \cup ApiKeys
Actors == Workers \cup Clients
Revisions == 1..MaxRevision
Targets == Receivers \X Revisions

InstanceStatus == {"NONE", "WAITING", "INCIDENT", "CANCELLED", "COMPLETED"}
Outcomes == {"CORRELATED", "NO_MATCH", "AMBIGUOUS"}
Terminal == {"DELIVERED", "NO_MATCH", "AMBIGUOUS"}
Stages == {"idle", "calling", "matching", "locking", "answered", "failed"}

Instance == [status : InstanceStatus, revision : 0..MaxRevision, pending : IdempotencyKeys \cup {Null}]
Subscription == [status : {"NONE", "WAITING", "CONSUMED"}, key : Keys \cup {Null}]
Command == [target : Targets, source : IdempotencyKeys]
Attempt == [key : [value : Values, padded : {FALSE}], outcome : Outcomes, target : Targets \cup {Null}]
Delivery == [status : {"NONE", "AVAILABLE", "CLAIMED"} \cup Terminal, key : Keys \cup {Null},
             claimant : Workers \cup {Null}, expired : BOOLEAN, target : Targets \cup {Null}]
Call == [stage : Stages, source : IdempotencyKeys \cup {Null}, key : Keys \cup {Null},
         found : SUBSET Targets]

\* NULL is not a row.
ASSUME NullAssumption == Null \notin Targets \cup Attempt

TypeOK ==
  /\ instance \in [Receivers -> Instance]
  /\ subscription \in [Receivers -> [Revisions -> Subscription]]
  /\ commands \subseteq Command
  /\ attempt \in [IdempotencyKeys -> Attempt \cup {Null}]
  /\ delivery \in [Messages -> Delivery]
  /\ call \in [Actors -> Call]
  /\ told \subseteq [source : IdempotencyKeys, key : Keys, row : Attempt]
  /\ faults \in Nat

Idle == [stage |-> "idle", source |-> Null, key |-> Null, found |-> {}]

Init ==
  /\ instance = [r \in Receivers |-> [status |-> "NONE", revision |-> 0, pending |-> Null]]
  /\ subscription = [r \in Receivers |-> [v \in Revisions |-> [status |-> "NONE", key |-> Null]]]
  /\ commands = {}
  /\ attempt = [k \in IdempotencyKeys |-> Null]
  /\ delivery = [m \in Messages |-> [status |-> "NONE", key |-> Null, claimant |-> Null,
                                     expired |-> FALSE, target |-> Null]]
  /\ call = [a \in Actors |-> Idle]
  /\ told = {}
  /\ faults = 0

Spend == faults < MaxFaults /\ faults' = faults + 1

-----------------------------------------------------------------------------
(* The runtime (module RuntimeCore), as far as messages are concerned.      *)

\* A checkpoint at a message catch: the next revision waits for some key.
Wait(r, v) ==
  \E key \in Keys :
    /\ instance' = [instance EXCEPT ![r] = [status |-> "WAITING", revision |-> v, pending |-> Null]]
    /\ subscription' = [subscription EXCEPT ![r][v] = [status |-> "WAITING", key |-> key]]

StartReceiver(r) ==
  /\ instance[r].status = "NONE"
  /\ Wait(r, 1)
  /\ UNCHANGED <<commands, attempt, delivery, call, told, faults>>

\* The correlated subscription, once its command is incorporated.
Consume(r) == [subscription[r][instance[r].revision] EXCEPT !.status = "CONSUMED"]

\* The commit of the pending command reaches the next catch or the end.
CommitReceiver(r) ==
  LET v == instance[r].revision IN
  /\ instance[r].pending # Null
  /\ \/ /\ v < MaxRevision
        /\ \E key \in Keys :
             subscription' = [subscription EXCEPT ![r][v] = Consume(r),
                                                  ![r][v + 1] = [status |-> "WAITING", key |-> key]]
        /\ instance' = [instance EXCEPT ![r] = [status |-> "WAITING", revision |-> v + 1, pending |-> Null]]
     \/ /\ subscription' = [subscription EXCEPT ![r][v] = Consume(r)]
        /\ instance' = [instance EXCEPT ![r].status = "COMPLETED", ![r].pending = Null]
  /\ UNCHANGED <<commands, attempt, delivery, call, told, faults>>

\* The pending command is quarantined; the subscription keeps waiting.
FailReceiver(r) ==
  /\ instance[r].pending # Null
  /\ instance' = [instance EXCEPT ![r].status = "INCIDENT", ![r].pending = Null]
  /\ UNCHANGED <<subscription, commands, attempt, delivery, call, told, faults>>

\* Subscriptions and queued deliveries are left as they are.
CancelReceiver(r) ==
  /\ instance[r].status \in {"WAITING", "INCIDENT"}
  /\ instance[r].pending = Null
  /\ instance' = [instance EXCEPT ![r].status = "CANCELLED"]
  /\ UNCHANGED <<subscription, commands, attempt, delivery, call, told, faults>>

\* The commit of a checkpoint behind a message throw.
ThrowMessage(m) ==
  /\ delivery[m].status = "NONE"
  /\ \E key \in Keys : delivery' = [delivery EXCEPT ![m].status = "AVAILABLE", ![m].key = key]
  /\ UNCHANGED <<instance, subscription, commands, attempt, call, told, faults>>

-----------------------------------------------------------------------------
(* Correlation: one transaction, of a worker or of an API client.           *)

Trim(key) == [key EXCEPT !.padded = FALSE]

\* An active subscription of the instance's current checkpoint.
Matches(target, key) ==
  LET r == target[1]
      s == subscription[target[1]][target[2]]
  IN  /\ s.status = "WAITING"
      /\ s.key = Trim(key)
      /\ target[2] = instance[r].revision
      /\ instance[r].status = "WAITING"

Goes(a, stage) == call' = [call EXCEPT ![a].stage = stage]

\* The actor's call ends with this row; a client learns it.
Tell(a, row) ==
  /\ Goes(a, "answered")
  /\ told' = IF a \in Clients
       THEN told \cup {[source |-> call[a].source, key |-> call[a].key, row |-> row]} ELSE told

\* Mutant: the attempts of a key overwrite each other.
NeverRecorded(a) == FALSE

Recorded(a) == attempt[call[a].source] # Null

\* The row that the idempotency key has recorded is the answer, unless it
\* belongs to another request.
Replay(a) ==
  LET row == attempt[call[a].source] IN
  IF row.key = Trim(call[a].key)
    THEN Tell(a, row)
    ELSE Goes(a, "failed") /\ UNCHANGED told

Lookup(a) ==
  /\ call[a].stage = "calling"
  /\ IF Recorded(a)
       THEN Replay(a)
       ELSE Goes(a, "matching") /\ UNCHANGED told
  /\ UNCHANGED <<database, faults>>

\* The snapshot of the SELECT ... FOR UPDATE.
Snapshot(a) ==
  /\ call[a].stage = "matching"
  /\ call' = [call EXCEPT ![a].stage = "locking",
                          ![a].found = {t \in Targets : Matches(t, call[a].key)}]
  /\ UNCHANGED <<database, told, faults>>

\* Mutant: rows are not checked again when their lock is granted.
LockedStale(a) == call[a].found

\* The rows of the snapshot that still match once they are locked.
Locked(a) == {t \in call[a].found : Matches(t, call[a].key)}

OutcomeOf(matches) ==
  CASE Cardinality(matches) = 0 -> "NO_MATCH"
    [] Cardinality(matches) = 1 -> "CORRELATED"
    [] OTHER -> "AMBIGUOUS"

\* Mutant: a command that is still pending does not get in the way.
NeverBusy(a) == FALSE

\* The one match already has an accepted command.
Busy(a) ==
  /\ OutcomeOf(Locked(a)) = "CORRELATED"
  /\ \A target \in Locked(a) : instance[target[1]].pending # Null

\* The attempt is recorded and, if it correlated, the command accepted.
Record(a) ==
  LET k == call[a].source
      outcome == OutcomeOf(Locked(a))
      target == IF outcome = "CORRELATED" THEN CHOOSE t \in Locked(a) : TRUE ELSE Null
      row == [key |-> Trim(call[a].key), outcome |-> outcome, target |-> target]
  IN
  /\ attempt' = [attempt EXCEPT ![k] = row]
  /\ IF target = Null
       THEN UNCHANGED <<instance, commands>>
       ELSE /\ instance' = [instance EXCEPT ![target[1]].pending = k]
            /\ commands' = commands \cup {[target |-> target, source |-> k]}
  /\ \/ Tell(a, row) /\ UNCHANGED faults
     \/ Goes(a, "failed") /\ Spend /\ UNCHANGED told     \* the answer to the commit is lost
  /\ UNCHANGED <<subscription, delivery>>

\* Two transactions of one idempotency key meet at its unique index: the
\* second one is rolled back and reads what the first one recorded.
Correlate(a) ==
  /\ call[a].stage = "locking"
  /\ \/ Busy(a) /\ Goes(a, "failed") /\ UNCHANGED <<database, told, faults>>
     \/ ~Busy(a) /\ Recorded(a) /\ Replay(a) /\ UNCHANGED <<database, faults>>
     \/ ~Busy(a) /\ ~Recorded(a) /\ Record(a)

-----------------------------------------------------------------------------
(* API clients.                                                             *)

\* A client may repeat a request, and may use a key for another request.
Send(c) ==
  /\ call[c].stage = "idle"
  /\ \E k \in ApiKeys, key \in Keys :
       call' = [call EXCEPT ![c] = [stage |-> "calling", source |-> k, key |-> key, found |-> {}]]
  /\ UNCHANGED <<database, told, faults>>

Receive(c) ==
  /\ call[c].stage \in {"answered", "failed"}
  /\ call' = [call EXCEPT ![c] = Idle]
  /\ UNCHANGED <<database, told, faults>>

-----------------------------------------------------------------------------
(* Dispatch of queued deliveries by the workers.                            *)

\* Mutant: whatever was handled counts as delivered.
AlwaysDelivered(outcome) == "DELIVERED"

StatusOf(outcome) == IF outcome = "CORRELATED" THEN "DELIVERED" ELSE outcome

\* Mutant: the claim of a worker that died is never taken over.
ClaimableOnce(m) == delivery[m].status = "AVAILABLE"

Claimable(m) == delivery[m].status = "AVAILABLE" \/ (delivery[m].status = "CLAIMED" /\ delivery[m].expired)

Claim(w) ==
  /\ call[w].stage = "idle"
  /\ \E m \in Messages :
       /\ Claimable(m)
       /\ delivery' = [delivery EXCEPT ![m].status = "CLAIMED", ![m].claimant = w, ![m].expired = FALSE]
       /\ call' = [call EXCEPT ![w] = [stage |-> "calling", source |-> m, key |-> delivery[m].key, found |-> {}]]
  /\ UNCHANGED <<instance, subscription, commands, attempt, told, faults>>

\* Mutant: whoever dispatched the delivery may settle it or give it back.
HoldsUnfenced(w) == delivery[call[w].source].status = "CLAIMED"

\* status = 'CLAIMED' AND fencing_token = claim.fencingToken
Holds(w) == delivery[call[w].source].status = "CLAIMED" /\ delivery[call[w].source].claimant = w

\* A claim that was taken over in the meantime changes nothing.
Settle(w) ==
  LET m == call[w].source IN
  /\ call[w].stage = "answered"
  /\ delivery' = IF Holds(w)
       THEN [delivery EXCEPT
              ![m].status = StatusOf(attempt[m].outcome),
              ![m].target = attempt[m].target,
              ![m].claimant = Null, ![m].expired = FALSE]
       ELSE delivery
  /\ call' = [call EXCEPT ![w] = Idle]
  /\ UNCHANGED <<instance, subscription, commands, attempt, told, faults>>

\* A conflict or an error: the delivery is available again after a backoff.
RetryClaim(w) ==
  /\ call[w].stage = "failed"
  /\ delivery' = IF Holds(w)
       THEN [delivery EXCEPT ![call[w].source].status = "AVAILABLE",
                             ![call[w].source].claimant = Null, ![call[w].source].expired = FALSE]
       ELSE delivery
  /\ call' = [call EXCEPT ![w] = Idle]
  /\ UNCHANGED <<instance, subscription, commands, attempt, told, faults>>

\* A claim outlives its lease, early or because its worker is gone.
ExpireLease(m) ==
  /\ delivery[m].status = "CLAIMED"
  /\ ~delivery[m].expired
  /\ IF call[delivery[m].claimant].source = m THEN Spend ELSE UNCHANGED faults
  /\ delivery' = [delivery EXCEPT ![m].expired = TRUE]
  /\ UNCHANGED <<instance, subscription, commands, attempt, call, told>>

\* The process dies, or its connection; an open transaction is rolled back.
Crash(a) ==
  /\ call[a].stage # "idle"
  /\ Spend
  /\ call' = [call EXCEPT ![a] = Idle]
  /\ UNCHANGED <<database, told>>

-----------------------------------------------------------------------------

Step(a) == Lookup(a) \/ Snapshot(a) \/ Correlate(a)
Conclude(w) == Settle(w) \/ RetryClaim(w)
Incorporate(r) == CommitReceiver(r) \/ FailReceiver(r)

Next ==
  \/ \E r \in Receivers : StartReceiver(r) \/ Incorporate(r) \/ CancelReceiver(r)
  \/ \E m \in Messages : ThrowMessage(m) \/ ExpireLease(m)
  \/ \E a \in Actors : Step(a) \/ Crash(a)
  \/ \E c \in Clients : Send(c) \/ Receive(c)
  \/ \E w \in Workers : Claim(w) \/ Conclude(w)

SafeSpec == Init /\ [][Next]_vars

\* Workers poll for ever and finish what they began, leases of dead workers
\* expire, and accepted commands are incorporated (RuntimeCore).
Fairness ==
  /\ \A a \in Actors : WF_vars(Step(a))
  /\ \A w \in Workers : WF_vars(Claim(w)) /\ WF_vars(Conclude(w))
  /\ \A m \in Messages : WF_vars(ExpireLease(m))
  /\ \A r \in Receivers : WF_vars(Incorporate(r))

Spec == SafeSpec /\ Fairness

-----------------------------------------------------------------------------
(* Safety.                                                                  *)

Correlated == {k \in IdempotencyKeys : attempt[k] # Null /\ attempt[k].outcome = "CORRELATED"}

\* One message continues a process once: every correlated attempt has exactly
\* the command it reported, no subscription gets two commands (the unique
\* index is never hit), and an instance moves on only from the subscription
\* that was correlated, in its current checkpoint, for the key sent.
OneContinuation ==
  /\ commands = {[target |-> attempt[k].target, source |-> k] : k \in Correlated}
  /\ \A c, d \in commands : c.target = d.target => c = d
  /\ \A c \in commands : subscription[c.target[1]][c.target[2]].key = attempt[c.source].key
  /\ \A r \in Receivers, v \in Revisions :
       subscription[r][v].status = "CONSUMED" => \E c \in commands : c.target = <<r, v>>
  /\ \A r \in Receivers : instance[r].pending # Null =>
       /\ instance[r].status = "WAITING"
       /\ [target |-> <<r, instance[r].revision>>, source |-> instance[r].pending] \in commands
       /\ subscription[r][instance[r].revision].status = "WAITING"

\* The delivery ledger tells the truth: a settled delivery shows the outcome
\* and the target that its one attempt recorded, whichever worker correlated
\* it and whichever settled it; a delivery nobody claims is not settled yet.
LedgerTellsOutcome ==
  \A m \in Messages :
    /\ delivery[m].status \in Terminal =>
         /\ attempt[m] # Null
         /\ delivery[m].target = attempt[m].target
         /\ delivery[m].status = IF attempt[m].target = Null THEN attempt[m].outcome ELSE "DELIVERED"
    /\ delivery[m].status = "CLAIMED" <=> delivery[m].claimant # Null

\* Whoever repeats a request is told what the first call recorded, and for
\* the request it sent, also when subscriptions have changed since, or both
\* calls ran at the same time.
SameAnswer ==
  \A answer \in told :
    /\ attempt[answer.source] = answer.row
    /\ answer.row.key = Trim(answer.key)

\* Nobody takes a delivery from the worker that dispatches it: a claim ends
\* with that worker's own settlement or release, or is taken over by a claim
\* after its lease expired; and what is settled stays as it is.
ClaimsAreRespected ==
  [][\A m \in Messages :
       /\ delivery[m].status \in Terminal => delivery'[m] = delivery[m]
       /\ delivery[m].status = "CLAIMED" /\ delivery'[m].claimant # delivery[m].claimant =>
            \/ delivery[m].expired /\ delivery'[m].status = "CLAIMED"
            \/ call[delivery[m].claimant].source = m /\ call'[delivery[m].claimant] = Idle]_vars

\* No correlation of the past: a command is accepted only for a process that
\* is waiting at that moment, with nothing else accepted, and was the only
\* match that the attempt could see.
CorrelatesTheActiveWait ==
  [][\A c \in commands' \ commands :
       LET r == c.target[1] IN
       /\ instance[r].status = "WAITING"
       /\ instance[r].pending = Null
       /\ instance[r].revision = c.target[2]
       /\ \E a \in Actors : call[a].source = c.source /\ Locked(a) = {c.target}]_vars

-----------------------------------------------------------------------------
(* Progress.                                                                *)

\* A queued message gets its final outcome, whatever conflicts and crashes
\* come in between.
EveryMessageSettles == \A m \in Messages : delivery[m].status = "AVAILABLE" ~> delivery[m].status \in Terminal

=============================================================================
