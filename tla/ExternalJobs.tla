----------------------------- MODULE ExternalJobs -----------------------------
(***************************************************************************)
(* External jobs: the delivery ledger in the database, the HTTP requests   *)
(* of job workers, and the sessions of the worker client library, each of  *)
(* which locks one delivery, renews its lease while the handler runs and   *)
(* reports the outcome.                                                    *)
(*                                                                         *)
(* A server action is one transaction; it locks the delivery, the job and  *)
(* the instance.  Requests reach the server late, twice or not at all, and *)
(* answers get lost; the client cannot tell these apart from a refusal.    *)
(* Each job stands for the one wait of its own instance; the runtime that  *)
(* incorporates an accepted completion is module RuntimeCore and appears   *)
(* here as ApplyCompletion and QuarantineCompletion.                       *)
(*                                                                         *)
(* Time is not modelled: a retry may be due at any moment, and a lease is  *)
(* live until ExpireLease.  Locking compares it with the database clock,   *)
(* reporting with the clock of the web process; when the clocks disagree   *)
(* an expired lease may still be accepted, so either is possible then.     *)
(***************************************************************************)
EXTENDS Naturals, Sequences

CONSTANTS
  Jobs,            \* process_jobs rows, one per instance
  Sessions,        \* client sessions, each processing one locked job
  Results,         \* what a handler may return
  MaxAttempts,     \* process_jobs.max_attempts
  MaxDeliveries,   \* bound: delivery rows of one job
  MaxToken,        \* bound: heartbeats stop at this fencing token
  MaxFaults,       \* bound: crashes, losses, duplicates, early expiries, revocations
  Null             \* SQL NULL, and the fields of an idle session

ASSUME MaxAttemptsAssumption == MaxAttempts \in Nat \ {0}
ASSUME MaxDeliveriesAssumption == MaxDeliveries \in Nat \ {0}
ASSUME BoundsAssumption == MaxToken \in Nat /\ MaxFaults \in Nat
ASSUME NullAssumption == Null \notin Sessions \cup Jobs \cup Results

VARIABLES
  instance,        \* process_instances.status; "MOVED": the job is COMPLETED
  pending,         \* process_instances.pending_command_id IS NOT NULL
  incidents,       \* sources of the instance's OPEN incidents
  attempts,        \* max(attempt) of the job's delivery rows
  delivery,        \* external_job_deliveries, by job and attempt
  accepted,        \* JOB_COMPLETE commands of the job, oldest first
  session,         \* what each client session holds in memory
  network,         \* requests on their way to the server
  confirmed,       \* history: completions that a client was told are accepted
  credential,      \* worker_credentials, one of each session
  admitted,        \* requests that were authenticated before their credential was revoked
  faults           \* how often the environment misbehaved

server == <<instance, pending, incidents, attempts, delivery, accepted>>
credentials == <<credential, admitted>>
vars == <<server, session, network, confirmed, credentials, faults>>

Attempts == 1..MaxDeliveries
InstanceStatus == {"WAITING", "INCIDENT", "CANCELLED", "MOVED"}
DeliveryStatus == {"NONE", "AVAILABLE", "LOCKED", "FAILED", "SUCCEEDED", "SUPERSEDED"}
Kinds == {"HEARTBEAT", "COMPLETE", "FAIL"}
Stages == {"idle", "running", "completing", "failing"}
Beats == {"none", "sent", "broken"}

Delivery == [status : DeliveryStatus, cycle : Nat, cycleAttempt : 0..MaxAttempts,
             holder : Sessions \cup {Null}, token : Nat, expired : BOOLEAN]
Session == [stage : Stages, job : Jobs \cup {Null}, attempt : 0..MaxDeliveries, token : Nat,
            beat : Beats, result : Results \cup {Null}]
Request == [kind : Kinds, session : Sessions, job : Jobs, attempt : Attempts,
            token : Nat, result : Results \cup {Null}]
Completion == [attempt : Attempts, result : Results \cup {Null}]

TypeOK ==
  /\ instance \in [Jobs -> InstanceStatus]
  /\ pending \in [Jobs -> BOOLEAN]
  /\ incidents \in [Jobs -> SUBSET {"COMMAND", "JOB"}]
  /\ attempts \in [Jobs -> Attempts]
  /\ delivery \in [Jobs -> [Attempts -> Delivery]]
  /\ accepted \in [Jobs -> Seq(Completion)]
  /\ session \in [Sessions -> Session]
  /\ network \subseteq Request
  /\ confirmed \in [Jobs -> SUBSET Completion]
  /\ credential \in [Sessions -> {"NONE", "ACTIVE", "REVOKED"}]
  /\ admitted \subseteq Request
  /\ faults \in Nat

NoDelivery == [status |-> "NONE", cycle |-> 0, cycleAttempt |-> 0,
               holder |-> Null, token |-> 0, expired |-> FALSE]

\* A row as the commit, failExternalJob and retryExternalJob insert it.
NewDelivery(cycle, cycleAttempt) ==
  [NoDelivery EXCEPT !.status = "AVAILABLE", !.cycle = cycle, !.cycleAttempt = cycleAttempt]

Idle == [stage |-> "idle", job |-> Null, attempt |-> 0, token |-> 0,
         beat |-> "none", result |-> Null]

\* The checkpoints that reached the jobs have just been committed.
Init ==
  /\ instance = [j \in Jobs |-> "WAITING"]
  /\ pending = [j \in Jobs |-> FALSE]
  /\ incidents = [j \in Jobs |-> {}]
  /\ attempts = [j \in Jobs |-> 1]
  /\ delivery = [j \in Jobs |-> [k \in Attempts |-> IF k = 1 THEN NewDelivery(1, 1) ELSE NoDelivery]]
  /\ accepted = [j \in Jobs |-> <<>>]
  /\ session = [s \in Sessions |-> Idle]
  /\ network = {}
  /\ confirmed = [j \in Jobs |-> {}]
  /\ credential = [s \in Sessions |-> "NONE"]
  /\ admitted = {}
  /\ faults = 0

\* The environment misbehaves n times, within its bound.
Spend(n) == faults' = faults + n /\ faults' <= MaxFaults

-----------------------------------------------------------------------------
(* The client library.                                                      *)

RequestOf(s, kind) ==
  [kind |-> kind, session |-> s, job |-> session[s].job, attempt |-> session[s].attempt,
   token |-> session[s].token, result |-> IF kind = "COMPLETE" THEN session[s].result ELSE Null]

\* The session still waits for the answer to r.
AwaitsAnswer(r) ==
  LET x == session[r.session] IN
  /\ x.job = r.job /\ x.attempt = r.attempt /\ x.token = r.token
  /\ \/ r.kind = "HEARTBEAT" /\ x.stage = "running" /\ x.beat = "sent"
     \/ r.kind = "COMPLETE" /\ x.stage = "completing"
     \/ r.kind = "FAIL" /\ x.stage = "failing"

\* Success: a heartbeat brings the next token, a report ends the session.
AfterAnswer(s) ==
  IF session[s].stage = "running"
    THEN [session[s] EXCEPT !.beat = "none", !.token = @ + 1]
    ELSE Idle

\* A refusal or a network error: renewing stops for good, a completion that
\* was not confirmed is reported as failed, a failure report is given up.
AfterError(s) ==
  CASE session[s].stage = "running" -> [session[s] EXCEPT !.beat = "broken"]
    [] session[s].stage = "completing" -> [session[s] EXCEPT !.stage = "failing"]
    [] OTHER -> Idle

\* The request that an error makes the session send.
SentAfterError(s) ==
  IF session[s].stage = "completing" THEN {[RequestOf(s, "FAIL") EXCEPT !.result = Null]} ELSE {}

SendHeartbeat(s) ==
  /\ session[s].stage = "running"
  /\ session[s].beat = "none"
  /\ session[s].token < MaxToken
  /\ session' = [session EXCEPT ![s].beat = "sent"]
  /\ network' = network \cup {RequestOf(s, "HEARTBEAT")}
  /\ UNCHANGED <<server, confirmed, faults>>
  /\ UNCHANGED credentials

\* The handler resolved and the heartbeat loop has been awaited: its last
\* renewal is complete, and a renewal that failed makes the outcome a failure.
HandlerReturns(s) ==
  /\ session[s].stage = "running"
  /\ session[s].beat = "none"
  /\ \E result \in Results :
       /\ session' = [session EXCEPT ![s].stage = "completing", ![s].result = result]
       /\ network' = network \cup {[RequestOf(s, "COMPLETE") EXCEPT !.result = result]}
  /\ UNCHANGED <<server, confirmed, faults>>
  /\ UNCHANGED credentials

HandlerThrows(s) ==
  /\ session[s].stage = "running"
  /\ session[s].beat # "sent"
  /\ session' = [session EXCEPT ![s].stage = "failing"]
  /\ network' = network \cup {RequestOf(s, "FAIL")}
  /\ UNCHANGED <<server, confirmed, faults>>
  /\ UNCHANGED credentials

\* A network error reaches the client while its request is still on the way.
GiveUp(s) ==
  /\ \E r \in network : r.session = s /\ AwaitsAnswer(r)
  /\ Spend(1)
  /\ session' = [session EXCEPT ![s] = AfterError(s)]
  /\ network' = network \cup SentAfterError(s)
  /\ UNCHANGED <<server, confirmed>>
  /\ UNCHANGED credentials

\* The process of the session dies, for one because nothing handles the
\* rejected promise of a heartbeat that failed while the handler runs.
CrashSession(s) ==
  /\ session[s].stage # "idle"
  /\ Spend(1)
  /\ session' = [session EXCEPT ![s] = Idle]
  /\ UNCHANGED <<server, network, confirmed>>
  /\ UNCHANGED credentials

-----------------------------------------------------------------------------
(* The server.                                                              *)

\* What the request hash of a completion covers.
Fingerprint(r) == [attempt |-> r.attempt, result |-> r.result]

\* The transaction ends and r leaves the network, or a copy of it stays.
\* The answer reaches the client, is lost, or nobody waits for it any more.
Answer(r, ok) ==
  LET s == r.session IN
  \E kept \in SUBSET {r} :
    \/ /\ ~AwaitsAnswer(r)
       /\ Spend(IF kept = {} THEN 0 ELSE 1)
       /\ network' = (network \ {r}) \cup kept
       /\ UNCHANGED <<session, confirmed>>
    \/ /\ AwaitsAnswer(r) /\ ok
       /\ Spend(IF kept = {} THEN 0 ELSE 1)
       /\ session' = [session EXCEPT ![s] = AfterAnswer(s)]
       /\ network' = (network \ {r}) \cup kept
       /\ confirmed' = IF r.kind = "COMPLETE"
                         THEN [confirmed EXCEPT ![r.job] = @ \cup {Fingerprint(r)}] ELSE confirmed
    \/ /\ AwaitsAnswer(r)
       /\ Spend(IF ok \/ kept # {} THEN 1 ELSE 0)
       /\ session' = [session EXCEPT ![s] = AfterError(s)]
       /\ network' = (network \ {r}) \cup kept \cup SentAfterError(s)
       /\ UNCHANGED confirmed

\* The request is dropped before it reaches the server.
LoseRequest(r) ==
  /\ r \in network
  /\ Spend(1)
  /\ LET s == r.session IN
     IF AwaitsAnswer(r)
       THEN /\ session' = [session EXCEPT ![s] = AfterError(s)]
            /\ network' = (network \ {r}) \cup SentAfterError(s)
       ELSE /\ session' = session
            /\ network' = network \ {r}
  /\ UNCHANGED <<server, confirmed>>
  /\ UNCHANGED credentials

\* The job is the active wait of an instance with no command in flight.
Deliverable(j) == instance[j] = "WAITING" /\ ~pending[j]

\* Mutant: relocking keeps the token of the lease that expired.
NextTokenReused(d) == IF d.token = 0 THEN 1 ELSE d.token

\* Every grant and every renewal of a lease moves the fencing token on.
NextToken(d) == d.token + 1

\* Mutant: the lease of a worker that never reports is never given away.
LockableOnce(d) == d.status = "AVAILABLE"

Lockable(d) == d.status = "AVAILABLE" \/ (d.status = "LOCKED" /\ d.expired)

\* An administrator issues the session's credential.
CreateCredential(s) ==
  /\ credential[s] = "NONE"
  /\ credential' = [credential EXCEPT ![s] = "ACTIVE"]
  /\ UNCHANGED <<server, session, network, confirmed, admitted, faults>>

\* Some session always keeps its credential.  Requests whose authentication
\* is over go on, those that arrive later do not get that far.
RevokeCredential(s) ==
  /\ credential[s] = "ACTIVE"
  /\ \E other \in Sessions \ {s} : credential[other] = "ACTIVE"
  /\ Spend(1)
  /\ credential' = [credential EXCEPT ![s] = "REVOKED"]
  /\ \E done \in SUBSET {r \in network : r.session = s} : admitted' = admitted \cup done
  /\ UNCHANGED <<server, session, network, confirmed>>

\* authenticateJobWorkerToken finds the credential.
Authenticated(r) == credential[r.session] = "ACTIVE" \/ r \in admitted

\* It does not: 401, and nothing is touched.
Reject(r) ==
  /\ r \in network
  /\ ~Authenticated(r)
  /\ Answer(r, FALSE)
  /\ UNCHANGED <<server, credentials>>

\* Relocking an expired delivery is not a new attempt.
LockJob(s) ==
  /\ session[s].stage = "idle"
  /\ credential[s] = "ACTIVE"
  /\ \E j \in Jobs, k \in Attempts :
       LET d == delivery[j][k] IN
       /\ Deliverable(j)
       /\ Lockable(d)
       /\ delivery' = [delivery EXCEPT ![j][k] =
            [d EXCEPT !.status = "LOCKED", !.holder = s, !.token = NextToken(d), !.expired = FALSE]]
       /\ \/ /\ session' = [session EXCEPT ![s] =
                  [stage |-> "running", job |-> j, attempt |-> k, token |-> NextToken(d),
                   beat |-> "none", result |-> Null]]
             /\ UNCHANGED faults
          \/ /\ Spend(1)                \* the answer is lost
             /\ UNCHANGED session
  /\ UNCHANGED <<instance, pending, incidents, attempts, accepted, network, confirmed>>
  /\ UNCHANGED credentials

\* A session that may renew the lease still relies on it.
Relied(j, k) ==
  \E s \in Sessions : /\ session[s].stage # "idle" /\ credential[s] = "ACTIVE"
                      /\ session[s].job = j /\ session[s].attempt = k
                      /\ session[s].token = delivery[j][k].token

ExpireLease(j, k) ==
  /\ delivery[j][k].status = "LOCKED"
  /\ ~delivery[j][k].expired
  /\ Spend(IF Relied(j, k) THEN 1 ELSE 0)
  /\ delivery' = [delivery EXCEPT ![j][k].expired = TRUE]
  /\ UNCHANGED <<instance, pending, incidents, attempts, accepted, session, network, confirmed>>
  /\ UNCHANGED credentials

\* assertLease, its clock aside.
LeaseHeld(r) ==
  LET d == delivery[r.job][r.attempt] IN
  d.status = "LOCKED" /\ d.holder = r.session /\ d.token = r.token

\* assertLease throws.
LeaseRefused(r) == ~LeaseHeld(r) \/ delivery[r.job][r.attempt].expired

\* The instance is not looked at: only its delivery row matters.
ServeHeartbeat(r) ==
  /\ r \in network
  /\ Authenticated(r)
  /\ r.kind = "HEARTBEAT"
  /\ \/ /\ LeaseHeld(r)
        /\ delivery' = [delivery EXCEPT ![r.job][r.attempt].token = NextToken(delivery[r.job][r.attempt]),
                                        ![r.job][r.attempt].expired = FALSE]
        /\ Answer(r, TRUE)
     \/ /\ LeaseRefused(r)
        /\ Answer(r, FALSE)
        /\ UNCHANGED delivery
  /\ UNCHANGED <<instance, pending, incidents, attempts, accepted>>
  /\ UNCHANGED credentials

Settled(d, status) == [d EXCEPT !.status = status, !.holder = Null, !.expired = FALSE]

\* Mutant: any completion of a delivery that succeeded counts as repeated.
ReplaysAnything(r) == delivery[r.job][r.attempt].status = "SUCCEEDED"

\* A completion equal to the one that succeeded, whoever repeats it.
Replays(r) ==
  /\ delivery[r.job][r.attempt].status = "SUCCEEDED"
  /\ accepted[r.job] # <<>>
  /\ accepted[r.job][Len(accepted[r.job])] = Fingerprint(r)

ServeComplete(r) ==
  /\ r \in network
  /\ Authenticated(r)
  /\ r.kind = "COMPLETE"
  /\ \/ /\ Replays(r)
        /\ Answer(r, TRUE)
        /\ UNCHANGED server
     \/ /\ ~Replays(r)
        /\ LeaseHeld(r)
        /\ Deliverable(r.job)
        /\ accepted' = [accepted EXCEPT ![r.job] = Append(@, Fingerprint(r))]
        /\ pending' = [pending EXCEPT ![r.job] = TRUE]
        /\ delivery' = [delivery EXCEPT ![r.job][r.attempt] = Settled(@, "SUCCEEDED")]
        /\ Answer(r, TRUE)
        /\ UNCHANGED <<instance, incidents, attempts>>
     \/ /\ ~Replays(r)
        /\ LeaseRefused(r) \/ ~Deliverable(r.job)
        /\ Answer(r, FALSE)
        /\ UNCHANGED server
  /\ UNCHANGED credentials

\* Mutant: one more attempt than max_attempts.
AttemptsLeftLate(d) == d.cycleAttempt <= MaxAttempts

\* The retry cycle has another attempt.
AttemptsLeft(d) == d.cycleAttempt < MaxAttempts

\* The failed attempt is followed by the next one of its cycle or, when the
\* cycle is used up, by an incident.
ServeFail(r) ==
  LET j == r.job
      d == delivery[r.job][r.attempt]
  IN
  /\ r \in network
  /\ Authenticated(r)
  /\ r.kind = "FAIL"
  /\ \/ /\ LeaseHeld(r)
        /\ Deliverable(j)
        /\ IF AttemptsLeft(d)
             THEN /\ r.attempt < MaxDeliveries
                  /\ delivery' = [delivery EXCEPT
                       ![j][r.attempt] = Settled(@, "FAILED"),
                       ![j][r.attempt + 1] = NewDelivery(d.cycle, d.cycleAttempt + 1)]
                  /\ attempts' = [attempts EXCEPT ![j] = r.attempt + 1]
                  /\ UNCHANGED <<instance, incidents>>
             ELSE /\ delivery' = [delivery EXCEPT ![j][r.attempt] = Settled(@, "FAILED")]
                  /\ instance' = [instance EXCEPT ![j] = "INCIDENT"]
                  /\ incidents' = [incidents EXCEPT ![j] = @ \cup {"JOB"}]
                  /\ UNCHANGED attempts
        /\ Answer(r, TRUE)
        /\ UNCHANGED <<pending, accepted>>
     \/ /\ LeaseRefused(r) \/ ~Deliverable(j)
        /\ Answer(r, FALSE)
        /\ UNCHANGED server
  /\ UNCHANGED credentials

-----------------------------------------------------------------------------
(* The operator and the runtime.                                            *)

\* Mutant: any incident lets the job be retried.
RetryAllowedAfterAny(j) == instance[j] = "INCIDENT" /\ ~pending[j]

\* Only an exhausted job with an open incident of its own.
RetryAllowed(j) == instance[j] = "INCIDENT" /\ ~pending[j] /\ "JOB" \in incidents[j]

\* A fresh cycle with the first of its attempts.
RetryJob(j) ==
  /\ RetryAllowed(j)
  /\ attempts[j] < MaxDeliveries
  /\ instance' = [instance EXCEPT ![j] = "WAITING"]
  /\ incidents' = [incidents EXCEPT ![j] = @ \ {"JOB"}]
  /\ attempts' = [attempts EXCEPT ![j] = @ + 1]
  /\ delivery' = [delivery EXCEPT ![j][attempts[j] + 1] = NewDelivery(delivery[j][attempts[j]].cycle + 1, 1)]
  /\ UNCHANGED <<pending, accepted, session, network, confirmed, faults>>
  /\ UNCHANGED credentials

\* Mutant: deliveries outlive their instance.
SupersedeNothing(j) == delivery[j]

\* The job's deliveries once the current one is withdrawn.
Supersede(j) ==
  [k \in Attempts |-> IF delivery[j][k].status \in {"AVAILABLE", "LOCKED"}
                        THEN Settled(delivery[j][k], "SUPERSEDED") ELSE delivery[j][k]]

CancelInstance(j) ==
  /\ instance[j] \in {"WAITING", "INCIDENT"}
  /\ ~pending[j]
  /\ instance' = [instance EXCEPT ![j] = "CANCELLED"]
  /\ delivery' = [delivery EXCEPT ![j] = Supersede(j)]
  /\ incidents' = [incidents EXCEPT ![j] = {}]
  /\ UNCHANGED <<pending, attempts, accepted, session, network, confirmed, faults>>
  /\ UNCHANGED credentials

\* RuntimeCore.CommitWork of the JOB_COMPLETE command.
ApplyCompletion(j) ==
  /\ pending[j]
  /\ pending' = [pending EXCEPT ![j] = FALSE]
  /\ instance' = [instance EXCEPT ![j] = "MOVED"]
  /\ UNCHANGED <<incidents, attempts, delivery, accepted, session, network, confirmed, faults>>
  /\ UNCHANGED credentials

\* RuntimeCore.FailWork of the JOB_COMPLETE command: the incident names the
\* command, not the job.
QuarantineCompletion(j) ==
  /\ pending[j]
  /\ pending' = [pending EXCEPT ![j] = FALSE]
  /\ instance' = [instance EXCEPT ![j] = "INCIDENT"]
  /\ incidents' = [incidents EXCEPT ![j] = @ \cup {"COMMAND"}]
  /\ UNCHANGED <<attempts, delivery, accepted, session, network, confirmed, faults>>
  /\ UNCHANGED credentials

-----------------------------------------------------------------------------

Serve(r) == ServeHeartbeat(r) \/ ServeComplete(r) \/ ServeFail(r) \/ Reject(r)

HandlerEnds(s) == HandlerReturns(s) \/ HandlerThrows(s)

Next ==
  \/ \E s \in Sessions :
       CreateCredential(s) \/ RevokeCredential(s) \/ LockJob(s) \/ SendHeartbeat(s) \/ HandlerEnds(s) \/ GiveUp(s) \/ CrashSession(s)
  \/ \E r \in network : Serve(r) \/ LoseRequest(r)
  \/ \E j \in Jobs, k \in Attempts : ExpireLease(j, k)
  \/ \E j \in Jobs :
       RetryJob(j) \/ CancelInstance(j) \/ ApplyCompletion(j) \/ QuarantineCompletion(j)

SafeSpec == Init /\ [][Next]_vars

\* Sessions get credentials and poll for ever, handlers end, requests arrive,
\* clocks move on.
Fairness ==
  /\ \A s \in Sessions : WF_vars(CreateCredential(s))
  /\ \A s \in Sessions : WF_vars(LockJob(s)) /\ WF_vars(HandlerEnds(s))
  /\ \A s \in Sessions : WF_vars(\E r \in network : r.session = s /\ Serve(r))
  /\ \A j \in Jobs, k \in Attempts : WF_vars(ExpireLease(j, k))

Spec == SafeSpec /\ Fairness

-----------------------------------------------------------------------------
(* Safety.                                                                  *)

Current(j) == {k \in Attempts : delivery[j][k].status \in {"AVAILABLE", "LOCKED"}}

\* No stranded and no superfluous delivery: while the instance waits for the
\* job, exactly its latest delivery can be locked or reported on; as soon as
\* an outcome was accepted, the job is exhausted or the instance is
\* cancelled, none can.  The unique index on current deliveries is never hit.
NeverStranded ==
  \A j \in Jobs : Current(j) = IF Deliverable(j) THEN {attempts[j]} ELSE {}

\* Retry policy: attempts are numbered without gaps; a cycle tries again
\* until max_attempts and no more, every attempt but the last one failed,
\* and a new cycle starts only after a full one.
AttemptsAccounted ==
  \A j \in Jobs, k \in Attempts :
    /\ delivery[j][k].status = "NONE" <=> k > attempts[j]
    /\ k < attempts[j] =>
         /\ delivery[j][k].status = "FAILED"
         /\ \/ /\ delivery[j][k + 1].cycle = delivery[j][k].cycle
               /\ delivery[j][k + 1].cycleAttempt = delivery[j][k].cycleAttempt + 1
            \/ /\ delivery[j][k + 1].cycle = delivery[j][k].cycle + 1
               /\ delivery[j][k].cycleAttempt = MaxAttempts
               /\ delivery[j][k + 1].cycleAttempt = 1

\* One outcome: a job has at most one accepted completion, however often it
\* is reported; the delivery that carried it is the last one and the only one
\* that succeeded, and the job is retried only for exhaustion, never after it.
OneOutcome ==
  \A j \in Jobs :
    /\ Len(accepted[j]) <= 1
    /\ pending[j] \/ instance[j] = "MOVED" \/ "COMMAND" \in incidents[j] => accepted[j] # <<>>
    /\ \A k \in Attempts :
         delivery[j][k].status = "SUCCEEDED" <=> /\ accepted[j] # <<>>
                                                 /\ accepted[j][1].attempt = k
    /\ accepted[j] # <<>> => ~Deliverable(j)

\* What a client was told is what the process gets: whenever a worker has
\* been told that its completion is accepted, its result is the one and only
\* completion of the job, also when it is a late copy, comes from a session
\* whose lease was given away, or the job was retried in between.
ConfirmedIsOutcome ==
  \A j \in Jobs : \A c \in confirmed[j] : accepted[j] = <<c>>

\* A settled delivery is never touched again and no lease goes back to an
\* older token, whatever arrives late or twice.
SettledIsFinal ==
  [][\A j \in Jobs, k \in Attempts :
       /\ delivery[j][k].status \in {"FAILED", "SUCCEEDED", "SUPERSEDED"} =>
            delivery'[j][k] = delivery[j][k]
       /\ delivery[j][k].token <= delivery'[j][k].token
       /\ delivery'[j][k].holder \in Sessions /\ delivery'[j][k].holder # delivery[j][k].holder =>
            delivery[j][k].token < delivery'[j][k].token]_vars

-----------------------------------------------------------------------------
(* Progress.                                                                *)

\* A job that can be delivered is eventually completed, exhausted or
\* withdrawn, if sessions and network misbehave only finitely often, also when
\* the credential of the session that holds it is revoked.
EveryJobConcludes == \A j \in Jobs : Deliverable(j) ~> ~Deliverable(j)

=============================================================================
