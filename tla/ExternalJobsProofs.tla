-------------------------- MODULE ExternalJobsProofs --------------------------
(***************************************************************************)
(* The delivery ledger keeps its promises for any number of jobs, sessions *)
(* and attempts, and whatever the network does with requests and answers.  *)
(***************************************************************************)
EXTENDS ExternalJobs, TLAPS

\* The rows the server keeps.
LedgerTyped ==
  /\ instance \in [Jobs -> InstanceStatus]
  /\ pending \in [Jobs -> BOOLEAN]
  /\ incidents \in [Jobs -> SUBSET {"COMMAND", "JOB"}]
  /\ attempts \in [Jobs -> Attempts]
  /\ delivery \in [Jobs -> [Attempts -> Delivery]]
  /\ accepted \in [Jobs -> Seq(Completion)]

\* What clients and network hold; a session that works has a delivery.
ClientsTyped ==
  /\ session \in [Sessions -> Session]
  /\ \A s \in Sessions : session[s].stage # "idle" => session[s].job \in Jobs /\ session[s].attempt \in Attempts
  /\ network \subseteq Request
  /\ confirmed \in [Jobs -> SUBSET Completion]
  /\ credential \in [Sessions -> {"NONE", "ACTIVE", "REVOKED"}]
  /\ admitted \subseteq Request
  /\ faults \in Nat

\* Only the latest delivery can be current, and only while the job waits.
CurrentIsLatest(j) == Current(j) = IF Deliverable(j) THEN {attempts[j]} ELSE {}

\* The conjunct of AttemptsAccounted about one job; a row that has not been
\* inserted holds nothing yet, and no attempt is past the last one of its cycle.
CyclesAreFull(j) ==
  \A k \in Attempts :
    /\ delivery[j][k].status = "NONE" <=> k > attempts[j]
    /\ delivery[j][k].status = "NONE" => delivery[j][k] = NoDelivery
    /\ k < attempts[j] =>
         /\ delivery[j][k].status = "FAILED"
         /\ \/ /\ delivery[j][k + 1].cycle = delivery[j][k].cycle
               /\ delivery[j][k + 1].cycleAttempt = delivery[j][k].cycleAttempt + 1
            \/ /\ delivery[j][k + 1].cycle = delivery[j][k].cycle + 1
               /\ delivery[j][k].cycleAttempt = MaxAttempts
               /\ delivery[j][k + 1].cycleAttempt = 1

\* The conjunct of OneOutcome about one job.
OutcomeIsOne(j) ==
  /\ Len(accepted[j]) <= 1
  /\ pending[j] \/ instance[j] = "MOVED" \/ "COMMAND" \in incidents[j] => accepted[j] # <<>>
  /\ \A k \in Attempts :
       delivery[j][k].status = "SUCCEEDED" <=> /\ accepted[j] # <<>>
                                               /\ accepted[j][1].attempt = k
  /\ accepted[j] # <<>> => ~Deliverable(j)

\* A command is in flight only where the instance waits, and a job that may be
\* retried has failed the last attempt of its cycle and has no outcome.
IncidentsAreEarned(j) ==
  /\ pending[j] => instance[j] = "WAITING"
  /\ "JOB" \in incidents[j] =>
       /\ instance[j] = "INCIDENT"
       /\ accepted[j] = <<>>
       /\ delivery[j][attempts[j]].status = "FAILED"
       /\ delivery[j][attempts[j]].cycleAttempt = MaxAttempts

JobOK(j) == CurrentIsLatest(j) /\ CyclesAreFull(j) /\ OutcomeIsOne(j) /\ IncidentsAreEarned(j)

IInv == LedgerTyped /\ ClientsTyped /\ ConfirmedIsOutcome /\ \A j \in Jobs : JobOK(j)

-----------------------------------------------------------------------------
(* Rows and counters.                                                       *)

LEMMA Numbers ==
  /\ MaxAttempts \in Nat /\ MaxAttempts >= 1
  /\ MaxDeliveries \in Nat /\ MaxDeliveries >= 1
  /\ Attempts = 1..MaxDeliveries
  /\ Null \notin Sessions /\ Null \notin Jobs
BY MaxAttemptsAssumption, MaxDeliveriesAssumption, NullAssumption DEF Attempts

\* A step that writes one row leaves every other row as it was.
LEMMA RowSet ==
  ASSUME LedgerTyped, NEW j \in Jobs, NEW k \in Attempts, NEW row \in Delivery,
         delivery' = [delivery EXCEPT ![j][k] = row]
  PROVE  /\ delivery' \in [Jobs -> [Attempts -> Delivery]]
         /\ delivery'[j][k] = row
         /\ \A i \in Jobs, l \in Attempts : ~(i = j /\ l = k) => delivery'[i][l] = delivery[i][l]
BY DEF LedgerTyped

LEMMA NewDeliveryIsRow ==
  ASSUME NEW c \in Nat, NEW a \in 0..MaxAttempts
  PROVE  /\ NewDelivery(c, a) \in Delivery
         /\ NewDelivery(c, a).status = "AVAILABLE"
         /\ NewDelivery(c, a).cycle = c
         /\ NewDelivery(c, a).cycleAttempt = a
         /\ NewDelivery(c, a).token = 0
         /\ NewDelivery(c, a).holder = Null
BY Numbers DEF NewDelivery, NoDelivery, Delivery, DeliveryStatus

LEMMA SettledIsRow ==
  ASSUME NEW d \in Delivery, NEW status \in DeliveryStatus
  PROVE  /\ Settled(d, status) \in Delivery
         /\ Settled(d, status).status = status
         /\ Settled(d, status).cycle = d.cycle
         /\ Settled(d, status).cycleAttempt = d.cycleAttempt
         /\ Settled(d, status).token = d.token
         /\ Settled(d, status).holder = Null
BY DEF Settled, Delivery

\* What JobOK says of a job depends on nothing but the job's own rows.
LEMMA JobUntouched ==
  ASSUME LedgerTyped, NEW j \in Jobs, JobOK(j),
         instance'[j] = instance[j], pending'[j] = pending[j], incidents'[j] = incidents[j],
         attempts'[j] = attempts[j], accepted'[j] = accepted[j],
         \A k \in Attempts : delivery'[j][k] = delivery[j][k]
  PROVE  JobOK(j)'
<1>1. Deliverable(j)' = Deliverable(j)
  BY DEF Deliverable
<1>2. CurrentIsLatest(j)'
  BY <1>1 DEF JobOK, CurrentIsLatest, Current
<1>3. attempts[j] \in Attempts /\ \A k \in Attempts : k < attempts[j] => k + 1 \in Attempts
  BY Numbers DEF LedgerTyped
<1>4. CyclesAreFull(j)'
  BY <1>3, Numbers DEF JobOK, CyclesAreFull
<1>5. OutcomeIsOne(j)'
  BY <1>1 DEF JobOK, OutcomeIsOne
<1>6. IncidentsAreEarned(j)'
  BY <1>3 DEF JobOK, IncidentsAreEarned
<1> QED
  BY <1>2, <1>4, <1>5, <1>6 DEF JobOK

LEMMA LedgerUntouched ==
  ASSUME LedgerTyped, \A j \in Jobs : JobOK(j), UNCHANGED server
  PROVE  LedgerTyped' /\ \A j \in Jobs : JobOK(j)'
<1>1. LedgerTyped'
  BY DEF LedgerTyped, server
<1>2. \A j \in Jobs : JobOK(j)'
  BY JobUntouched DEF server
<1> QED
  BY <1>1, <1>2

\* The one delivery of a job that can be current.
LEMMA CurrentRow ==
  ASSUME LedgerTyped, NEW j \in Jobs, JobOK(j), NEW k \in Attempts,
         delivery[j][k].status \in {"AVAILABLE", "LOCKED"}
  PROVE  Deliverable(j) /\ k = attempts[j] /\ accepted[j] = <<>>
<1>1. k \in Current(j)
  BY DEF Current
<1>2. Deliverable(j) /\ k = attempts[j]
  BY <1>1 DEF JobOK, CurrentIsLatest
<1> QED
  BY <1>2 DEF JobOK, OutcomeIsOne

\* Only a current row says that it is available or locked.
LEMMA OthersSettled ==
  ASSUME LedgerTyped, NEW j \in Jobs, JobOK(j), NEW k \in Attempts, ~(Deliverable(j) /\ k = attempts[j])
  PROVE  delivery[j][k].status \notin {"AVAILABLE", "LOCKED"}
BY CurrentRow

-----------------------------------------------------------------------------
(* Clients.                                                                 *)

LEMMA RequestIsTyped ==
  ASSUME ClientsTyped, NEW s \in Sessions, session[s].stage # "idle", NEW kind \in Kinds
  PROVE  /\ RequestOf(s, kind) \in Request
         /\ [RequestOf(s, kind) EXCEPT !.result = Null] \in Request
         /\ \A x \in Results : [RequestOf(s, kind) EXCEPT !.result = x] \in Request
<1>1. /\ session[s].job \in Jobs /\ session[s].attempt \in Attempts
      /\ session[s].token \in Nat /\ session[s].result \in Results \cup {Null}
  BY DEF ClientsTyped, Session
<1>2. RequestOf(s, kind) \in Request
  BY <1>1 DEF RequestOf, Request
<1>3. \A r \in Request, x \in Results \cup {Null} : [r EXCEPT !.result = x] \in Request
  BY DEF Request
<1> QED
  BY <1>2, <1>3

LEMMA IdleIsSession == Idle \in Session
BY Numbers DEF Idle, Session, Stages, Beats

\* A session that gets an answer, or an error, is a session again.
LEMMA AnsweredIsTyped ==
  ASSUME ClientsTyped, NEW s \in Sessions, session[s].stage # "idle"
  PROVE  /\ AfterAnswer(s) \in Session /\ AfterError(s) \in Session
         /\ AfterAnswer(s).stage # "idle" => AfterAnswer(s).job \in Jobs /\ AfterAnswer(s).attempt \in Attempts
         /\ AfterError(s).stage # "idle" => AfterError(s).job \in Jobs /\ AfterError(s).attempt \in Attempts
         /\ SentAfterError(s) \subseteq Request
<1>1. session[s] \in Session /\ session[s].job \in Jobs /\ session[s].attempt \in Attempts
  BY DEF ClientsTyped
<1>2. Idle \in Session /\ Idle.stage = "idle"
  BY IdleIsSession DEF Idle
<1>3. /\ AfterAnswer(s) \in Session
      /\ AfterAnswer(s).stage # "idle" => AfterAnswer(s).job \in Jobs /\ AfterAnswer(s).attempt \in Attempts
  <2>1. CASE session[s].stage = "running"
    <3>1. AfterAnswer(s) = [session[s] EXCEPT !.beat = "none", !.token = session[s].token + 1]
      BY <2>1 DEF AfterAnswer
    <3>2. session[s].token + 1 \in Nat
      BY <1>1 DEF Session
    <3>3. AfterAnswer(s) \in Session
      BY <1>1, <3>1, <3>2 DEF Session, Beats
    <3>4. AfterAnswer(s).job = session[s].job /\ AfterAnswer(s).attempt = session[s].attempt
      BY <1>1, <3>1 DEF Session
    <3> QED
      BY <1>1, <3>3, <3>4
  <2>2. CASE session[s].stage # "running"
    BY <1>2, <2>2 DEF AfterAnswer
  <2> QED
    BY <2>1, <2>2
<1>4. /\ AfterError(s) \in Session
      /\ AfterError(s).stage # "idle" => AfterError(s).job \in Jobs /\ AfterError(s).attempt \in Attempts
  <2>1. CASE session[s].stage = "running"
    BY <1>1, <2>1 DEF AfterError, Session, Stages, Beats
  <2>2. CASE session[s].stage = "completing"
    BY <1>1, <2>2 DEF AfterError, Session, Stages, Beats
  <2>3. CASE session[s].stage \notin {"running", "completing"}
    BY <1>2, <2>3 DEF AfterError
  <2> QED
    BY <2>1, <2>2, <2>3
<1>5. SentAfterError(s) \subseteq Request
  BY RequestIsTyped DEF SentAfterError, Kinds
<1> QED
  BY <1>3, <1>4, <1>5

\* One session changes, and the network only gains well-formed requests.
LEMMA ClientsKept ==
  ASSUME ClientsTyped, NEW s \in Sessions, NEW x \in Session,
         x.stage # "idle" => x.job \in Jobs /\ x.attempt \in Attempts,
         session' = [session EXCEPT ![s] = x],
         network' \subseteq Request, confirmed' = confirmed,
         credential' = credential, admitted' = admitted, faults' \in Nat
  PROVE  ClientsTyped'
<1>1. session' \in [Sessions -> Session]
  BY DEF ClientsTyped
<1>2. \A t \in Sessions : session'[t] = IF t = s THEN x ELSE session[t]
  BY DEF ClientsTyped
<1>3. \A t \in Sessions : session'[t].stage # "idle" => session'[t].job \in Jobs /\ session'[t].attempt \in Attempts
  BY <1>2 DEF ClientsTyped
<1> QED
  BY <1>1, <1>3 DEF ClientsTyped

LEMMA SpendIsTyped ==
  ASSUME faults \in Nat, NEW n \in Nat, Spend(n)
  PROVE  faults' \in Nat
BY DEF Spend

\* An answer moves one session on; whoever is told that a completion is
\* accepted has the answer to exactly that completion.
LEMMA AnswerEffect ==
  ASSUME ClientsTyped, NEW r \in network, NEW ok \in BOOLEAN, Answer(r, ok), UNCHANGED credentials
  PROVE  /\ ClientsTyped'
         /\ \A j \in Jobs : \A c \in confirmed'[j] :
              c \in confirmed[j] \/ (ok /\ r.kind = "COMPLETE" /\ j = r.job /\ c = Fingerprint(r))
<1> DEFINE s == r.session
<1>1. r \in Request /\ s \in Sessions /\ r.job \in Jobs /\ faults \in Nat /\ network \subseteq Request
  BY DEF ClientsTyped, Request
<1>2. PICK kept \in SUBSET {r} :
    \/ /\ ~AwaitsAnswer(r)
       /\ Spend(IF kept = {} THEN 0 ELSE 1)
       /\ network' = (network \ {r}) \cup kept
       /\ UNCHANGED <<session, confirmed>>
    \/ /\ AwaitsAnswer(r) /\ ok
       /\ Spend(IF kept = {} THEN 0 ELSE 1)
       /\ session' = [session EXCEPT ![s] = AfterAnswer(s)]
       /\ network' = (network \ {r}) \cup kept
       /\ confirmed' = IF r.kind = "COMPLETE"
                         THEN [confirmed EXCEPT ![r.job] = @ \cup {Fingerprint(r)}] ELSE confirmed
    \/ /\ AwaitsAnswer(r)
       /\ Spend(IF ok \/ kept # {} THEN 1 ELSE 0)
       /\ session' = [session EXCEPT ![s] = AfterError(s)]
       /\ network' = (network \ {r}) \cup kept \cup SentAfterError(s)
       /\ UNCHANGED confirmed
  BY DEF Answer
<1>3. AwaitsAnswer(r) => session[s].stage # "idle"
  BY DEF AwaitsAnswer
<1>4. Fingerprint(r) \in Completion
  BY <1>1 DEF Request, Fingerprint, Completion
<1>5. faults' \in Nat
  BY <1>1, <1>2, SpendIsTyped
<1>6. credential' = credential /\ admitted' = admitted
  BY DEF credentials
<1>7. CASE ~AwaitsAnswer(r)
  <2>1. network' \subseteq Request /\ session' = session /\ confirmed' = confirmed
    BY <1>1, <1>2, <1>7
  <2> QED
    BY <2>1, <1>5, <1>6 DEF ClientsTyped
<1>8. CASE AwaitsAnswer(r) /\ ok /\ session' = [session EXCEPT ![s] = AfterAnswer(s)]
             /\ network' = (network \ {r}) \cup kept
             /\ confirmed' = IF r.kind = "COMPLETE"
                               THEN [confirmed EXCEPT ![r.job] = @ \cup {Fingerprint(r)}] ELSE confirmed
  <2>1. /\ AfterAnswer(s) \in Session
        /\ AfterAnswer(s).stage # "idle" => AfterAnswer(s).job \in Jobs /\ AfterAnswer(s).attempt \in Attempts
    BY <1>1, <1>3, <1>8, AnsweredIsTyped
  <2>2. session' \in [Sessions -> Session] /\ \A t \in Sessions : session'[t] = IF t = s THEN AfterAnswer(s) ELSE session[t]
    BY <1>8, <2>1 DEF ClientsTyped
  <2>3. \A t \in Sessions : session'[t].stage # "idle" => session'[t].job \in Jobs /\ session'[t].attempt \in Attempts
    BY <2>1, <2>2 DEF ClientsTyped
  <2>4. network' \subseteq Request
    BY <1>1, <1>8
  <2>5. confirmed' \in [Jobs -> SUBSET Completion]
    BY <1>1, <1>4, <1>8 DEF ClientsTyped
  <2>6. \A j \in Jobs : \A c \in confirmed'[j] :
              c \in confirmed[j] \/ (ok /\ r.kind = "COMPLETE" /\ j = r.job /\ c = Fingerprint(r))
    BY <1>1, <1>8 DEF ClientsTyped
  <2> QED
    BY <2>2, <2>3, <2>4, <2>5, <2>6, <1>5, <1>6 DEF ClientsTyped
<1>9. CASE AwaitsAnswer(r) /\ session' = [session EXCEPT ![s] = AfterError(s)]
             /\ network' = (network \ {r}) \cup kept \cup SentAfterError(s)
             /\ UNCHANGED confirmed
  <2>1. /\ AfterError(s) \in Session
        /\ AfterError(s).stage # "idle" => AfterError(s).job \in Jobs /\ AfterError(s).attempt \in Attempts
        /\ SentAfterError(s) \subseteq Request
    BY <1>1, <1>3, <1>9, AnsweredIsTyped
  <2>2. network' \subseteq Request
    BY <1>1, <1>9, <2>1
  <2> QED
    BY <1>1, <1>5, <1>6, <1>9, <2>1, <2>2, ClientsKept
<1> QED
  BY <1>2, <1>7, <1>8, <1>9

-----------------------------------------------------------------------------
(* The server, transaction by transaction.                                  *)

\* What SettledIsFinal says of one step.
KeepsSettled ==
  \A j \in Jobs, k \in Attempts :
    /\ delivery[j][k].status \in {"FAILED", "SUCCEEDED", "SUPERSEDED"} =>
         delivery'[j][k] = delivery[j][k]
    /\ delivery[j][k].token <= delivery'[j][k].token
    /\ delivery'[j][k].holder \in Sessions /\ delivery'[j][k].holder # delivery[j][k].holder =>
         delivery[j][k].token < delivery'[j][k].token

LEMMA RowsKeepSettled ==
  ASSUME LedgerTyped, delivery' = delivery
  PROVE  KeepsSettled
<1>1. \A j \in Jobs, k \in Attempts : delivery[j][k].token \in Nat
  BY DEF LedgerTyped, Delivery
<1> QED
  BY <1>1 DEF KeepsSettled

\* A lease is granted, renewed or runs out: the current row stays current.
LEMMA LeaseMoves ==
  ASSUME LedgerTyped, \A i \in Jobs : JobOK(i),
         NEW j \in Jobs, NEW k \in Attempts, NEW row \in Delivery,
         delivery[j][k].status \in {"AVAILABLE", "LOCKED"},
         row.status = "LOCKED", row.cycle = delivery[j][k].cycle,
         row.cycleAttempt = delivery[j][k].cycleAttempt, delivery[j][k].token <= row.token,
         row.holder # delivery[j][k].holder => delivery[j][k].token < row.token,
         delivery' = [delivery EXCEPT ![j][k] = row],
         UNCHANGED <<instance, pending, incidents, attempts, accepted>>
  PROVE  LedgerTyped' /\ (\A i \in Jobs : JobOK(i)') /\ KeepsSettled
<1>1. /\ delivery' \in [Jobs -> [Attempts -> Delivery]]
      /\ delivery'[j][k] = row
      /\ \A i \in Jobs, l \in Attempts : ~(i = j /\ l = k) => delivery'[i][l] = delivery[i][l]
  BY RowSet
<1>2. LedgerTyped'
  BY <1>1 DEF LedgerTyped
<1>3. \A i \in Jobs \ {j} : JobOK(i)'
  BY <1>1, JobUntouched
<1>4. k = attempts[j] /\ Deliverable(j) /\ accepted[j] = <<>> /\ JobOK(j)
  BY CurrentRow
<1>5. JobOK(j)'
  <2>1. Deliverable(j)' = Deliverable(j) /\ Current(j)' = Current(j)
    BY <1>1 DEF Deliverable, Current
  <2>2. CurrentIsLatest(j)'
    BY <1>4, <2>1 DEF JobOK, CurrentIsLatest
  <2>3. CyclesAreFull(j)'
    <3>1. \A l \in Attempts : /\ delivery'[j][l].cycle = delivery[j][l].cycle
                              /\ delivery'[j][l].cycleAttempt = delivery[j][l].cycleAttempt
                              /\ l # k => delivery'[j][l] = delivery[j][l]
      BY <1>1
    <3>2. attempts[j] \in Attempts /\ \A l \in Attempts : l < attempts[j] => l + 1 \in Attempts /\ l # k
      BY <1>4, Numbers DEF LedgerTyped
    <3>3. delivery'[j][k].status = "LOCKED" /\ ~(k > attempts[j])
      BY <1>1, <1>4, <3>2, Numbers
    <3>4. CyclesAreFull(j)
      BY <1>4 DEF JobOK
    <3> QED
      BY <3>1, <3>2, <3>3, <3>4 DEF CyclesAreFull
  <2>4. OutcomeIsOne(j)'
    BY <1>1, <1>4, <2>1 DEF JobOK, OutcomeIsOne
  <2>5. IncidentsAreEarned(j)'
    BY <1>4 DEF JobOK, IncidentsAreEarned, Deliverable
  <2> QED
    BY <2>2, <2>3, <2>4, <2>5 DEF JobOK
<1>6. KeepsSettled
  <2>1. \A i \in Jobs, l \in Attempts : delivery[i][l].token \in Nat
    BY DEF LedgerTyped, Delivery
  <2> QED
    BY <1>1, <2>1 DEF KeepsSettled
<1> QED
  BY <1>2, <1>3, <1>5, <1>6

\* A completion is accepted: the job's only one.
LEMMA CompletionAccepted ==
  ASSUME LedgerTyped, \A i \in Jobs : JobOK(i),
         NEW j \in Jobs, NEW k \in Attempts, NEW c \in Completion, c.attempt = k,
         delivery[j][k].status = "LOCKED",
         accepted' = [accepted EXCEPT ![j] = Append(@, c)],
         pending' = [pending EXCEPT ![j] = TRUE],
         delivery' = [delivery EXCEPT ![j][k] = Settled(@, "SUCCEEDED")],
         UNCHANGED <<instance, incidents, attempts>>
  PROVE  /\ LedgerTyped' /\ (\A i \in Jobs : JobOK(i)') /\ KeepsSettled
         /\ accepted[j] = <<>> /\ accepted'[j] = <<c>>
         /\ \A i \in Jobs \ {j} : accepted'[i] = accepted[i]
<1>1. PICK row : row = Settled(delivery[j][k], "SUCCEEDED")
  OBVIOUS
<1>2. delivery[j][k].status = "LOCKED" /\ delivery[j][k] \in Delivery
  BY DEF LedgerTyped
<1>3. k = attempts[j] /\ Deliverable(j) /\ accepted[j] = <<>> /\ JobOK(j)
  BY <1>1, <1>2, CurrentRow
<1>4. /\ row \in Delivery /\ row.status = "SUCCEEDED" /\ row.cycle = delivery[j][k].cycle
      /\ row.cycleAttempt = delivery[j][k].cycleAttempt /\ row.token = delivery[j][k].token /\ row.holder = Null
  BY <1>1, <1>2, SettledIsRow DEF DeliveryStatus
<1>5. /\ delivery' \in [Jobs -> [Attempts -> Delivery]]
      /\ delivery'[j][k] = row
      /\ \A i \in Jobs, l \in Attempts : ~(i = j /\ l = k) => delivery'[i][l] = delivery[i][l]
  <2>1. delivery' = [delivery EXCEPT ![j][k] = row]
    BY <1>1 DEF LedgerTyped
  <2> QED
    BY <1>4, <2>1 DEF LedgerTyped
<1>6. accepted' \in [Jobs -> Seq(Completion)] /\ accepted'[j] = <<c>>
      /\ \A i \in Jobs \ {j} : accepted'[i] = accepted[i]
  <2>1. Append(<<>>, c) = <<c>> /\ <<c>> \in Seq(Completion)
    BY <1>1
  <2> QED
    BY <1>1, <1>3, <2>1 DEF LedgerTyped
<1>7. pending' \in [Jobs -> BOOLEAN] /\ pending'[j] /\ \A i \in Jobs \ {j} : pending'[i] = pending[i]
  BY <1>1 DEF LedgerTyped
<1>8. LedgerTyped'
  BY <1>5, <1>6, <1>7 DEF LedgerTyped
<1>9. \A i \in Jobs \ {j} : JobOK(i)'
  BY <1>5, <1>6, <1>7, JobUntouched
<1>10. JobOK(j)'
  <2>1. ~Deliverable(j)'
    BY <1>7 DEF Deliverable
  <2>2. CurrentIsLatest(j)'
    <3>1. \A l \in Attempts : delivery'[j][l].status \notin {"AVAILABLE", "LOCKED"}
      BY <1>1, <1>3, <1>4, <1>5, OthersSettled
    <3> QED
      BY <2>1, <3>1 DEF CurrentIsLatest, Current
  <2>3. CyclesAreFull(j)'
    <3>1. \A l \in Attempts : /\ delivery'[j][l].cycle = delivery[j][l].cycle
                              /\ delivery'[j][l].cycleAttempt = delivery[j][l].cycleAttempt
                              /\ l # k => delivery'[j][l] = delivery[j][l]
      BY <1>1, <1>4, <1>5
    <3>2. attempts[j] \in Attempts /\ \A l \in Attempts : l < attempts[j] => l + 1 \in Attempts /\ l # k
      BY <1>1, <1>3, Numbers DEF LedgerTyped
    <3>3. delivery'[j][k].status = "SUCCEEDED" /\ ~(k > attempts[j])
      BY <1>1, <1>3, <1>4, <1>5, <3>2, Numbers
    <3>4. CyclesAreFull(j)
      BY <1>3 DEF JobOK
    <3> QED
      BY <1>1, <3>1, <3>2, <3>3, <3>4 DEF CyclesAreFull
  <2>4. OutcomeIsOne(j)'
    <3>1. Len(accepted'[j]) = 1 /\ accepted'[j] # <<>> /\ accepted'[j][1].attempt = k
      BY <1>1, <1>6
    <3>2. \A l \in Attempts : l # k => delivery'[j][l].status # "SUCCEEDED"
      BY <1>1, <1>3, <1>5 DEF JobOK, OutcomeIsOne
    <3>3. \A l \in Attempts : delivery'[j][l].status = "SUCCEEDED" <=> l = k
      BY <1>1, <1>4, <1>5, <3>2
    <3>4. \A l \in Attempts : delivery'[j][l].status = "SUCCEEDED" <=> /\ accepted'[j] # <<>>
                                                                       /\ accepted'[j][1].attempt = l
      BY <3>1, <3>3
    <3>5. Len(accepted'[j]) <= 1
      <4>1. Len(<<c>>) <= 1
        OBVIOUS
      <4> QED
        BY <1>6, <4>1
    <3> QED
      BY <2>1, <3>1, <3>4, <3>5 DEF OutcomeIsOne
  <2>5. IncidentsAreEarned(j)'
    BY <1>1, <1>3 DEF JobOK, IncidentsAreEarned, Deliverable
  <2> QED
    BY <2>2, <2>3, <2>4, <2>5 DEF JobOK
<1>11. KeepsSettled
  <2>1. \A i \in Jobs, l \in Attempts : delivery[i][l].token \in Nat
    BY DEF LedgerTyped, Delivery
  <2> QED
    BY <1>1, <1>2, <1>4, <1>5, <2>1, Numbers DEF KeepsSettled
<1> QED
  BY <1>3, <1>6, <1>8, <1>9, <1>10, <1>11

\* The row after the latest one is inserted.
LEMMA NextRow ==
  ASSUME LedgerTyped, NEW j \in Jobs, JobOK(j), attempts[j] < MaxDeliveries
  PROVE  /\ attempts[j] \in Attempts /\ attempts[j] + 1 \in Attempts
         /\ delivery[j][attempts[j] + 1] = NoDelivery
         /\ \A l \in Attempts : l < attempts[j] => l + 1 \in Attempts /\ l + 1 <= attempts[j]
         /\ \A l \in Attempts : l < attempts[j] + 1 <=> l < attempts[j] \/ l = attempts[j]
         /\ \A l \in Attempts : l > attempts[j] + 1 <=> l > attempts[j] /\ l # attempts[j] + 1
<1>1. attempts[j] \in Nat /\ attempts[j] \in Attempts /\ attempts[j] + 1 \in Attempts /\ attempts[j] + 1 > attempts[j]
  BY Numbers DEF LedgerTyped
<1>2. delivery[j][attempts[j] + 1] = NoDelivery
  BY <1>1 DEF JobOK, CyclesAreFull
<1> QED
  BY <1>1, <1>2, Numbers

\* A failed attempt of a cycle that has another one.
LEMMA NextAttempt ==
  ASSUME LedgerTyped, \A i \in Jobs : JobOK(i),
         NEW j \in Jobs, NEW k \in Attempts, delivery[j][k].status = "LOCKED",
         AttemptsLeft(delivery[j][k]), k < MaxDeliveries,
         delivery' = [delivery EXCEPT
           ![j][k] = Settled(@, "FAILED"),
           ![j][k + 1] = NewDelivery(delivery[j][k].cycle, delivery[j][k].cycleAttempt + 1)],
         attempts' = [attempts EXCEPT ![j] = k + 1],
         UNCHANGED <<instance, pending, incidents, accepted>>
  PROVE  LedgerTyped' /\ (\A i \in Jobs : JobOK(i)') /\ KeepsSettled
<1>1. PICK row, new : row = Settled(delivery[j][k], "FAILED") /\
                      new = NewDelivery(delivery[j][k].cycle, delivery[j][k].cycleAttempt + 1)
  OBVIOUS
<1>2. /\ delivery[j][k] \in Delivery /\ delivery[j][k].cycle \in Nat
      /\ delivery[j][k].cycleAttempt \in Nat /\ delivery[j][k].cycleAttempt + 1 \in 0..MaxAttempts
  <2>1. delivery[j][k] \in Delivery
    BY DEF LedgerTyped
  <2>2. delivery[j][k].cycle \in Nat /\ delivery[j][k].cycleAttempt \in 0..MaxAttempts
    BY <2>1 DEF Delivery
  <2>3. delivery[j][k].cycleAttempt < MaxAttempts
    BY DEF AttemptsLeft
  <2> QED
    BY <2>1, <2>2, <2>3, Numbers
<1>3. k = attempts[j] /\ Deliverable(j) /\ accepted[j] = <<>> /\ JobOK(j)
  BY CurrentRow
<1>4. /\ row \in Delivery /\ row.status = "FAILED" /\ row.cycle = delivery[j][k].cycle
      /\ row.cycleAttempt = delivery[j][k].cycleAttempt /\ row.token = delivery[j][k].token /\ row.holder = Null
  BY <1>1, <1>2, SettledIsRow DEF DeliveryStatus
<1>5. /\ new \in Delivery /\ new.status = "AVAILABLE" /\ new.cycle = delivery[j][k].cycle
      /\ new.cycleAttempt = delivery[j][k].cycleAttempt + 1 /\ new.token = 0 /\ new.holder = Null
  <2>1. PICK c \in Nat, a \in 0..MaxAttempts : c = delivery[j][k].cycle /\ a = delivery[j][k].cycleAttempt + 1
    BY <1>2
  <2> QED
    BY <1>1, <2>1, NewDeliveryIsRow
<1>6. k + 1 \in Attempts /\ k + 1 # k /\ delivery[j][k + 1] = NoDelivery
  BY <1>3, Numbers, NextRow
<1>7. /\ delivery' \in [Jobs -> [Attempts -> Delivery]]
      /\ delivery'[j][k] = row /\ delivery'[j][k + 1] = new
      /\ \A l \in Attempts \ {k, k + 1} : delivery'[j][l] = delivery[j][l]
      /\ \A i \in Jobs \ {j}, l \in Attempts : delivery'[i][l] = delivery[i][l]
  <2>1. delivery' = [delivery EXCEPT ![j] = [@ EXCEPT ![k] = row, ![k + 1] = new]]
    BY <1>1, <1>6 DEF LedgerTyped
  <2> QED
    BY <1>4, <1>5, <1>6, <2>1 DEF LedgerTyped
<1>8. attempts' \in [Jobs -> Attempts] /\ attempts'[j] = k + 1 /\ \A i \in Jobs \ {j} : attempts'[i] = attempts[i]
  BY <1>6 DEF LedgerTyped
<1>9. LedgerTyped'
  BY <1>7, <1>8 DEF LedgerTyped
<1>10. \A i \in Jobs \ {j} : JobOK(i)'
  BY <1>7, <1>8, JobUntouched
<1>11. JobOK(j)'
  <2>1. Deliverable(j)'
    BY <1>3 DEF Deliverable
  <2>2. CurrentIsLatest(j)'
    <3>1. \A l \in Attempts : delivery'[j][l].status \in {"AVAILABLE", "LOCKED"} <=> l = k + 1
      BY <1>3, <1>4, <1>5, <1>6, <1>7, OthersSettled
    <3> QED
      BY <1>6, <1>8, <2>1, <3>1 DEF CurrentIsLatest, Current
  <2>3. CyclesAreFull(j)'
    <3> SUFFICES ASSUME NEW l \in Attempts
                 PROVE  /\ delivery'[j][l].status = "NONE" <=> l > attempts'[j]
                        /\ delivery'[j][l].status = "NONE" => delivery'[j][l] = NoDelivery
                        /\ l < attempts'[j] =>
                             /\ delivery'[j][l].status = "FAILED"
                             /\ \/ /\ delivery'[j][l + 1].cycle = delivery'[j][l].cycle
                                   /\ delivery'[j][l + 1].cycleAttempt = delivery'[j][l].cycleAttempt + 1
                                \/ /\ delivery'[j][l + 1].cycle = delivery'[j][l].cycle + 1
                                   /\ delivery'[j][l].cycleAttempt = MaxAttempts
                                   /\ delivery'[j][l + 1].cycleAttempt = 1
      BY DEF CyclesAreFull
    <3>1. k \in Nat /\ l \in Nat
      BY Numbers
    <3>2. CASE l = k
      BY <1>4, <1>5, <1>7, <1>8, <3>1, <3>2
    <3>3. CASE l = k + 1
      BY <1>5, <1>7, <1>8, <3>1, <3>3
    <3>4. CASE l < k
      <4>1. l + 1 \in Attempts /\ l # k /\ l # k + 1 /\ l + 1 # k + 1 /\ l < attempts[j]
        BY <1>3, <3>1, <3>4, Numbers
      <4>2. delivery'[j][l] = delivery[j][l] /\ delivery'[j][l + 1].cycle = delivery[j][l + 1].cycle
            /\ delivery'[j][l + 1].cycleAttempt = delivery[j][l + 1].cycleAttempt
        BY <1>4, <1>7, <4>1
      <4>3. CyclesAreFull(j)
        BY <1>3 DEF JobOK
      <4> QED
        BY <1>8, <3>1, <3>4, <4>1, <4>2, <4>3 DEF CyclesAreFull
    <3>5. CASE l > k + 1
      BY <1>3, <1>7, <1>8, <3>1, <3>5 DEF JobOK, CyclesAreFull
    <3> QED
      BY <3>1, <3>2, <3>3, <3>4, <3>5
  <2>4. OutcomeIsOne(j)'
    <3>1. \A l \in Attempts : delivery'[j][l].status # "SUCCEEDED"
      BY <1>3, <1>4, <1>5, <1>7 DEF JobOK, OutcomeIsOne
    <3>2. accepted'[j] = <<>> /\ ~pending'[j] /\ instance'[j] # "MOVED" /\ "COMMAND" \notin incidents'[j]
      BY <1>3 DEF JobOK, OutcomeIsOne, Deliverable
    <3> QED
      BY <1>3, <3>1, <3>2 DEF JobOK, OutcomeIsOne
  <2>5. IncidentsAreEarned(j)'
    BY <1>3 DEF JobOK, IncidentsAreEarned, Deliverable
  <2> QED
    BY <2>2, <2>3, <2>4, <2>5 DEF JobOK
<1>12. KeepsSettled
  <2>1. \A i \in Jobs, l \in Attempts : delivery[i][l].token \in Nat
    BY DEF LedgerTyped, Delivery
  <2>2. delivery[j][k + 1].token = 0 /\ delivery[j][k + 1].status = "NONE"
    BY <1>6 DEF NoDelivery
  <2>3. \A i \in Jobs, l \in Attempts :
          delivery'[i][l] = delivery[i][l] \/ (i = j /\ l = k) \/ (i = j /\ l = k + 1)
    BY <1>7
  <2>4. row.holder \notin Sessions /\ new.holder \notin Sessions
    BY <1>4, <1>5, Numbers
  <2> QED
    BY <1>4, <1>5, <1>6, <1>7, <2>1, <2>2, <2>3, <2>4 DEF KeepsSettled
<1> QED
  BY <1>9, <1>10, <1>11, <1>12

\* The last attempt of a cycle fails: the instance has an incident.
LEMMA Exhausted ==
  ASSUME LedgerTyped, \A i \in Jobs : JobOK(i),
         NEW j \in Jobs, NEW k \in Attempts, delivery[j][k].status = "LOCKED",
         ~AttemptsLeft(delivery[j][k]),
         delivery' = [delivery EXCEPT ![j][k] = Settled(@, "FAILED")],
         instance' = [instance EXCEPT ![j] = "INCIDENT"],
         incidents' = [incidents EXCEPT ![j] = @ \cup {"JOB"}],
         UNCHANGED <<pending, attempts, accepted>>
  PROVE  LedgerTyped' /\ (\A i \in Jobs : JobOK(i)') /\ KeepsSettled
<1>1. PICK row : row = Settled(delivery[j][k], "FAILED")
  OBVIOUS
<1>2. /\ delivery[j][k] \in Delivery /\ delivery[j][k].cycleAttempt = MaxAttempts
  <2>1. delivery[j][k] \in Delivery
    BY DEF LedgerTyped
  <2>2. delivery[j][k].cycleAttempt \in 0..MaxAttempts
    BY <2>1 DEF Delivery
  <2>3. ~(delivery[j][k].cycleAttempt < MaxAttempts)
    BY DEF AttemptsLeft
  <2> QED
    BY <2>1, <2>2, <2>3, Numbers
<1>3. k = attempts[j] /\ Deliverable(j) /\ accepted[j] = <<>> /\ JobOK(j)
  BY CurrentRow
<1>4. /\ row \in Delivery /\ row.status = "FAILED" /\ row.cycle = delivery[j][k].cycle
      /\ row.cycleAttempt = delivery[j][k].cycleAttempt /\ row.token = delivery[j][k].token /\ row.holder = Null
  BY <1>1, <1>2, SettledIsRow DEF DeliveryStatus
<1>5. /\ delivery' \in [Jobs -> [Attempts -> Delivery]]
      /\ delivery'[j][k] = row
      /\ \A i \in Jobs, l \in Attempts : ~(i = j /\ l = k) => delivery'[i][l] = delivery[i][l]
  <2>1. delivery' = [delivery EXCEPT ![j][k] = row]
    BY <1>1 DEF LedgerTyped
  <2> QED
    BY <1>4, <2>1 DEF LedgerTyped
<1>6. /\ instance' \in [Jobs -> InstanceStatus] /\ instance'[j] = "INCIDENT"
      /\ incidents' \in [Jobs -> SUBSET {"COMMAND", "JOB"}] /\ incidents'[j] = incidents[j] \cup {"JOB"}
      /\ \A i \in Jobs \ {j} : instance'[i] = instance[i] /\ incidents'[i] = incidents[i]
  BY DEF LedgerTyped, InstanceStatus
<1>7. LedgerTyped'
  BY <1>5, <1>6 DEF LedgerTyped
<1>8. \A i \in Jobs \ {j} : JobOK(i)'
  BY <1>5, <1>6, JobUntouched
<1>9. JobOK(j)'
  <2>1. ~Deliverable(j)'
    BY <1>6 DEF Deliverable
  <2>2. CurrentIsLatest(j)'
    <3>1. \A l \in Attempts : delivery'[j][l].status \notin {"AVAILABLE", "LOCKED"}
      BY <1>3, <1>4, <1>5, OthersSettled
    <3> QED
      BY <2>1, <3>1 DEF CurrentIsLatest, Current
  <2>3. CyclesAreFull(j)'
    <3>1. \A l \in Attempts : /\ delivery'[j][l].cycle = delivery[j][l].cycle
                              /\ delivery'[j][l].cycleAttempt = delivery[j][l].cycleAttempt
                              /\ l # k => delivery'[j][l] = delivery[j][l]
      BY <1>4, <1>5
    <3>2. attempts[j] \in Attempts /\ \A l \in Attempts : l < attempts[j] => l + 1 \in Attempts /\ l # k
      BY <1>3, Numbers DEF LedgerTyped
    <3>3. delivery'[j][k].status = "FAILED" /\ ~(k > attempts[j])
      BY <1>3, <1>4, <1>5, <3>2, Numbers
    <3>4. CyclesAreFull(j)
      BY <1>3 DEF JobOK
    <3> QED
      BY <3>1, <3>2, <3>3, <3>4 DEF CyclesAreFull
  <2>4. OutcomeIsOne(j)'
    <3>1. \A l \in Attempts : delivery'[j][l].status # "SUCCEEDED"
      BY <1>3, <1>4, <1>5 DEF JobOK, OutcomeIsOne
    <3>2. accepted'[j] = <<>> /\ ~pending'[j] /\ instance'[j] # "MOVED" /\ "COMMAND" \notin incidents'[j]
      BY <1>3, <1>6 DEF JobOK, OutcomeIsOne, Deliverable
    <3> QED
      BY <1>3, <3>1, <3>2 DEF JobOK, OutcomeIsOne
  <2>5. IncidentsAreEarned(j)'
    BY <1>2, <1>3, <1>4, <1>5, <1>6 DEF IncidentsAreEarned, Deliverable
  <2> QED
    BY <2>2, <2>3, <2>4, <2>5 DEF JobOK
<1>10. KeepsSettled
  <2>1. \A i \in Jobs, l \in Attempts : delivery[i][l].token \in Nat
    BY DEF LedgerTyped, Delivery
  <2>2. row.holder \notin Sessions
    BY <1>4, Numbers
  <2> QED
    BY <1>4, <1>5, <2>1, <2>2 DEF KeepsSettled
<1> QED
  BY <1>7, <1>8, <1>9, <1>10

\* An operator starts the next cycle of an exhausted job.
LEMMA NextCycle ==
  ASSUME LedgerTyped, \A i \in Jobs : JobOK(i), NEW j \in Jobs, RetryJob(j)
  PROVE  LedgerTyped' /\ (\A i \in Jobs : JobOK(i)') /\ KeepsSettled
<1>1. PICK k \in Attempts : k = attempts[j] /\ k < MaxDeliveries
  BY DEF RetryJob, LedgerTyped
<1>2. /\ JobOK(j) /\ instance[j] = "INCIDENT" /\ ~pending[j] /\ "JOB" \in incidents[j]
      /\ accepted[j] = <<>> /\ delivery[j][k].status = "FAILED"
      /\ delivery[j][k].cycleAttempt = MaxAttempts
  BY <1>1 DEF RetryJob, RetryAllowed, JobOK, IncidentsAreEarned
<1>3. PICK new : new = NewDelivery(delivery[j][k].cycle + 1, 1)
  OBVIOUS
<1>4. /\ new \in Delivery /\ new.status = "AVAILABLE" /\ new.cycle = delivery[j][k].cycle + 1
      /\ new.cycleAttempt = 1 /\ new.token = 0 /\ new.holder = Null
  <2>1. delivery[j][k] \in Delivery
    BY DEF LedgerTyped
  <2>2. PICK c \in Nat, a \in 0..MaxAttempts : c = delivery[j][k].cycle + 1 /\ a = 1
    BY <2>1, Numbers DEF Delivery
  <2> QED
    BY <1>3, <2>2, NewDeliveryIsRow
<1>5. k + 1 \in Attempts /\ k + 1 # k /\ delivery[j][k + 1] = NoDelivery
  BY <1>1, <1>2, Numbers, NextRow
<1>6. /\ delivery' \in [Jobs -> [Attempts -> Delivery]]
      /\ delivery'[j][k + 1] = new
      /\ \A l \in Attempts \ {k + 1} : delivery'[j][l] = delivery[j][l]
      /\ \A i \in Jobs \ {j}, l \in Attempts : delivery'[i][l] = delivery[i][l]
  <2>1. delivery' = [delivery EXCEPT ![j][k + 1] = new]
    BY <1>1, <1>3 DEF RetryJob
  <2> QED
    BY <1>4, <1>5, <2>1 DEF LedgerTyped
<1>7. /\ attempts' \in [Jobs -> Attempts] /\ attempts'[j] = k + 1
      /\ instance' \in [Jobs -> InstanceStatus] /\ instance'[j] = "WAITING"
      /\ incidents' \in [Jobs -> SUBSET {"COMMAND", "JOB"}] /\ incidents'[j] = incidents[j] \ {"JOB"}
      /\ \A i \in Jobs \ {j} : /\ attempts'[i] = attempts[i] /\ instance'[i] = instance[i]
                               /\ incidents'[i] = incidents[i]
      /\ pending' = pending /\ accepted' = accepted
  BY <1>1, <1>5 DEF RetryJob, LedgerTyped, InstanceStatus
<1>8. LedgerTyped'
  BY <1>6, <1>7 DEF LedgerTyped
<1>9. \A i \in Jobs \ {j} : JobOK(i)'
  BY <1>6, <1>7, JobUntouched
<1>10. JobOK(j)'
  <2>1. Deliverable(j)' /\ ~Deliverable(j)
    BY <1>2, <1>7 DEF Deliverable
  <2>2. CurrentIsLatest(j)'
    <3>1. \A l \in Attempts : delivery'[j][l].status \in {"AVAILABLE", "LOCKED"} <=> l = k + 1
      BY <1>2, <1>4, <1>5, <1>6, <2>1, OthersSettled
    <3> QED
      BY <1>5, <1>7, <2>1, <3>1 DEF CurrentIsLatest, Current
  <2>3. CyclesAreFull(j)'
    <3> SUFFICES ASSUME NEW l \in Attempts
                 PROVE  /\ delivery'[j][l].status = "NONE" <=> l > attempts'[j]
                        /\ delivery'[j][l].status = "NONE" => delivery'[j][l] = NoDelivery
                        /\ l < attempts'[j] =>
                             /\ delivery'[j][l].status = "FAILED"
                             /\ \/ /\ delivery'[j][l + 1].cycle = delivery'[j][l].cycle
                                   /\ delivery'[j][l + 1].cycleAttempt = delivery'[j][l].cycleAttempt + 1
                                \/ /\ delivery'[j][l + 1].cycle = delivery'[j][l].cycle + 1
                                   /\ delivery'[j][l].cycleAttempt = MaxAttempts
                                   /\ delivery'[j][l + 1].cycleAttempt = 1
      BY DEF CyclesAreFull
    <3>1. k \in Nat /\ l \in Nat
      BY Numbers
    <3>2. CASE l = k
      BY <1>2, <1>4, <1>5, <1>6, <1>7, <3>1, <3>2
    <3>3. CASE l = k + 1
      BY <1>4, <1>6, <1>7, <3>1, <3>3
    <3>4. CASE l < k
      <4>1. l + 1 \in Attempts /\ l # k + 1 /\ l + 1 # k + 1 /\ l < attempts[j]
        BY <1>1, <3>1, <3>4, Numbers
      <4>2. delivery'[j][l] = delivery[j][l] /\ delivery'[j][l + 1] = delivery[j][l + 1]
        BY <1>6, <4>1
      <4>3. CyclesAreFull(j)
        BY <1>2 DEF JobOK
      <4> QED
        BY <1>7, <3>1, <3>4, <4>1, <4>2, <4>3 DEF CyclesAreFull
    <3>5. CASE l > k + 1
      BY <1>1, <1>2, <1>6, <1>7, <3>1, <3>5 DEF JobOK, CyclesAreFull
    <3> QED
      BY <3>1, <3>2, <3>3, <3>4, <3>5
  <2>4. OutcomeIsOne(j)'
    <3>1. \A l \in Attempts : delivery'[j][l].status # "SUCCEEDED"
      BY <1>2, <1>4, <1>6 DEF JobOK, OutcomeIsOne
    <3>2. accepted'[j] = <<>> /\ ~pending'[j] /\ instance'[j] # "MOVED" /\ "COMMAND" \notin incidents'[j]
      BY <1>2, <1>7 DEF JobOK, OutcomeIsOne
    <3> QED
      BY <1>2, <1>7, <3>1, <3>2 DEF JobOK, OutcomeIsOne
  <2>5. IncidentsAreEarned(j)'
    BY <1>2, <1>7 DEF IncidentsAreEarned
  <2> QED
    BY <2>2, <2>3, <2>4, <2>5 DEF JobOK
<1>11. KeepsSettled
  <2>1. \A i \in Jobs, l \in Attempts : delivery[i][l].token \in Nat
    BY DEF LedgerTyped, Delivery
  <2>2. delivery[j][k + 1].token = 0 /\ delivery[j][k + 1].status = "NONE"
    BY <1>5 DEF NoDelivery
  <2>3. \A i \in Jobs, l \in Attempts : delivery'[i][l] = delivery[i][l] \/ (i = j /\ l = k + 1)
    BY <1>6
  <2>4. new.holder \notin Sessions
    BY <1>4, Numbers
  <2> QED
    BY <1>4, <1>5, <1>6, <2>1, <2>2, <2>3, <2>4 DEF KeepsSettled
<1> QED
  BY <1>8, <1>9, <1>10, <1>11

\* A cancellation withdraws the current delivery.
LEMMA Withdrawn ==
  ASSUME LedgerTyped, \A i \in Jobs : JobOK(i), NEW j \in Jobs, CancelInstance(j)
  PROVE  LedgerTyped' /\ (\A i \in Jobs : JobOK(i)') /\ KeepsSettled
<1>1. PICK rows : rows = Supersede(j)
  OBVIOUS
<1>2. rows \in [Attempts -> Delivery]
      /\ \A l \in Attempts :
           /\ rows[l].cycle = delivery[j][l].cycle /\ rows[l].cycleAttempt = delivery[j][l].cycleAttempt
           /\ rows[l].token = delivery[j][l].token
           /\ delivery[j][l].status \notin {"AVAILABLE", "LOCKED"} => rows[l] = delivery[j][l]
           /\ delivery[j][l].status \in {"AVAILABLE", "LOCKED"} => rows[l].status = "SUPERSEDED" /\ rows[l].holder = Null
  <2>1. \A l \in Attempts : delivery[j][l] \in Delivery
    BY DEF LedgerTyped
  <2>2. rows = [l \in Attempts |-> IF delivery[j][l].status \in {"AVAILABLE", "LOCKED"}
                                     THEN Settled(delivery[j][l], "SUPERSEDED") ELSE delivery[j][l]]
    BY <1>1 DEF Supersede
  <2>3. \A l \in Attempts :
           LET d == Settled(delivery[j][l], "SUPERSEDED") IN
           /\ d \in Delivery /\ d.status = "SUPERSEDED" /\ d.cycle = delivery[j][l].cycle
           /\ d.cycleAttempt = delivery[j][l].cycleAttempt /\ d.token = delivery[j][l].token /\ d.holder = Null
    BY <2>1, SettledIsRow DEF DeliveryStatus
  <2> QED
    BY <2>1, <2>2, <2>3
<1>3. /\ delivery' \in [Jobs -> [Attempts -> Delivery]] /\ delivery'[j] = rows
      /\ \A i \in Jobs \ {j} : delivery'[i] = delivery[i]
  BY <1>1, <1>2 DEF CancelInstance, LedgerTyped
<1>4. /\ instance' \in [Jobs -> InstanceStatus] /\ instance'[j] = "CANCELLED"
      /\ incidents' \in [Jobs -> SUBSET {"COMMAND", "JOB"}] /\ incidents'[j] = {}
      /\ \A i \in Jobs \ {j} : instance'[i] = instance[i] /\ incidents'[i] = incidents[i]
      /\ pending' = pending /\ attempts' = attempts /\ accepted' = accepted /\ ~pending[j]
  BY DEF CancelInstance, LedgerTyped, InstanceStatus
<1>5. LedgerTyped'
  BY <1>3, <1>4 DEF LedgerTyped
<1>6. \A i \in Jobs \ {j} : JobOK(i)'
  BY <1>3, <1>4, JobUntouched
<1>7. JobOK(j)'
  <2>1. ~Deliverable(j)' /\ JobOK(j)
    BY <1>4 DEF Deliverable
  <2>2. CurrentIsLatest(j)'
    BY <1>2, <1>3, <2>1 DEF CurrentIsLatest, Current
  <2>3. CyclesAreFull(j)'
    <3>1. \A l \in Attempts : /\ delivery'[j][l].cycle = delivery[j][l].cycle
                              /\ delivery'[j][l].cycleAttempt = delivery[j][l].cycleAttempt
                              /\ delivery'[j][l].status = "NONE" <=> delivery[j][l].status = "NONE"
                              /\ delivery[j][l].status = "NONE" => delivery'[j][l] = delivery[j][l]
                              /\ delivery[j][l].status = "FAILED" => delivery'[j][l].status = "FAILED"
      BY <1>2, <1>3
    <3>2. attempts[j] \in Attempts /\ \A l \in Attempts : l < attempts[j] => l + 1 \in Attempts
      BY Numbers DEF LedgerTyped
    <3>3. CyclesAreFull(j)
      BY <2>1 DEF JobOK
    <3> QED
      BY <1>4, <3>1, <3>2, <3>3 DEF CyclesAreFull
  <2>4. OutcomeIsOne(j)'
    <3>1. \A l \in Attempts : delivery'[j][l].status = "SUCCEEDED" <=> delivery[j][l].status = "SUCCEEDED"
      BY <1>2, <1>3
    <3> QED
      BY <1>4, <2>1, <3>1 DEF JobOK, OutcomeIsOne
  <2>5. IncidentsAreEarned(j)'
    BY <1>4 DEF IncidentsAreEarned
  <2> QED
    BY <2>2, <2>3, <2>4, <2>5 DEF JobOK
<1>8. KeepsSettled
  <2>1. \A i \in Jobs, l \in Attempts : delivery[i][l].token \in Nat
    BY DEF LedgerTyped, Delivery
  <2>2. \A i \in Jobs, l \in Attempts : i # j => delivery'[i][l] = delivery[i][l]
    BY <1>3
  <2> QED
    BY <1>2, <1>3, <2>1, <2>2, Numbers DEF KeepsSettled
<1> QED
  BY <1>5, <1>6, <1>7, <1>8

\* The runtime incorporates the completion, or gives it up with an incident.
LEMMA Incorporated ==
  ASSUME LedgerTyped, \A i \in Jobs : JobOK(i), NEW j \in Jobs,
         ApplyCompletion(j) \/ QuarantineCompletion(j)
  PROVE  LedgerTyped' /\ (\A i \in Jobs : JobOK(i)') /\ KeepsSettled
<1>1. /\ instance' \in [Jobs -> InstanceStatus] /\ instance'[j] \in {"MOVED", "INCIDENT"}
      /\ incidents' \in [Jobs -> SUBSET {"COMMAND", "JOB"}] /\ incidents'[j] \ {"COMMAND"} = incidents[j] \ {"COMMAND"}
      /\ pending' \in [Jobs -> BOOLEAN] /\ ~pending'[j] /\ pending[j]
      /\ \A i \in Jobs \ {j} : /\ instance'[i] = instance[i] /\ incidents'[i] = incidents[i]
                               /\ pending'[i] = pending[i]
      /\ delivery' = delivery /\ attempts' = attempts /\ accepted' = accepted
  <2>1. CASE ApplyCompletion(j)
    BY <2>1 DEF ApplyCompletion, LedgerTyped, InstanceStatus
  <2>2. CASE QuarantineCompletion(j)
    BY <2>2 DEF QuarantineCompletion, LedgerTyped, InstanceStatus
  <2> QED
    BY <2>1, <2>2
<1>2. JobOK(j) /\ accepted[j] # <<>> /\ "JOB" \notin incidents[j] /\ ~Deliverable(j)
  BY <1>1 DEF JobOK, OutcomeIsOne, IncidentsAreEarned
<1>3. LedgerTyped'
  BY <1>1 DEF LedgerTyped
<1>4. \A i \in Jobs \ {j} : JobOK(i)'
  BY <1>1, JobUntouched
<1>5. JobOK(j)'
  <2>1. ~Deliverable(j)'
    BY <1>1 DEF Deliverable
  <2>2. CurrentIsLatest(j)'
    BY <1>1, <1>2, <2>1 DEF JobOK, CurrentIsLatest, Current
  <2>3. CyclesAreFull(j)'
    BY <1>1, <1>2 DEF JobOK, CyclesAreFull
  <2>4. OutcomeIsOne(j)'
    BY <1>1, <1>2, <2>1 DEF JobOK, OutcomeIsOne
  <2>5. IncidentsAreEarned(j)'
    BY <1>1, <1>2 DEF IncidentsAreEarned
  <2> QED
    BY <2>2, <2>3, <2>4, <2>5 DEF JobOK
<1> QED
  BY <1>1, <1>3, <1>4, <1>5, RowsKeepSettled

-----------------------------------------------------------------------------
(* Every step.                                                              *)

\* What clients were told stays true while no outcome changes.
LEMMA ConfirmedKept ==
  ASSUME ConfirmedIsOutcome, accepted' = accepted,
         \A j \in Jobs : \A c \in confirmed'[j] : c \in confirmed[j] \/ accepted[j] = <<c>>
  PROVE  ConfirmedIsOutcome'
BY DEF ConfirmedIsOutcome

Step == LedgerTyped' /\ ClientsTyped' /\ ConfirmedIsOutcome' /\ (\A j \in Jobs : JobOK(j)') /\ KeepsSettled

\* A step of clients and network alone.
LEMMA ClientStep ==
  ASSUME IInv, UNCHANGED <<server, confirmed>>, ClientsTyped'
  PROVE  Step
<1>1. LedgerTyped' /\ \A j \in Jobs : JobOK(j)'
  BY LedgerUntouched DEF IInv
<1>2. KeepsSettled
  BY RowsKeepSettled DEF IInv, server
<1>3. ConfirmedIsOutcome'
  BY DEF IInv, ConfirmedIsOutcome, server
<1> QED
  BY <1>1, <1>2, <1>3 DEF Step

\* The server answers and touches nothing.
LEMMA AnswerOnly ==
  ASSUME IInv, NEW r \in network, NEW ok \in BOOLEAN, Answer(r, ok), UNCHANGED <<server, credentials>>,
         ok /\ r.kind = "COMPLETE" => accepted[r.job] = <<Fingerprint(r)>>
  PROVE  Step
<1>1. /\ ClientsTyped'
      /\ \A j \in Jobs : \A c \in confirmed'[j] :
           c \in confirmed[j] \/ (ok /\ r.kind = "COMPLETE" /\ j = r.job /\ c = Fingerprint(r))
  BY AnswerEffect DEF IInv
<1>2. LedgerTyped' /\ \A j \in Jobs : JobOK(j)'
  BY LedgerUntouched DEF IInv
<1>3. KeepsSettled
  BY RowsKeepSettled DEF IInv, server
<1>4. ConfirmedIsOutcome'
  BY <1>1, ConfirmedKept DEF IInv, server
<1> QED
  BY <1>1, <1>2, <1>3, <1>4 DEF Step

\* Whatever a session does by itself.
LEMMA SessionStep ==
  ASSUME IInv, NEW s \in Sessions,
         \/ CreateCredential(s) \/ RevokeCredential(s) \/ SendHeartbeat(s)
         \/ HandlerEnds(s) \/ GiveUp(s) \/ CrashSession(s)
  PROVE  Step
<1>1. ClientsTyped /\ faults \in Nat /\ network \subseteq Request /\ admitted \subseteq Request
      /\ session \in [Sessions -> Session] /\ session[s] \in Session
  BY DEF IInv, ClientsTyped
<1>2. session[s].stage # "idle" => session[s].job \in Jobs /\ session[s].attempt \in Attempts
  BY DEF IInv, ClientsTyped
<1>3. CASE CreateCredential(s)
  <2>1. ClientsTyped'
    BY <1>1, <1>3 DEF CreateCredential, ClientsTyped
  <2> QED
    BY <1>3, <2>1, ClientStep DEF CreateCredential
<1>4. CASE RevokeCredential(s)
  <2>1. faults' \in Nat
    BY <1>1, <1>4, SpendIsTyped DEF RevokeCredential
  <2>2. admitted' \subseteq Request
    BY <1>1, <1>4 DEF RevokeCredential
  <2>3. ClientsTyped'
    BY <1>1, <1>4, <2>1, <2>2 DEF RevokeCredential, ClientsTyped
  <2> QED
    BY <1>4, <2>3, ClientStep DEF RevokeCredential
<1>5. CASE SendHeartbeat(s)
  <2>1. PICK x : x = [session[s] EXCEPT !.beat = "sent"]
    OBVIOUS
  <2>2. x \in Session /\ x.job = session[s].job /\ x.attempt = session[s].attempt /\ session[s].stage # "idle"
    BY <1>1, <1>5, <2>1 DEF SendHeartbeat, Session, Beats
  <2>3. session' = [session EXCEPT ![s] = x]
    BY <1>1, <1>5, <2>1 DEF SendHeartbeat
  <2>4. network' \subseteq Request
    BY <1>1, <1>5, <2>2, RequestIsTyped DEF SendHeartbeat, Kinds
  <2>5. ClientsTyped'
    BY <1>1, <1>2, <1>5, <2>2, <2>3, <2>4, ClientsKept DEF SendHeartbeat, credentials
  <2> QED
    BY <1>5, <2>5, ClientStep DEF SendHeartbeat
<1>6. CASE HandlerReturns(s)
  <2>1. PICK result \in Results :
         /\ session' = [session EXCEPT ![s].stage = "completing", ![s].result = result]
         /\ network' = network \cup {[RequestOf(s, "COMPLETE") EXCEPT !.result = result]}
    BY <1>6 DEF HandlerReturns
  <2>2. PICK x : x = [session[s] EXCEPT !.stage = "completing", !.result = result]
    OBVIOUS
  <2>3. x \in Session /\ x.job = session[s].job /\ x.attempt = session[s].attempt /\ session[s].stage # "idle"
    BY <1>1, <1>6, <2>2 DEF HandlerReturns, Session, Stages
  <2>4. session' = [session EXCEPT ![s] = x]
    BY <1>1, <2>1, <2>2
  <2>5. network' \subseteq Request
    BY <1>1, <2>1, <2>3, RequestIsTyped DEF Kinds
  <2>6. ClientsTyped'
    BY <1>1, <1>2, <1>6, <2>3, <2>4, <2>5, ClientsKept DEF HandlerReturns, credentials
  <2> QED
    BY <1>6, <2>6, ClientStep DEF HandlerReturns
<1>7. CASE HandlerThrows(s)
  <2>1. PICK x : x = [session[s] EXCEPT !.stage = "failing"]
    OBVIOUS
  <2>2. x \in Session /\ x.job = session[s].job /\ x.attempt = session[s].attempt /\ session[s].stage # "idle"
    BY <1>1, <1>7, <2>1 DEF HandlerThrows, Session, Stages
  <2>3. session' = [session EXCEPT ![s] = x]
    BY <1>1, <1>7, <2>1 DEF HandlerThrows
  <2>4. network' \subseteq Request
    BY <1>1, <1>7, <2>2, RequestIsTyped DEF HandlerThrows, Kinds
  <2>5. ClientsTyped'
    BY <1>1, <1>2, <1>7, <2>2, <2>3, <2>4, ClientsKept DEF HandlerThrows, credentials
  <2> QED
    BY <1>7, <2>5, ClientStep DEF HandlerThrows
<1>8. CASE GiveUp(s)
  <2>1. session[s].stage # "idle"
    BY <1>8 DEF GiveUp, AwaitsAnswer
  <2>2. /\ AfterError(s) \in Session /\ SentAfterError(s) \subseteq Request
        /\ AfterError(s).stage # "idle" => AfterError(s).job \in Jobs /\ AfterError(s).attempt \in Attempts
    BY <1>1, <2>1, AnsweredIsTyped
  <2>3. network' \subseteq Request
    BY <1>1, <1>8, <2>2 DEF GiveUp
  <2>4. faults' \in Nat
    BY <1>1, <1>8, SpendIsTyped DEF GiveUp
  <2>5. ClientsTyped'
    BY <1>1, <1>8, <2>2, <2>3, <2>4, ClientsKept DEF GiveUp, credentials
  <2> QED
    BY <1>8, <2>5, ClientStep DEF GiveUp
<1>9. CASE CrashSession(s)
  <2>1. Idle \in Session /\ Idle.stage = "idle"
    BY IdleIsSession DEF Idle
  <2>2. faults' \in Nat
    BY <1>1, <1>9, SpendIsTyped DEF CrashSession
  <2>3. ClientsTyped'
    BY <1>1, <1>9, <2>1, <2>2, ClientsKept DEF CrashSession, credentials
  <2> QED
    BY <1>9, <2>3, ClientStep DEF CrashSession
<1> QED
  BY <1>3, <1>4, <1>5, <1>6, <1>7, <1>8, <1>9 DEF HandlerEnds

\* A request gets lost.
LEMMA LossStep ==
  ASSUME IInv, NEW r \in network, LoseRequest(r)
  PROVE  Step
<1> DEFINE s == r.session
<1>1. ClientsTyped /\ faults \in Nat /\ network \subseteq Request /\ s \in Sessions
  BY DEF IInv, ClientsTyped, Request
<1>2. faults' \in Nat
  BY <1>1, SpendIsTyped DEF LoseRequest
<1>3. ClientsTyped'
  <2>1. CASE AwaitsAnswer(r)
    <3>1. session[s].stage # "idle"
      BY <2>1 DEF AwaitsAnswer
    <3>2. /\ AfterError(s) \in Session /\ SentAfterError(s) \subseteq Request
          /\ AfterError(s).stage # "idle" => AfterError(s).job \in Jobs /\ AfterError(s).attempt \in Attempts
      BY <1>1, <3>1, AnsweredIsTyped
    <3>3. session' = [session EXCEPT ![s] = AfterError(s)] /\ network' \subseteq Request
      BY <1>1, <2>1, <3>2 DEF LoseRequest
    <3> QED
      BY <1>1, <1>2, <3>2, <3>3, ClientsKept DEF LoseRequest, credentials
  <2>2. CASE ~AwaitsAnswer(r)
    <3>1. session' = session /\ network' \subseteq Request
      BY <1>1, <2>2 DEF LoseRequest
    <3> QED
      BY <1>2, <3>1 DEF IInv, LoseRequest, credentials, ClientsTyped
  <2> QED
    BY <2>1, <2>2
<1> QED
  BY <1>3, ClientStep DEF LoseRequest

\* A delivery is locked.
LEMMA LockStep ==
  ASSUME IInv, NEW s \in Sessions, LockJob(s)
  PROVE  Step
<1>1. PICK j \in Jobs, k \in Attempts :
       /\ Lockable(delivery[j][k])
       /\ delivery' = [delivery EXCEPT ![j][k] =
            [delivery[j][k] EXCEPT !.status = "LOCKED", !.holder = s, !.token = NextToken(delivery[j][k]),
                                   !.expired = FALSE]]
       /\ \/ /\ session' = [session EXCEPT ![s] =
                  [stage |-> "running", job |-> j, attempt |-> k, token |-> NextToken(delivery[j][k]),
                   beat |-> "none", result |-> Null]]
             /\ UNCHANGED faults
          \/ /\ Spend(1)
             /\ UNCHANGED session
  BY DEF LockJob
<1>2. delivery[j][k] \in Delivery /\ delivery[j][k].token \in Nat
      /\ NextToken(delivery[j][k]) = delivery[j][k].token + 1 /\ delivery[j][k].status \in {"AVAILABLE", "LOCKED"}
  BY <1>1 DEF IInv, LedgerTyped, Delivery, NextToken, Lockable
<1>3. PICK row : row = [delivery[j][k] EXCEPT !.status = "LOCKED", !.holder = s, !.token = NextToken(delivery[j][k]),
                                              !.expired = FALSE]
  OBVIOUS
<1>4. /\ row \in Delivery /\ row.status = "LOCKED" /\ row.cycle = delivery[j][k].cycle
      /\ row.cycleAttempt = delivery[j][k].cycleAttempt /\ delivery[j][k].token < row.token
      /\ delivery[j][k].token <= row.token
  <2>1. row \in Delivery
    <3>1. delivery[j][k].token + 1 \in Nat /\ s \in Sessions \cup {Null}
      BY <1>2
    <3>2. row = [delivery[j][k] EXCEPT !.status = "LOCKED", !.holder = s, !.token = delivery[j][k].token + 1,
                                       !.expired = FALSE]
      BY <1>2, <1>3
    <3> QED
      BY <1>2, <3>1, <3>2 DEF Delivery, DeliveryStatus
  <2>2. /\ row.status = "LOCKED" /\ row.cycle = delivery[j][k].cycle
        /\ row.cycleAttempt = delivery[j][k].cycleAttempt /\ row.token = delivery[j][k].token + 1
    BY <1>2, <1>3 DEF Delivery
  <2> QED
    BY <1>2, <2>1, <2>2
<1>5. LedgerTyped' /\ (\A i \in Jobs : JobOK(i)') /\ KeepsSettled
  BY <1>1, <1>2, <1>3, <1>4, LeaseMoves DEF IInv, LockJob
<1>6. ClientsTyped'
  <2>1. CASE session' = [session EXCEPT ![s] =
                  [stage |-> "running", job |-> j, attempt |-> k, token |-> NextToken(delivery[j][k]),
                   beat |-> "none", result |-> Null]] /\ UNCHANGED faults
    <3>1. PICK x : x = [stage |-> "running", job |-> j, attempt |-> k, token |-> NextToken(delivery[j][k]),
                        beat |-> "none", result |-> Null]
      OBVIOUS
    <3>2. x \in Session /\ x.job = j /\ x.attempt = k
      BY <1>2, <3>1, Numbers DEF Session, Stages, Beats
    <3> QED
      BY <2>1, <3>1, <3>2, ClientsKept DEF IInv, ClientsTyped, LockJob, credentials
  <2>2. CASE Spend(1) /\ UNCHANGED session
    BY <2>2, SpendIsTyped DEF IInv, ClientsTyped, LockJob, credentials
  <2> QED
    BY <1>1, <2>1, <2>2
<1>7. ConfirmedIsOutcome'
  BY DEF IInv, ConfirmedIsOutcome, LockJob
<1> QED
  BY <1>5, <1>6, <1>7 DEF Step

LEMMA ExpiryStep ==
  ASSUME IInv, NEW j \in Jobs, NEW k \in Attempts, ExpireLease(j, k)
  PROVE  Step
<1>1. PICK row : row = [delivery[j][k] EXCEPT !.expired = TRUE]
  OBVIOUS
<1>2. /\ delivery[j][k] \in Delivery /\ delivery[j][k].token \in Nat /\ delivery[j][k].status = "LOCKED"
      /\ row \in Delivery /\ row.status = "LOCKED" /\ row.cycle = delivery[j][k].cycle
      /\ row.cycleAttempt = delivery[j][k].cycleAttempt /\ delivery[j][k].token <= row.token
      /\ row.holder = delivery[j][k].holder
  <2>1. delivery[j][k] \in Delivery /\ delivery[j][k].status = "LOCKED"
    BY DEF IInv, LedgerTyped, ExpireLease
  <2>2. row \in Delivery /\ delivery[j][k].token \in Nat
    BY <1>1, <2>1 DEF Delivery
  <2>3. /\ row.status = "LOCKED" /\ row.cycle = delivery[j][k].cycle
        /\ row.cycleAttempt = delivery[j][k].cycleAttempt /\ delivery[j][k].token = row.token
        /\ row.holder = delivery[j][k].holder
    BY <1>1, <2>1 DEF Delivery
  <2> QED
    BY <2>1, <2>2, <2>3
<1>3. delivery' = [delivery EXCEPT ![j][k] = row]
  BY <1>1 DEF ExpireLease, IInv, LedgerTyped
<1>4. LedgerTyped' /\ (\A i \in Jobs : JobOK(i)') /\ KeepsSettled
  <2>1. UNCHANGED <<instance, pending, incidents, attempts, accepted>> /\ LedgerTyped /\ \A i \in Jobs : JobOK(i)
    BY DEF IInv, ExpireLease
  <2> QED
    BY <1>2, <1>3, <2>1, LeaseMoves
<1>5. faults' \in Nat
  BY SpendIsTyped DEF IInv, ClientsTyped, ExpireLease
<1>6. ClientsTyped'
  BY <1>5 DEF IInv, ClientsTyped, ExpireLease, credentials
<1>7. ConfirmedIsOutcome'
  BY DEF IInv, ConfirmedIsOutcome, ExpireLease
<1> QED
  BY <1>4, <1>6, <1>7 DEF Step

\* A renewal.
LEMMA HeartbeatStep ==
  ASSUME IInv, NEW r \in network, ServeHeartbeat(r)
  PROVE  Step
<1>1. r \in Request /\ r.job \in Jobs /\ r.attempt \in Attempts /\ r.kind # "COMPLETE"
  BY DEF IInv, ClientsTyped, Request, ServeHeartbeat
<1>2. CASE LeaseRefused(r) /\ Answer(r, FALSE) /\ UNCHANGED delivery
  BY <1>2, AnswerOnly DEF ServeHeartbeat, server
<1>3. CASE /\ LeaseHeld(r)
           /\ delivery' = [delivery EXCEPT ![r.job][r.attempt].token = NextToken(delivery[r.job][r.attempt]),
                                           ![r.job][r.attempt].expired = FALSE]
           /\ Answer(r, TRUE)
  <2>1. PICK j \in Jobs, k \in Attempts : j = r.job /\ k = r.attempt
    BY <1>1
  <2>2. PICK row : row = [delivery[j][k] EXCEPT !.token = delivery[j][k].token + 1, !.expired = FALSE]
    OBVIOUS
  <2>3. /\ delivery[j][k] \in Delivery /\ delivery[j][k].token \in Nat /\ delivery[j][k].token + 1 \in Nat
        /\ delivery[j][k].status = "LOCKED"
    BY <1>3, <2>1 DEF IInv, LedgerTyped, Delivery, LeaseHeld
  <2>4. row \in Delivery
    BY <2>2, <2>3 DEF Delivery
  <2>5. /\ row.status = "LOCKED" /\ row.cycle = delivery[j][k].cycle
        /\ row.cycleAttempt = delivery[j][k].cycleAttempt /\ row.token = delivery[j][k].token + 1
        /\ row.holder = delivery[j][k].holder
    BY <2>2, <2>3 DEF Delivery
  <2>6. delivery[j][k].token <= row.token
    BY <2>3, <2>5
  <2>7. delivery' = [delivery EXCEPT ![j][k] = row]
    BY <1>3, <2>1, <2>2, <2>3 DEF IInv, LedgerTyped, NextToken
  <2>8. /\ UNCHANGED <<instance, pending, incidents, attempts, accepted>>
        /\ LedgerTyped /\ \A i \in Jobs : JobOK(i)
    BY DEF IInv, ServeHeartbeat
  <2>9. LedgerTyped' /\ (\A i \in Jobs : JobOK(i)') /\ KeepsSettled
    BY <2>3, <2>4, <2>5, <2>6, <2>7, <2>8, LeaseMoves
  <2>10. /\ ClientsTyped'
         /\ \A i \in Jobs : \A c \in confirmed'[i] : c \in confirmed[i]
    BY <1>1, <1>3, AnswerEffect DEF IInv, ServeHeartbeat
  <2>11. ConfirmedIsOutcome'
    BY <2>8, <2>10, ConfirmedKept DEF IInv
  <2> QED
    BY <2>9, <2>10, <2>11 DEF Step
<1> QED
  BY <1>2, <1>3 DEF ServeHeartbeat

\* A completion.
LEMMA CompleteStep ==
  ASSUME IInv, NEW r \in network, ServeComplete(r)
  PROVE  Step
<1>1. r \in Request /\ r.job \in Jobs /\ r.attempt \in Attempts /\ r.kind = "COMPLETE"
      /\ Fingerprint(r) \in Completion /\ Fingerprint(r).attempt = r.attempt
  BY DEF IInv, ClientsTyped, Request, ServeComplete, Fingerprint, Completion
<1>2. CASE Replays(r) /\ Answer(r, TRUE) /\ UNCHANGED server
  <2>1. PICK told : told = accepted[r.job]
    OBVIOUS
  <2>2. told \in Seq(Completion) /\ Len(told) <= 1 /\ told # <<>> /\ told[Len(told)] = Fingerprint(r)
    BY <1>1, <1>2, <2>1 DEF Replays, IInv, LedgerTyped, JobOK, OutcomeIsOne
  <2>3. told = <<Fingerprint(r)>>
    BY <2>2
  <2> QED
    BY <1>2, <2>1, <2>3, AnswerOnly DEF ServeComplete
<1>3. CASE (LeaseRefused(r) \/ ~Deliverable(r.job)) /\ Answer(r, FALSE) /\ UNCHANGED server
  BY <1>3, AnswerOnly DEF ServeComplete
<1>4. CASE /\ LeaseHeld(r)
           /\ accepted' = [accepted EXCEPT ![r.job] = Append(@, Fingerprint(r))]
           /\ pending' = [pending EXCEPT ![r.job] = TRUE]
           /\ delivery' = [delivery EXCEPT ![r.job][r.attempt] = Settled(@, "SUCCEEDED")]
           /\ Answer(r, TRUE)
           /\ UNCHANGED <<instance, incidents, attempts>>
  <2>1. PICK j \in Jobs, k \in Attempts, c \in Completion : j = r.job /\ k = r.attempt /\ c = Fingerprint(r)
    BY <1>1
  <2>2. /\ LedgerTyped' /\ (\A i \in Jobs : JobOK(i)') /\ KeepsSettled
        /\ accepted[j] = <<>> /\ accepted'[j] = <<c>>
        /\ \A i \in Jobs \ {j} : accepted'[i] = accepted[i]
    <3>1. /\ LedgerTyped /\ (\A i \in Jobs : JobOK(i)) /\ c.attempt = k
          /\ delivery[j][k].status = "LOCKED"
          /\ accepted' = [accepted EXCEPT ![j] = Append(@, c)]
          /\ pending' = [pending EXCEPT ![j] = TRUE]
          /\ delivery' = [delivery EXCEPT ![j][k] = Settled(@, "SUCCEEDED")]
          /\ UNCHANGED <<instance, incidents, attempts>>
      BY <1>1, <1>4, <2>1 DEF IInv, LeaseHeld
    <3> QED
      BY <3>1, CompletionAccepted
  <2>3. /\ ClientsTyped'
        /\ \A i \in Jobs : \A d \in confirmed'[i] : d \in confirmed[i] \/ (i = j /\ d = c)
    BY <1>4, <2>1, AnswerEffect DEF IInv, ServeComplete
  <2>4. \A d : accepted[j] # <<d>>
    BY <2>2
  <2>5. ConfirmedIsOutcome'
    BY <2>2, <2>3, <2>4 DEF IInv, ConfirmedIsOutcome
  <2> QED
    BY <2>2, <2>3, <2>5 DEF Step
<1> QED
  BY <1>2, <1>3, <1>4 DEF ServeComplete

\* A failure report.
LEMMA FailStep ==
  ASSUME IInv, NEW r \in network, ServeFail(r)
  PROVE  Step
<1>1. r \in Request /\ r.job \in Jobs /\ r.attempt \in Attempts /\ r.kind # "COMPLETE"
  BY DEF IInv, ClientsTyped, Request, ServeFail
<1>2. CASE (LeaseRefused(r) \/ ~Deliverable(r.job)) /\ Answer(r, FALSE) /\ UNCHANGED server
  BY <1>1, <1>2, AnswerOnly DEF ServeFail
<1>3. PICK j \in Jobs, k \in Attempts : j = r.job /\ k = r.attempt
  BY <1>1
<1>4. LedgerTyped /\ \A i \in Jobs : JobOK(i)
  BY DEF IInv
<1>5. CASE /\ LeaseHeld(r)
           /\ AttemptsLeft(delivery[j][k])
           /\ k < MaxDeliveries
           /\ delivery' = [delivery EXCEPT
                ![j][k] = Settled(@, "FAILED"),
                ![j][k + 1] = NewDelivery(delivery[j][k].cycle, delivery[j][k].cycleAttempt + 1)]
           /\ attempts' = [attempts EXCEPT ![j] = k + 1]
           /\ UNCHANGED <<instance, incidents, pending, accepted>>
           /\ Answer(r, TRUE)
  <2>1. delivery[j][k].status = "LOCKED"
    BY <1>3, <1>5 DEF LeaseHeld
  <2>2. LedgerTyped' /\ (\A i \in Jobs : JobOK(i)') /\ KeepsSettled
    BY <1>4, <1>5, <2>1, NextAttempt
  <2>3. ClientsTyped' /\ \A i \in Jobs : \A c \in confirmed'[i] : c \in confirmed[i]
    BY <1>1, <1>5, AnswerEffect DEF IInv, ServeFail
  <2>4. ConfirmedIsOutcome'
    BY <1>5, <2>3, ConfirmedKept DEF IInv
  <2> QED
    BY <2>2, <2>3, <2>4 DEF Step
<1>6. CASE /\ LeaseHeld(r)
           /\ ~AttemptsLeft(delivery[j][k])
           /\ delivery' = [delivery EXCEPT ![j][k] = Settled(@, "FAILED")]
           /\ instance' = [instance EXCEPT ![j] = "INCIDENT"]
           /\ incidents' = [incidents EXCEPT ![j] = @ \cup {"JOB"}]
           /\ UNCHANGED <<attempts, pending, accepted>>
           /\ Answer(r, TRUE)
  <2>1. delivery[j][k].status = "LOCKED"
    BY <1>3, <1>6 DEF LeaseHeld
  <2>2. LedgerTyped' /\ (\A i \in Jobs : JobOK(i)') /\ KeepsSettled
    BY <1>4, <1>6, <2>1, Exhausted
  <2>3. ClientsTyped' /\ \A i \in Jobs : \A c \in confirmed'[i] : c \in confirmed[i]
    BY <1>1, <1>6, AnswerEffect DEF IInv, ServeFail
  <2>4. ConfirmedIsOutcome'
    BY <1>6, <2>3, ConfirmedKept DEF IInv
  <2> QED
    BY <2>2, <2>3, <2>4 DEF Step
<1> QED
  BY <1>2, <1>3, <1>5, <1>6 DEF ServeFail

\* What operator and runtime do to a job.
LEMMA JobStep ==
  ASSUME IInv, NEW j \in Jobs,
         RetryJob(j) \/ CancelInstance(j) \/ ApplyCompletion(j) \/ QuarantineCompletion(j)
  PROVE  Step
<1>1. LedgerTyped' /\ (\A i \in Jobs : JobOK(i)') /\ KeepsSettled
  BY NextCycle, Withdrawn, Incorporated DEF IInv
<1>2. UNCHANGED <<session, network, confirmed, faults, credential, admitted, accepted>>
  BY DEF RetryJob, CancelInstance, ApplyCompletion, QuarantineCompletion, credentials
<1>3. ClientsTyped' /\ ConfirmedIsOutcome'
  BY <1>2 DEF IInv, ClientsTyped, ConfirmedIsOutcome
<1> QED
  BY <1>1, <1>3 DEF Step

LEMMA NextIsStep ==
  ASSUME IInv, [Next]_vars
  PROVE  Step
<1>1. ASSUME NEW s \in Sessions,
             \/ CreateCredential(s) \/ RevokeCredential(s) \/ SendHeartbeat(s)
             \/ HandlerEnds(s) \/ GiveUp(s) \/ CrashSession(s)
      PROVE  Step
  BY <1>1, SessionStep
<1>2. ASSUME NEW s \in Sessions, LockJob(s)
      PROVE  Step
  BY <1>2, LockStep
<1>3. ASSUME NEW r \in network, Serve(r)
      PROVE  Step
  <2>1. CASE Reject(r)
    BY <2>1, AnswerOnly DEF Reject
  <2> QED
    BY <1>3, <2>1, HeartbeatStep, CompleteStep, FailStep DEF Serve
<1>4. ASSUME NEW r \in network, LoseRequest(r)
      PROVE  Step
  BY <1>4, LossStep
<1>5. ASSUME NEW j \in Jobs, NEW k \in Attempts, ExpireLease(j, k)
      PROVE  Step
  BY <1>5, ExpiryStep
<1>6. ASSUME NEW j \in Jobs,
             RetryJob(j) \/ CancelInstance(j) \/ ApplyCompletion(j) \/ QuarantineCompletion(j)
      PROVE  Step
  BY <1>6, JobStep
<1>7. CASE UNCHANGED vars
  <2>1. ClientsTyped'
    BY <1>7 DEF IInv, ClientsTyped, vars, credentials
  <2> QED
    BY <1>7, <2>1, ClientStep DEF vars
<1> QED
  BY <1>1, <1>2, <1>3, <1>4, <1>5, <1>6, <1>7 DEF Next

LEMMA InitIsFine ==
  ASSUME Init
  PROVE  IInv
<1>1. NewDelivery(1, 1) \in Delivery /\ NewDelivery(1, 1).status = "AVAILABLE"
      /\ NoDelivery \in Delivery /\ NoDelivery.status = "NONE"
  <2>1. 1 \in 0..MaxAttempts
    BY Numbers
  <2> QED
    BY <2>1, Numbers, NewDeliveryIsRow DEF NoDelivery, Delivery, DeliveryStatus
<1>2. 1 \in Attempts /\ \A k \in Attempts : k > 1 <=> k # 1
  BY Numbers
<1>3. \A j \in Jobs, k \in Attempts : delivery[j][k] = IF k = 1 THEN NewDelivery(1, 1) ELSE NoDelivery
  BY DEF Init
<1>4. LedgerTyped
  BY <1>1, <1>2 DEF Init, LedgerTyped, InstanceStatus
<1>5. ClientsTyped
  BY IdleIsSession DEF Init, ClientsTyped, Idle
<1>6. ConfirmedIsOutcome
  BY DEF Init, ConfirmedIsOutcome
<1>7. ASSUME NEW j \in Jobs PROVE JobOK(j)
  <2>1. /\ instance[j] = "WAITING" /\ ~pending[j] /\ incidents[j] = {} /\ attempts[j] = 1
        /\ accepted[j] = <<>> /\ Deliverable(j)
    BY DEF Init, Deliverable
  <2>2. CurrentIsLatest(j)
    BY <1>1, <1>2, <1>3, <2>1 DEF CurrentIsLatest, Current
  <2>3. CyclesAreFull(j)
    <3>1. \A k \in Attempts : ~(k < 1)
      BY Numbers
    <3> QED
      BY <1>1, <1>2, <1>3, <2>1, <3>1 DEF CyclesAreFull
  <2>4. OutcomeIsOne(j)
    <3>1. Len(<<>>) <= 1
      OBVIOUS
    <3> QED
      BY <1>1, <1>3, <2>1, <3>1 DEF OutcomeIsOne
  <2>5. IncidentsAreEarned(j)
    BY <2>1 DEF IncidentsAreEarned
  <2> QED
    BY <2>2, <2>3, <2>4, <2>5 DEF JobOK
<1> QED
  BY <1>4, <1>5, <1>6, <1>7 DEF IInv

THEOREM InductiveInvariant == SafeSpec => []IInv
<1>1. Init => IInv
  BY InitIsFine
<1>2. IInv /\ [Next]_vars => IInv'
  BY NextIsStep DEF Step, IInv
<1> QED
  BY <1>1, <1>2, PTL DEF SafeSpec

\* All state has its type (every table of the external job ledger, every
\* session and every request).
THEOREM LedgerIsTyped == SafeSpec => []TypeOK
<1>1. IInv => TypeOK
  BY DEF IInv, LedgerTyped, ClientsTyped, TypeOK
<1> QED
  BY <1>1, InductiveInvariant, PTL

\* Exactly the latest delivery of a job can be worked on while its instance
\* waits, and none afterwards (lock, complete, fail, retry and cancel).
THEOREM NothingIsStranded == SafeSpec => []NeverStranded
<1>1. IInv => NeverStranded
  BY DEF IInv, JobOK, CurrentIsLatest, NeverStranded
<1> QED
  BY <1>1, InductiveInvariant, PTL

\* Attempts are numbered without gaps and counted in full cycles (failExternalJob
\* and retryExternalJob).
THEOREM EveryAttemptIsAccounted == SafeSpec => []AttemptsAccounted
<1>1. IInv => AttemptsAccounted
  BY DEF IInv, JobOK, CyclesAreFull, AttemptsAccounted
<1> QED
  BY <1>1, InductiveInvariant, PTL

\* A job has at most one accepted completion, and only the delivery that
\* carried it succeeded (completeExternalJob and retryExternalJob).
THEOREM JobHasOneOutcome == SafeSpec => []OneOutcome
<1>1. IInv => OneOutcome
  BY DEF IInv, JobOK, OutcomeIsOne, OneOutcome
<1> QED
  BY <1>1, InductiveInvariant, PTL

\* What any client was ever told is accepted is the one completion of the job,
\* however requests and answers were delayed, repeated or lost.
THEOREM ConfirmationsAreTrue == SafeSpec => []ConfirmedIsOutcome
<1>1. IInv => ConfirmedIsOutcome
  BY DEF IInv
<1> QED
  BY <1>1, InductiveInvariant, PTL

\* No step touches a settled delivery or takes a fencing token back, and a
\* lease changes hands only with a newer token (lockExternalJobs, heartbeat).
THEOREM SettledStaysSettled == SafeSpec => SettledIsFinal
<1>1. IInv /\ [Next]_vars => KeepsSettled
  BY NextIsStep DEF Step
<1>2. SafeSpec => [][KeepsSettled]_vars
  BY <1>1, InductiveInvariant, PTL DEF SafeSpec
<1> QED
  BY <1>2 DEF SettledIsFinal, KeepsSettled

=============================================================================
