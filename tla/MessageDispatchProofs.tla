------------------------- MODULE MessageDispatchProofs -------------------------
(***************************************************************************)
(* A message continues a process once and its ledger tells what happened,  *)
(* for any number of receivers, throws, workers and clients.               *)
(***************************************************************************)
EXTENDS MessageDispatch, FiniteSetTheorems, TLAPS

\* A call is about a message that its worker dispatches or a key of its client,
\* and what it read as the answer is on record.
CallsHaveSources ==
  \A a \in Actors : call[a].stage # "idle" =>
    /\ call[a].source \in IdempotencyKeys
    /\ a \in Workers => call[a].source \in Messages
    /\ call[a].key \in Keys
    /\ call[a].stage = "answered" => attempt[call[a].source] # Null

ThrownHaveKeys == \A m \in Messages : delivery[m].status # "NONE" => delivery[m].key \in Keys

\* Exactly the correlated attempts name a target.
TargetsAreOutcomes ==
  \A k \in IdempotencyKeys : attempt[k] # Null =>
    (attempt[k].outcome = "CORRELATED" <=> attempt[k].target # Null)

\* A subscription that got its command is never open for another one: its
\* process has moved past it, has stopped, or has the command in flight.
CommandsAreSpent ==
  \A c \in commands :
    LET r == c.target[1] IN
    /\ c.target[2] <= instance[r].revision
    /\ c.target[2] = instance[r].revision /\ instance[r].status = "WAITING" => instance[r].pending # Null

\* A process that has not started has no checkpoint.
NothingBeforeTheStart == \A r \in Receivers : instance[r].status = "NONE" => instance[r].revision = 0

\* Receivers and what continues them.
ProcessesOK ==
  /\ instance \in [Receivers -> Instance]
  /\ subscription \in [Receivers -> [Revisions -> Subscription]]
  /\ commands \subseteq Command
  /\ attempt \in [IdempotencyKeys -> Attempt \cup {Null}]
  /\ TargetsAreOutcomes /\ CommandsAreSpent /\ NothingBeforeTheStart /\ OneContinuation

\* The queue of thrown messages.
LedgerOK == delivery \in [Messages -> Delivery] /\ ThrownHaveKeys /\ LedgerTellsOutcome

\* Calls and what they were told.
CallsOK ==
  /\ call \in [Actors -> Call]
  /\ told \subseteq [source : IdempotencyKeys, key : Keys, row : Attempt]
  /\ faults \in Nat
  /\ CallsHaveSources /\ SameAnswer

IInv == ProcessesOK /\ LedgerOK /\ CallsOK

-----------------------------------------------------------------------------
(* Constants.                                                               *)

LEMMA Bounds ==
  /\ MaxRevision \in Nat /\ MaxRevision >= 1 /\ Revisions = 1..MaxRevision
  /\ Null \notin Receivers /\ Null \notin IdempotencyKeys /\ Null \notin Workers /\ Null \notin Clients
  /\ Null \notin Targets /\ Null \notin Attempt
  /\ Workers \cap Clients = {} /\ Messages \cap ApiKeys = {}
BY BoundsAssumption, DistinctAssumption, NullAssumption DEF Revisions, IdempotencyKeys

LEMMA TargetsFinite == IsFiniteSet(Targets)
<1>1. IsFiniteSet(Revisions)
  BY Bounds, FS_Interval
<1> QED
  BY <1>1, ReceiversAssumption, FS_Product DEF Targets

\* A set of matches correlates if and only if it has exactly one element.
LEMMA OutcomeOfMatches ==
  ASSUME NEW matches \in SUBSET Targets
  PROVE  /\ OutcomeOf(matches) \in Outcomes
         /\ OutcomeOf(matches) = "CORRELATED" <=> \E t \in Targets : matches = {t}
<1>1. IsFiniteSet(matches)
  BY TargetsFinite, FS_Subset
<1>2. Cardinality(matches) = 1 <=> \E t : matches = {t}
  BY <1>1, FS_Singleton
<1>3. Cardinality(matches) = 0 <=> matches = {}
  BY <1>1, FS_EmptySet
<1>4. (\E t : matches = {t}) <=> \E t \in Targets : matches = {t}
  OBVIOUS
<1> QED
  BY <1>2, <1>3, <1>4 DEF OutcomeOf, Outcomes

LEMMA TrimmedKeys ==
  ASSUME NEW key \in Keys
  PROVE  Trim(key) \in [value : Values, padded : {FALSE}]
BY DEF Trim, Keys

-----------------------------------------------------------------------------
(* What one part of the state says does not depend on the others.           *)

\* What an attempt recorded stays.
AttemptsKept == \A k \in IdempotencyKeys : attempt[k] # Null => attempt'[k] = attempt[k]

LEMMA ProcessesKept ==
  ASSUME ProcessesOK, UNCHANGED <<instance, subscription, commands, attempt>>
  PROVE  ProcessesOK' /\ AttemptsKept
<1>1. TargetsAreOutcomes' /\ CommandsAreSpent' /\ NothingBeforeTheStart' /\ OneContinuation'
  BY DEF ProcessesOK, TargetsAreOutcomes, CommandsAreSpent, NothingBeforeTheStart, OneContinuation, Correlated
<1> QED
  BY <1>1 DEF ProcessesOK, AttemptsKept

LEMMA LedgerKept ==
  ASSUME LedgerOK, UNCHANGED delivery, AttemptsKept
  PROVE  LedgerOK'
<1>1. LedgerTellsOutcome'
  <2>1. \A m \in Messages : m \in IdempotencyKeys
    BY DEF IdempotencyKeys
  <2> QED
    BY <2>1 DEF LedgerOK, LedgerTellsOutcome, AttemptsKept
<1> QED
  BY <1>1 DEF LedgerOK, ThrownHaveKeys

LEMMA CallsKept ==
  ASSUME CallsOK, UNCHANGED <<call, told>>, faults' \in Nat, AttemptsKept
  PROVE  CallsOK'
<1>1. CallsHaveSources'
  BY DEF CallsOK, CallsHaveSources, AttemptsKept
<1>2. SameAnswer'
  <2>1. \A answer \in told : answer.source \in IdempotencyKeys /\ answer.row # Null
    BY Bounds DEF CallsOK
  <2> QED
    BY <2>1 DEF CallsOK, SameAnswer, AttemptsKept
<1> QED
  BY <1>1, <1>2 DEF CallsOK

\* One actor's call moves on; if a client learns an answer, it is on record.
LEMMA CallMoves ==
  ASSUME CallsOK, faults' \in Nat, AttemptsKept,
         NEW a \in Actors, NEW x \in Call, call' = [call EXCEPT ![a] = x],
         x.stage # "idle" => /\ x.source \in IdempotencyKeys
                             /\ a \in Workers => x.source \in Messages
                             /\ x.key \in Keys
                             /\ x.stage = "answered" => attempt'[x.source] # Null,
         \A answer \in told' \ told :
           /\ answer \in [source : IdempotencyKeys, key : Keys, row : Attempt]
           /\ attempt'[answer.source] = answer.row
           /\ answer.row.key = Trim(answer.key)
  PROVE  CallsOK'
<1>1. call' \in [Actors -> Call] /\ \A b \in Actors : call'[b] = IF b = a THEN x ELSE call[b]
  BY DEF CallsOK
<1>2. CallsHaveSources'
  BY <1>1 DEF CallsOK, CallsHaveSources, AttemptsKept
<1>3. SameAnswer'
  <2>1. \A answer \in told : answer.source \in IdempotencyKeys /\ answer.row # Null
    BY Bounds DEF CallsOK
  <2> QED
    BY <2>1 DEF CallsOK, SameAnswer, AttemptsKept
<1>4. told' \subseteq [source : IdempotencyKeys, key : Keys, row : Attempt]
  BY DEF CallsOK
<1> QED
  BY <1>1, <1>2, <1>3, <1>4 DEF CallsOK

LEMMA GoesOn ==
  ASSUME CallsOK, faults' \in Nat, AttemptsKept,
         NEW a \in Actors, NEW stage \in Stages, call[a].stage # "idle", Goes(a, stage),
         stage = "answered" => attempt'[call[a].source] # Null,
         \A answer \in told' \ told :
           /\ answer \in [source : IdempotencyKeys, key : Keys, row : Attempt]
           /\ attempt'[answer.source] = answer.row
           /\ answer.row.key = Trim(answer.key)
  PROVE  CallsOK'
<1>1. PICK x : x = [call[a] EXCEPT !.stage = stage]
  OBVIOUS
<1>2. call[a] \in Call
  BY DEF CallsOK
<1>3. x \in Call /\ x.stage = stage /\ x.source = call[a].source /\ x.key = call[a].key
  BY <1>1, <1>2 DEF Call
<1>4. call' = [call EXCEPT ![a] = x]
  BY <1>1, <1>2 DEF Goes, CallsOK
<1>5. /\ call[a].source \in IdempotencyKeys
      /\ a \in Workers => call[a].source \in Messages
      /\ call[a].key \in Keys
  BY DEF CallsOK, CallsHaveSources
<1> QED
  BY <1>3, <1>4, <1>5, CallMoves

\* The answer of a call is what the attempt of its key recorded.
LEMMA Told ==
  ASSUME CallsOK, faults' \in Nat, AttemptsKept,
         NEW a \in Actors, call[a].stage # "idle", NEW row \in Attempt, Tell(a, row),
         attempt'[call[a].source] = row, row.key = Trim(call[a].key)
  PROVE  CallsOK'
<1>1. /\ call[a].source \in IdempotencyKeys /\ call[a].key \in Keys
  BY DEF CallsOK, CallsHaveSources
<1>2. \A answer \in told' \ told : answer = [source |-> call[a].source, key |-> call[a].key, row |-> row]
  BY DEF Tell
<1>3. \A answer \in told' \ told :
           /\ answer \in [source : IdempotencyKeys, key : Keys, row : Attempt]
           /\ attempt'[answer.source] = answer.row
           /\ answer.row.key = Trim(answer.key)
  BY <1>1, <1>2
<1> QED
  BY <1>3, Bounds, GoesOn DEF Tell, Stages

\* An idempotency key that has its answer gives it again, or refuses.
LEMMA Replayed ==
  ASSUME ProcessesOK, CallsOK, NEW a \in Actors, call[a].stage # "idle", Recorded(a), Replay(a),
         UNCHANGED <<attempt, faults>>
  PROVE  CallsOK'
<1>1. AttemptsKept /\ faults' \in Nat
  BY DEF AttemptsKept, CallsOK
<1>2. call[a].source \in IdempotencyKeys /\ attempt[call[a].source] \in Attempt
  BY DEF CallsOK, CallsHaveSources, ProcessesOK, Recorded
<1>3. CASE attempt[call[a].source].key = Trim(call[a].key)
  <2>1. Tell(a, attempt[call[a].source])
    BY <1>3 DEF Replay
  <2>2. PICK row \in Attempt : row = attempt[call[a].source]
    BY <1>2
  <2> QED
    BY <1>1, <1>3, <2>1, <2>2, Told
<1>4. CASE attempt[call[a].source].key # Trim(call[a].key)
  BY <1>1, <1>4, GoesOn DEF Replay, Stages
<1> QED
  BY <1>3, <1>4

-----------------------------------------------------------------------------
(* Steps that leave the database alone.                                     *)

\* What CorrelatesTheActiveWait says of one step.
ActiveWait ==
  \A c \in commands' \ commands :
    LET r == c.target[1] IN
    /\ instance[r].status = "WAITING"
    /\ instance[r].pending = Null
    /\ instance[r].revision = c.target[2]
    /\ \E a \in Actors : call[a].source = c.source /\ Locked(a) = {c.target}

\* What ClaimsAreRespected says of one step.
RespectsClaims ==
  \A m \in Messages :
    /\ delivery[m].status \in Terminal => delivery'[m] = delivery[m]
    /\ delivery[m].status = "CLAIMED" /\ delivery'[m].claimant # delivery[m].claimant =>
         \/ delivery[m].expired /\ delivery'[m].status = "CLAIMED"
         \/ call[delivery[m].claimant].source = m /\ call'[delivery[m].claimant] = Idle

Goal == IInv' /\ ActiveWait /\ RespectsClaims

LEMMA QuietStep ==
  ASSUME IInv, UNCHANGED database, CallsOK'
  PROVE  Goal
<1>1. UNCHANGED <<instance, subscription, commands, attempt, delivery>>
  BY DEF database
<1>2. ProcessesOK' /\ AttemptsKept
  BY <1>1, ProcessesKept DEF IInv
<1>3. LedgerOK'
  BY <1>1, <1>2, LedgerKept DEF IInv
<1>4. ActiveWait /\ RespectsClaims
  BY <1>1 DEF ActiveWait, RespectsClaims
<1> QED
  BY <1>2, <1>3, <1>4 DEF Goal, IInv

LEMMA IdleIsCall == Idle \in Call /\ Idle.stage = "idle"
BY DEF Idle, Call, Stages

LEMMA CallStep ==
  ASSUME IInv, NEW a \in Actors, Lookup(a) \/ Snapshot(a) \/ Crash(a)
  PROVE  Goal
<1>1. CallsOK /\ ProcessesOK /\ call[a] \in Call /\ call[a].stage # "idle"
  BY DEF IInv, CallsOK, Lookup, Snapshot, Crash
<1>2. AttemptsKept /\ UNCHANGED database /\ attempt' = attempt
  BY DEF AttemptsKept, Lookup, Snapshot, Crash, database
<1>3. CASE Lookup(a)
  <2>1. CASE Recorded(a)
    BY <1>1, <1>2, <1>3, <2>1, Replayed, QuietStep DEF Lookup
  <2>2. CASE ~Recorded(a)
    <3>1. Goes(a, "matching") /\ UNCHANGED <<told, faults>> /\ faults \in Nat /\ "matching" \in Stages
      BY <1>1, <1>3, <2>2 DEF Lookup, CallsOK, Stages
    <3>2. CallsOK'
      BY <1>1, <1>2, <3>1, GoesOn
    <3> QED
      BY <1>2, <3>2, QuietStep
  <2> QED
    BY <2>1, <2>2
<1>4. CASE Snapshot(a)
  <2>1. PICK x : x = [call[a] EXCEPT !.stage = "locking", !.found = {t \in Targets : Matches(t, call[a].key)}]
    OBVIOUS
  <2>2. x \in Call /\ x.stage = "locking" /\ x.source = call[a].source /\ x.key = call[a].key
    <3>1. {t \in Targets : Matches(t, call[a].key)} \in SUBSET Targets
      OBVIOUS
    <3> QED
      BY <1>1, <2>1, <3>1 DEF Call, Stages
  <2>3. call' = [call EXCEPT ![a] = x]
    BY <1>1, <1>4, <2>1 DEF Snapshot, CallsOK
  <2>4. /\ call[a].source \in IdempotencyKeys
        /\ a \in Workers => call[a].source \in Messages
        /\ call[a].key \in Keys
    BY <1>1 DEF CallsOK, CallsHaveSources
  <2>5. told' = told /\ faults' \in Nat
    BY <1>1, <1>4 DEF Snapshot, CallsOK
  <2>6. CallsOK'
    BY <1>1, <1>2, <2>2, <2>3, <2>4, <2>5, CallMoves
  <2> QED
    BY <1>2, <2>6, QuietStep
<1>5. CASE Crash(a)
  <2>1. call' = [call EXCEPT ![a] = Idle] /\ told' = told /\ faults' \in Nat
    BY <1>1, <1>5 DEF Crash, Spend, CallsOK
  <2>2. CallsOK'
    BY <1>1, <1>2, <2>1, IdleIsCall, CallMoves
  <2> QED
    BY <1>2, <2>2, QuietStep
<1> QED
  BY <1>3, <1>4, <1>5

LEMMA ClientStep ==
  ASSUME IInv, NEW c \in Clients, Send(c) \/ Receive(c)
  PROVE  Goal
<1>1. AttemptsKept /\ UNCHANGED database /\ attempt' = attempt /\ told' = told /\ faults' \in Nat
  BY DEF AttemptsKept, Send, Receive, database, IInv, CallsOK
<1>2. c \in Actors /\ c \notin Workers /\ CallsOK
  BY Bounds DEF Actors, IInv
<1>3. PICK x \in Call : /\ call' = [call EXCEPT ![c] = x]
                        /\ x.stage # "idle" => /\ x.source \in IdempotencyKeys /\ x.key \in Keys
                                               /\ x.stage # "answered"
  <2>1. CASE Send(c)
    <3>1. PICK k \in ApiKeys, key \in Keys :
            call' = [call EXCEPT ![c] = [stage |-> "calling", source |-> k, key |-> key, found |-> {}]]
      BY <2>1 DEF Send
    <3>2. [stage |-> "calling", source |-> k, key |-> key, found |-> {}] \in Call /\ k \in IdempotencyKeys
      BY DEF Call, Stages, IdempotencyKeys
    <3> QED
      BY <3>1, <3>2
  <2>2. CASE Receive(c)
    BY <2>2, IdleIsCall DEF Receive
  <2> QED
    BY <2>1, <2>2
<1>4. CallsOK'
  BY <1>1, <1>2, <1>3, CallMoves
<1> QED
  BY <1>1, <1>4, QuietStep

-----------------------------------------------------------------------------
(* The queue.                                                               *)

\* One delivery changes, and nothing of the processes does.
LEMMA DeliveryStep ==
  ASSUME IInv, UNCHANGED <<instance, subscription, commands, attempt>>, CallsOK',
         NEW m \in Messages, NEW d \in Delivery, delivery' = [delivery EXCEPT ![m] = d],
         delivery[m].status \notin Terminal,
         d.status # "NONE" => d.key \in Keys,
         d.status \in Terminal =>
           /\ attempt[m] # Null /\ d.target = attempt[m].target
           /\ d.status = IF attempt[m].target = Null THEN attempt[m].outcome ELSE "DELIVERED",
         d.status = "CLAIMED" <=> d.claimant # Null,
         delivery[m].status = "CLAIMED" /\ d.claimant # delivery[m].claimant =>
           \/ delivery[m].expired /\ d.status = "CLAIMED"
           \/ call[delivery[m].claimant].source = m /\ call'[delivery[m].claimant] = Idle
  PROVE  Goal
<1>1. ProcessesOK' /\ AttemptsKept
  BY ProcessesKept DEF IInv
<1>2. /\ delivery' \in [Messages -> Delivery]
      /\ \A n \in Messages : delivery'[n] = IF n = m THEN d ELSE delivery[n]
  BY DEF IInv, LedgerOK
<1>3. ThrownHaveKeys'
  BY <1>2 DEF IInv, LedgerOK, ThrownHaveKeys
<1>4. LedgerTellsOutcome'
  BY <1>2 DEF IInv, LedgerOK, LedgerTellsOutcome
<1>5. ActiveWait
  BY DEF ActiveWait
<1>6. RespectsClaims
  BY <1>2 DEF RespectsClaims
<1> QED
  BY <1>1, <1>2, <1>3, <1>4, <1>5, <1>6 DEF Goal, IInv, LedgerOK

LEMMA NotFinal == "NONE" \notin Terminal /\ "AVAILABLE" \notin Terminal /\ "CLAIMED" \notin Terminal
BY DEF Terminal

LEMMA QueueStep ==
  ASSUME IInv, NEW m \in Messages, ThrowMessage(m) \/ ExpireLease(m)
  PROVE  Goal
<1>1. delivery[m] \in Delivery /\ CallsOK /\ ProcessesOK /\ LedgerOK /\ faults \in Nat
  BY DEF IInv, LedgerOK, CallsOK
<1>2. UNCHANGED <<instance, subscription, commands, attempt>> /\ AttemptsKept /\ call' = call /\ told' = told
  BY DEF ThrowMessage, ExpireLease, AttemptsKept
<1>3. faults' \in Nat
  BY <1>1 DEF ThrowMessage, ExpireLease, Spend
<1>4. CallsOK'
  BY <1>1, <1>2, <1>3, CallsKept
<1>5. CASE ThrowMessage(m)
  <2>1. PICK key \in Keys : delivery' = [delivery EXCEPT ![m].status = "AVAILABLE", ![m].key = key]
    BY <1>5 DEF ThrowMessage
  <2>2. PICK d : d = [delivery[m] EXCEPT !.status = "AVAILABLE", !.key = key]
    OBVIOUS
  <2>3. d \in Delivery /\ d.status = "AVAILABLE" /\ d.key = key /\ d.claimant = delivery[m].claimant
    BY <1>1, <2>2 DEF Delivery
  <2>4. delivery' = [delivery EXCEPT ![m] = d]
    BY <1>1, <2>1, <2>2 DEF LedgerOK
  <2>5. delivery[m].status = "NONE" /\ delivery[m].claimant = Null
    BY <1>1, <1>5 DEF ThrowMessage, LedgerOK, LedgerTellsOutcome
  <2> QED
    BY <1>2, <1>4, <2>3, <2>4, <2>5, NotFinal, DeliveryStep
<1>6. CASE ExpireLease(m)
  <2>1. delivery[m].status = "CLAIMED" /\ delivery' = [delivery EXCEPT ![m].expired = TRUE]
    BY <1>6 DEF ExpireLease
  <2>2. PICK d : d = [delivery[m] EXCEPT !.expired = TRUE]
    OBVIOUS
  <2>3. d \in Delivery /\ d.status = "CLAIMED" /\ d.key = delivery[m].key /\ d.claimant = delivery[m].claimant
    BY <1>1, <2>1, <2>2 DEF Delivery
  <2>4. delivery' = [delivery EXCEPT ![m] = d]
    BY <1>1, <2>1, <2>2 DEF LedgerOK
  <2>5. delivery[m].key \in Keys /\ delivery[m].claimant # Null
    BY <1>1, <2>1 DEF LedgerOK, LedgerTellsOutcome, ThrownHaveKeys
  <2> QED
    BY <1>2, <1>4, <2>1, <2>3, <2>4, <2>5, NotFinal, DeliveryStep
<1> QED
  BY <1>5, <1>6

LEMMA ClaimStep ==
  ASSUME IInv, NEW w \in Workers, Claim(w)
  PROVE  Goal
<1>1. PICK m \in Messages :
       /\ Claimable(m)
       /\ delivery' = [delivery EXCEPT ![m].status = "CLAIMED", ![m].claimant = w, ![m].expired = FALSE]
       /\ call' = [call EXCEPT ![w] = [stage |-> "calling", source |-> m, key |-> delivery[m].key, found |-> {}]]
  BY DEF Claim
<1>2. /\ delivery[m] \in Delivery /\ CallsOK /\ LedgerOK /\ w \in Actors /\ w # Null
      /\ UNCHANGED <<instance, subscription, commands, attempt>> /\ AttemptsKept
      /\ told' = told /\ faults' \in Nat
  BY Bounds DEF IInv, LedgerOK, CallsOK, Actors, Claim, AttemptsKept
<1>3. /\ delivery[m].status \in {"AVAILABLE", "CLAIMED"} /\ delivery[m].key \in Keys
      /\ delivery[m].status = "CLAIMED" => delivery[m].expired
  BY <1>1, <1>2 DEF Claimable, LedgerOK, ThrownHaveKeys
<1>4. CallsOK'
  <2>1. PICK x : x = [stage |-> "calling", source |-> m, key |-> delivery[m].key, found |-> {}]
    OBVIOUS
  <2>2. x \in Call /\ x.stage = "calling" /\ x.source = m /\ x.key = delivery[m].key /\ m \in IdempotencyKeys
    BY <1>3, <2>1 DEF Call, Stages, IdempotencyKeys
  <2>3. call' = [call EXCEPT ![w] = x]
    BY <1>1, <2>1
  <2> QED
    BY <1>2, <1>3, <2>2, <2>3, CallMoves
<1>5. PICK d : d = [delivery[m] EXCEPT !.status = "CLAIMED", !.claimant = w, !.expired = FALSE]
  OBVIOUS
<1>6. d \in Delivery /\ d.status = "CLAIMED" /\ d.key = delivery[m].key /\ d.claimant = w
  BY <1>2, <1>5 DEF Delivery
<1>7. delivery' = [delivery EXCEPT ![m] = d]
  BY <1>1, <1>2, <1>5 DEF LedgerOK
<1> QED
  BY <1>2, <1>3, <1>4, <1>6, <1>7, NotFinal, DeliveryStep

\* Settlement and release, by the worker that dispatched the delivery.
LEMMA ConcludeStep ==
  ASSUME IInv, NEW w \in Workers, Conclude(w)
  PROVE  Goal
<1>1. PICK m \in Messages : m = call[w].source
  BY DEF Conclude, Settle, RetryClaim, IInv, CallsOK, CallsHaveSources, Actors
<1>2. /\ delivery[m] \in Delivery /\ CallsOK /\ LedgerOK /\ w \in Actors /\ call[w] \in Call
      /\ UNCHANGED <<instance, subscription, commands, attempt>> /\ AttemptsKept
      /\ told' = told /\ faults' \in Nat /\ call' = [call EXCEPT ![w] = Idle] /\ m \in IdempotencyKeys
  BY DEF IInv, LedgerOK, CallsOK, Actors, Conclude, Settle, RetryClaim, AttemptsKept, IdempotencyKeys
<1>3. CallsOK' /\ call'[w] = Idle
  BY <1>2, IdleIsCall, CallMoves DEF CallsOK
<1>4. CASE ~Holds(w)
  <2>1. UNCHANGED database
    BY <1>2, <1>4 DEF Conclude, Settle, RetryClaim, database
  <2> QED
    BY <1>3, <2>1, QuietStep
<1>5. CASE Holds(w)
  <2>1. delivery[m].status = "CLAIMED" /\ delivery[m].claimant = w /\ delivery[m].key \in Keys
    BY <1>1, <1>2, <1>5 DEF Holds, LedgerOK, ThrownHaveKeys
  <2>2. CASE Settle(w)
    <3>1. attempt[m] # Null /\ attempt[m] \in Attempt
      BY <1>1, <1>2, <2>2 DEF Settle, CallsOK, CallsHaveSources, IInv, ProcessesOK
    <3>2. delivery' = [delivery EXCEPT
              ![m].status = StatusOf(attempt[m].outcome),
              ![m].target = attempt[m].target,
              ![m].claimant = Null, ![m].expired = FALSE]
      BY <1>1, <1>5, <2>2 DEF Settle
    <3>3. PICK d : d = [delivery[m] EXCEPT !.status = StatusOf(attempt[m].outcome), !.target = attempt[m].target,
                                           !.claimant = Null, !.expired = FALSE]
      OBVIOUS
    <3>4. /\ attempt[m].outcome \in Outcomes /\ attempt[m].target \in Targets \cup {Null}
          /\ attempt[m].outcome = "CORRELATED" <=> attempt[m].target # Null
      BY <1>2, <3>1 DEF Attempt, IInv, ProcessesOK, TargetsAreOutcomes
    <3>5. StatusOf(attempt[m].outcome) \in Terminal
          /\ StatusOf(attempt[m].outcome) = IF attempt[m].target = Null THEN attempt[m].outcome ELSE "DELIVERED"
      BY <3>4 DEF StatusOf, Outcomes, Terminal
    <3>6. d \in Delivery
      BY <1>2, <3>3, <3>4, <3>5 DEF Delivery
    <3>7. /\ d.status = StatusOf(attempt[m].outcome) /\ d.target = attempt[m].target /\ d.claimant = Null
          /\ d.key = delivery[m].key
      BY <1>2, <3>3 DEF Delivery
    <3>8. delivery' = [delivery EXCEPT ![m] = d]
      BY <1>2, <3>2, <3>3 DEF LedgerOK
    <3>9. d.status # "CLAIMED"
      BY <3>5, <3>7, NotFinal
    <3> QED
      BY <1>1, <1>2, <1>3, <2>1, <3>1, <3>5, <3>6, <3>7, <3>8, <3>9, NotFinal, DeliveryStep
  <2>3. CASE RetryClaim(w)
    <3>1. delivery' = [delivery EXCEPT ![m].status = "AVAILABLE", ![m].claimant = Null, ![m].expired = FALSE]
      BY <1>1, <1>5, <2>3 DEF RetryClaim
    <3>2. PICK d : d = [delivery[m] EXCEPT !.status = "AVAILABLE", !.claimant = Null, !.expired = FALSE]
      OBVIOUS
    <3>3. d \in Delivery /\ d.status = "AVAILABLE" /\ d.claimant = Null /\ d.key = delivery[m].key
      BY <1>2, <3>2 DEF Delivery
    <3>4. delivery' = [delivery EXCEPT ![m] = d]
      BY <1>2, <3>1, <3>2 DEF LedgerOK
    <3> QED
      BY <1>1, <1>2, <1>3, <2>1, <3>3, <3>4, NotFinal, DeliveryStep
  <2> QED
    BY <2>2, <2>3 DEF Conclude
<1> QED
  BY <1>4, <1>5

-----------------------------------------------------------------------------
(* Receivers.                                                               *)

\* A receiver moves on or stops.  Its command is behind it then, and what it
\* consumed is what was correlated.
MovesTo(r, i, rows) ==
  /\ i \in Instance /\ rows \in [Revisions -> Subscription]
  /\ instance' = [instance EXCEPT ![r] = i]
  /\ subscription' = [subscription EXCEPT ![r] = rows]
  /\ i.status # "NONE" /\ i.pending = Null
  /\ \A c \in commands : c.target[1] = r =>
       /\ c.target[2] <= i.revision
       /\ ~(c.target[2] = i.revision /\ i.status = "WAITING")
       /\ rows[c.target[2]].key = subscription[r][c.target[2]].key
  /\ \A v \in Revisions : rows[v].status = "CONSUMED" =>
       subscription[r][v].status = "CONSUMED" \/ \E c \in commands : c.target = <<r, v>>

LEMMA ReceiverMoves ==
  ASSUME IInv, UNCHANGED <<commands, attempt, delivery, call, told, faults>>,
         NEW r \in Receivers, NEW i, NEW rows, MovesTo(r, i, rows)
  PROVE  Goal
<1>1. /\ instance' \in [Receivers -> Instance] /\ subscription' \in [Receivers -> [Revisions -> Subscription]]
      /\ \A q \in Receivers : instance'[q] = IF q = r THEN i ELSE instance[q]
      /\ \A q \in Receivers : subscription'[q] = IF q = r THEN rows ELSE subscription[q]
  BY DEF IInv, ProcessesOK, MovesTo
<1>2. \A c \in commands : c.target[1] \in Receivers /\ c.target[2] \in Revisions
  BY DEF IInv, ProcessesOK, Command, Targets
<1>3. CommandsAreSpent'
  BY <1>1, <1>2 DEF IInv, ProcessesOK, CommandsAreSpent, MovesTo
<1>4. NothingBeforeTheStart' /\ TargetsAreOutcomes'
  BY <1>1 DEF IInv, ProcessesOK, NothingBeforeTheStart, TargetsAreOutcomes, MovesTo
<1>5. OneContinuation'
  <2>1. \A c \in commands : subscription'[c.target[1]][c.target[2]].key = attempt'[c.source].key
    BY <1>1, <1>2 DEF IInv, ProcessesOK, OneContinuation, MovesTo
  <2>2. \A q \in Receivers, v \in Revisions :
          subscription'[q][v].status = "CONSUMED" => \E c \in commands' : c.target = <<q, v>>
    <3>1. \A q \in Receivers, v \in Revisions :
            subscription[q][v].status = "CONSUMED" => \E c \in commands : c.target = <<q, v>>
      BY DEF IInv, ProcessesOK, OneContinuation
    <3> QED
      BY <1>1, <3>1 DEF MovesTo
  <2>3. \A q \in Receivers : instance'[q].pending # Null =>
       /\ instance'[q].status = "WAITING"
       /\ [target |-> <<q, instance'[q].revision>>, source |-> instance'[q].pending] \in commands'
       /\ subscription'[q][instance'[q].revision].status = "WAITING"
    <3>1. instance'[r].pending = Null
      BY <1>1 DEF MovesTo
    <3> QED
      BY <1>1, <3>1 DEF IInv, ProcessesOK, OneContinuation
  <2>4. /\ commands' = {[target |-> attempt'[k].target, source |-> k] : k \in Correlated'}
        /\ \A c, d \in commands' : c.target = d.target => c = d
    BY DEF IInv, ProcessesOK, OneContinuation, Correlated
  <2> QED
    BY <2>1, <2>2, <2>3, <2>4 DEF OneContinuation
<1>6. ProcessesOK' /\ AttemptsKept
  BY <1>1, <1>3, <1>4, <1>5 DEF ProcessesOK, IInv, AttemptsKept
<1>7. LedgerOK' /\ CallsOK'
  BY <1>6, LedgerKept, CallsKept DEF IInv, CallsOK
<1>8. ActiveWait /\ RespectsClaims
  BY DEF ActiveWait, RespectsClaims
<1> QED
  BY <1>6, <1>7, <1>8 DEF Goal, IInv

\* A pending command is the one on the current, still open subscription.
LEMMA PendingWait ==
  ASSUME IInv, NEW r \in Receivers, instance[r].pending # Null
  PROVE  /\ instance[r] \in Instance /\ instance[r].status = "WAITING" /\ instance[r].revision \in Revisions
         /\ subscription[r] \in [Revisions -> Subscription]
         /\ \E c \in commands : c.target = <<r, instance[r].revision>>
         /\ \A c \in commands : c.target[1] = r => c.target[2] <= instance[r].revision /\ c.target[2] \in Revisions
<1>1. instance[r] \in Instance /\ subscription[r] \in [Revisions -> Subscription]
  BY DEF IInv, ProcessesOK
<1>2. /\ instance[r].status = "WAITING"
      /\ [target |-> <<r, instance[r].revision>>, source |-> instance[r].pending] \in commands
  BY DEF IInv, ProcessesOK, OneContinuation
<1>3. \A c \in commands : c.target \in Targets
  BY DEF IInv, ProcessesOK, Command
<1>4. PICK c \in commands : c.target = <<r, instance[r].revision>>
  BY <1>2
<1>5. instance[r].revision \in Revisions
  BY <1>3, <1>4 DEF Targets
<1>6. \A d \in commands : d.target[1] = r => d.target[2] <= instance[r].revision /\ d.target[2] \in Revisions
  BY <1>3 DEF IInv, ProcessesOK, CommandsAreSpent, Targets
<1> QED
  BY <1>1, <1>2, <1>4, <1>5, <1>6

LEMMA ReceiverStep ==
  ASSUME IInv, NEW r \in Receivers, StartReceiver(r) \/ Incorporate(r) \/ CancelReceiver(r)
  PROVE  Goal
<1>1. /\ instance[r] \in Instance /\ subscription[r] \in [Revisions -> Subscription]
      /\ instance \in [Receivers -> Instance] /\ subscription \in [Receivers -> [Revisions -> Subscription]]
  BY DEF IInv, ProcessesOK
<1>2. UNCHANGED <<commands, attempt, delivery, call, told, faults>>
  BY DEF StartReceiver, Incorporate, CommitReceiver, FailReceiver, CancelReceiver
<1>3. \A c \in commands : c.target[1] = r =>
        c.target[2] \in Revisions /\ instance[r].revision \in Nat /\ c.target[2] <= instance[r].revision
  BY <1>1, Bounds DEF IInv, ProcessesOK, CommandsAreSpent, Command, Targets, Instance
<1>4. CASE StartReceiver(r)
  <2>1. PICK key \in Keys :
          /\ instance' = [instance EXCEPT ![r] = [status |-> "WAITING", revision |-> 1, pending |-> Null]]
          /\ subscription' = [subscription EXCEPT ![r][1] = [status |-> "WAITING", key |-> key]]
    BY <1>4 DEF StartReceiver, Wait
  <2>2. PICK i, rows : /\ i = [status |-> "WAITING", revision |-> 1, pending |-> Null]
                       /\ rows = [subscription[r] EXCEPT ![1] = [status |-> "WAITING", key |-> key]]
    OBVIOUS
  <2>3. i \in Instance /\ i.status = "WAITING" /\ i.pending = Null
    BY <2>2, Bounds DEF Instance, InstanceStatus
  <2>4. /\ rows \in [Revisions -> Subscription]
        /\ \A v \in Revisions : rows[v].status = "CONSUMED" => subscription[r][v].status = "CONSUMED"
    <3>1. [status |-> "WAITING", key |-> key] \in Subscription
      BY DEF Subscription
    <3>2. \A v \in Revisions : rows[v] = IF v = 1 THEN [status |-> "WAITING", key |-> key] ELSE subscription[r][v]
      BY <1>1, <2>2
    <3>3. rows \in [Revisions -> Subscription]
      BY <1>1, <2>2, <3>1
    <3> QED
      BY <3>2, <3>3
  <2>5. instance' = [instance EXCEPT ![r] = i] /\ subscription' = [subscription EXCEPT ![r] = rows]
    BY <1>1, <2>1, <2>2
  <2>6. \A c \in commands : c.target[1] # r
    <3>1. instance[r].revision = 0
      BY <1>4 DEF StartReceiver, IInv, ProcessesOK, NothingBeforeTheStart
    <3> QED
      BY <1>3, <3>1, Bounds
  <2>7. MovesTo(r, i, rows)
    BY <2>3, <2>4, <2>5, <2>6 DEF MovesTo
  <2> QED
    BY <1>2, <2>7, ReceiverMoves
<1>5. CASE CommitReceiver(r)
  <2>1. PICK v : v = instance[r].revision
    OBVIOUS
  <2>2. /\ instance[r].pending # Null /\ v \in Revisions /\ v \in Nat
        /\ \E c \in commands : c.target = <<r, v>>
    <3>1. instance[r].pending # Null
      BY <1>5 DEF CommitReceiver
    <3>2. instance[r].revision \in Revisions /\ \E c \in commands : c.target = <<r, instance[r].revision>>
      BY <3>1, PendingWait
    <3>3. \A u \in Revisions : u \in Nat
      BY Bounds
    <3> QED
      BY <2>1, <3>1, <3>2, <3>3
  <2>3. PICK used : used = Consume(r)
    OBVIOUS
  <2>4. used \in Subscription /\ used.key = subscription[r][v].key
    BY <1>1, <2>1, <2>2, <2>3 DEF Consume, Subscription
  <2>5. CASE v < MaxRevision /\ \E key \in Keys :
             /\ subscription' = [subscription EXCEPT ![r][v] = Consume(r),
                                                     ![r][v + 1] = [status |-> "WAITING", key |-> key]]
             /\ instance' = [instance EXCEPT ![r] = [status |-> "WAITING", revision |-> v + 1, pending |-> Null]]
    <3>1. PICK key \in Keys :
             /\ subscription' = [subscription EXCEPT ![r][v] = used,
                                                     ![r][v + 1] = [status |-> "WAITING", key |-> key]]
             /\ instance' = [instance EXCEPT ![r] = [status |-> "WAITING", revision |-> v + 1, pending |-> Null]]
      BY <2>3, <2>5
    <3>2. v + 1 \in Revisions /\ v + 1 # v /\ v + 1 \in 0..MaxRevision
      BY <2>2, <2>5, Bounds
    <3>3. PICK i, rows : /\ i = [status |-> "WAITING", revision |-> v + 1, pending |-> Null]
                         /\ rows = [subscription[r] EXCEPT ![v] = used, ![v + 1] = [status |-> "WAITING", key |-> key]]
      OBVIOUS
    <3>4. i \in Instance /\ i.status = "WAITING" /\ i.pending = Null /\ i.revision = v + 1
      BY <3>2, <3>3 DEF Instance, InstanceStatus
    <3>5. [status |-> "WAITING", key |-> key] \in Subscription
      BY DEF Subscription
    <3>6. /\ rows \in [Revisions -> Subscription]
          /\ \A u \in Revisions : rows[u] = IF u = v + 1 THEN [status |-> "WAITING", key |-> key]
                                            ELSE IF u = v THEN used ELSE subscription[r][u]
      BY <1>1, <2>2, <2>4, <3>2, <3>3, <3>5
    <3>7. instance' = [instance EXCEPT ![r] = i] /\ subscription' = [subscription EXCEPT ![r] = rows]
      BY <1>1, <3>1, <3>2, <3>3
    <3>8. \A c \in commands : c.target[1] = r =>
           /\ c.target[2] <= i.revision
           /\ c.target[2] # i.revision
           /\ rows[c.target[2]].key = subscription[r][c.target[2]].key
      <4> SUFFICES ASSUME NEW c \in commands, c.target[1] = r
                   PROVE  /\ c.target[2] <= v + 1
                          /\ c.target[2] # v + 1
                          /\ rows[c.target[2]].key = subscription[r][c.target[2]].key
        BY <3>4
      <4>1. c.target[2] \in Revisions /\ c.target[2] <= v /\ c.target[2] \in Nat
        BY <1>3, <2>1, Bounds
      <4>2. c.target[2] <= v + 1 /\ c.target[2] # v + 1
        BY <2>2, <4>1
      <4> QED
        BY <2>4, <3>6, <4>1, <4>2
    <3>9. \A u \in Revisions : rows[u].status = "CONSUMED" =>
           subscription[r][u].status = "CONSUMED" \/ \E c \in commands : c.target = <<r, u>>
      BY <2>2, <3>6
    <3>10. MovesTo(r, i, rows)
      BY <3>4, <3>6, <3>7, <3>8, <3>9 DEF MovesTo
    <3> QED
      BY <1>2, <3>10, ReceiverMoves
  <2>6. CASE /\ subscription' = [subscription EXCEPT ![r][v] = Consume(r)]
             /\ instance' = [instance EXCEPT ![r].status = "COMPLETED", ![r].pending = Null]
    <3>1. PICK i, rows : /\ i = [instance[r] EXCEPT !.status = "COMPLETED", !.pending = Null]
                         /\ rows = [subscription[r] EXCEPT ![v] = used]
      OBVIOUS
    <3>2. i \in Instance /\ i.status = "COMPLETED" /\ i.pending = Null /\ i.revision = v
      BY <1>1, <2>1, <3>1 DEF Instance, InstanceStatus
    <3>3. /\ rows \in [Revisions -> Subscription]
          /\ \A u \in Revisions : rows[u] = IF u = v THEN used ELSE subscription[r][u]
      BY <1>1, <2>2, <2>4, <3>1
    <3>4. instance' = [instance EXCEPT ![r] = i] /\ subscription' = [subscription EXCEPT ![r] = rows]
      BY <1>1, <2>3, <2>6, <3>1
    <3>5. \A c \in commands : c.target[1] = r =>
           /\ c.target[2] <= i.revision
           /\ rows[c.target[2]].key = subscription[r][c.target[2]].key
      BY <1>3, <2>1, <2>4, <3>2, <3>3
    <3>6. \A u \in Revisions : rows[u].status = "CONSUMED" =>
           subscription[r][u].status = "CONSUMED" \/ \E c \in commands : c.target = <<r, u>>
      BY <2>2, <3>3
    <3>7. MovesTo(r, i, rows)
      BY <3>2, <3>3, <3>4, <3>5, <3>6 DEF MovesTo
    <3> QED
      BY <1>2, <3>7, ReceiverMoves
  <2> QED
    BY <1>5, <2>1, <2>5, <2>6 DEF CommitReceiver
<1>6. CASE FailReceiver(r) \/ CancelReceiver(r)
  <2>1. PICK i : /\ i \in Instance /\ i.status \in {"INCIDENT", "CANCELLED"} /\ i.pending = Null
                 /\ i.revision = instance[r].revision /\ instance' = [instance EXCEPT ![r] = i]
    <3>1. CASE FailReceiver(r)
      <4>1. PICK i : i = [instance[r] EXCEPT !.status = "INCIDENT", !.pending = Null]
        OBVIOUS
      <4>2. i \in Instance /\ i.status = "INCIDENT" /\ i.pending = Null /\ i.revision = instance[r].revision
        BY <1>1, <4>1 DEF Instance, InstanceStatus
      <4>3. instance' = [instance EXCEPT ![r] = i]
        BY <1>1, <3>1, <4>1 DEF FailReceiver
      <4> QED
        BY <4>2, <4>3
    <3>2. CASE CancelReceiver(r)
      <4>1. PICK i : i = [instance[r] EXCEPT !.status = "CANCELLED"]
        OBVIOUS
      <4>2. i \in Instance /\ i.status = "CANCELLED" /\ i.pending = Null /\ i.revision = instance[r].revision
        BY <1>1, <3>2, <4>1 DEF Instance, InstanceStatus, CancelReceiver
      <4>3. instance' = [instance EXCEPT ![r] = i]
        BY <1>1, <3>2, <4>1 DEF CancelReceiver
      <4> QED
        BY <4>2, <4>3
    <3> QED
      BY <1>6, <3>1, <3>2
  <2>2. subscription' = [subscription EXCEPT ![r] = subscription[r]]
    BY <1>1, <1>6 DEF FailReceiver, CancelReceiver
  <2>3. \A c \in commands : c.target[1] = r => c.target[2] <= i.revision
    BY <1>3, <2>1
  <2>4. PICK rows \in [Revisions -> Subscription] : rows = subscription[r]
    BY <1>1
  <2>5. MovesTo(r, i, rows)
    BY <2>1, <2>2, <2>3, <2>4 DEF MovesTo
  <2> QED
    BY <1>2, <2>5, ReceiverMoves
<1> QED
  BY <1>4, <1>5, <1>6 DEF Incorporate

-----------------------------------------------------------------------------
(* Correlation.                                                             *)

\* What Record writes for key k: the row, and the command if there is a target.
Writes(k, row, target) ==
  /\ attempt' = [attempt EXCEPT ![k] = row]
  /\ IF target = Null
       THEN UNCHANGED <<instance, commands>>
       ELSE /\ instance' = [instance EXCEPT ![target[1]].pending = k]
            /\ commands' = commands \cup {[target |-> target, source |-> k]}
  /\ UNCHANGED <<subscription, delivery>>

\* Nothing matched, or too much.
LEMMA NothingCorrelated ==
  ASSUME IInv, NEW k \in IdempotencyKeys, attempt[k] = Null, NEW row \in Attempt,
         row.target = Null, row.outcome # "CORRELATED", Writes(k, row, Null)
  PROVE  ProcessesOK' /\ AttemptsKept /\ ActiveWait /\ RespectsClaims
<1>1. /\ UNCHANGED <<instance, commands, subscription, delivery>>
      /\ attempt' \in [IdempotencyKeys -> Attempt \cup {Null}]
      /\ \A l \in IdempotencyKeys : attempt'[l] = IF l = k THEN row ELSE attempt[l]
  BY DEF Writes, IInv, ProcessesOK
<1>2. AttemptsKept /\ ActiveWait /\ RespectsClaims
  BY <1>1 DEF AttemptsKept, ActiveWait, RespectsClaims
<1>3. TargetsAreOutcomes'
  BY <1>1 DEF IInv, ProcessesOK, TargetsAreOutcomes
<1>4. CommandsAreSpent' /\ NothingBeforeTheStart'
  BY <1>1 DEF IInv, ProcessesOK, CommandsAreSpent, NothingBeforeTheStart
<1>5. OneContinuation'
  <2>1. Correlated' = Correlated /\ \A l \in Correlated : attempt'[l] = attempt[l]
    BY <1>1 DEF Correlated
  <2>2. commands' = {[target |-> attempt'[l].target, source |-> l] : l \in Correlated'}
    BY <1>1, <2>1 DEF IInv, ProcessesOK, OneContinuation
  <2>3. \A c \in commands : c.source \in Correlated
    BY DEF IInv, ProcessesOK, OneContinuation
  <2>4. \A c \in commands' : subscription'[c.target[1]][c.target[2]].key = attempt'[c.source].key
    BY <1>1, <2>1, <2>3 DEF IInv, ProcessesOK, OneContinuation
  <2>5. /\ \A c, d \in commands : c.target = d.target => c = d
        /\ \A r \in Receivers, v \in Revisions :
             subscription[r][v].status = "CONSUMED" => \E c \in commands : c.target = <<r, v>>
        /\ \A r \in Receivers : instance[r].pending # Null =>
             /\ instance[r].status = "WAITING"
             /\ [target |-> <<r, instance[r].revision>>, source |-> instance[r].pending] \in commands
             /\ subscription[r][instance[r].revision].status = "WAITING"
    BY DEF IInv, ProcessesOK, OneContinuation
  <2> QED
    BY <1>1, <2>2, <2>4, <2>5 DEF OneContinuation
<1> QED
  BY <1>1, <1>2, <1>3, <1>4, <1>5 DEF ProcessesOK, IInv

\* The one subscription that matched gets its command.
LEMMA OneCorrelated ==
  ASSUME IInv, NEW k \in IdempotencyKeys, attempt[k] = Null, NEW row \in Attempt, NEW t \in Targets,
         row.target = t, row.outcome = "CORRELATED", Writes(k, row, t),
         subscription[t[1]][t[2]].status = "WAITING", subscription[t[1]][t[2]].key = row.key,
         t[2] = instance[t[1]].revision, instance[t[1]].status = "WAITING", instance[t[1]].pending = Null,
         \E a \in Actors : call[a].source = k /\ Locked(a) = {t}
  PROVE  ProcessesOK' /\ AttemptsKept /\ ActiveWait /\ RespectsClaims
<1>1. PICK r \in Receivers, v \in Revisions : t = <<r, v>> /\ t[1] = r /\ t[2] = v
  BY DEF Targets
<1>2. PICK new : new = [target |-> t, source |-> k]
  OBVIOUS
<1>3. new.target = t /\ new.source = k /\ new \in Command
  BY <1>2 DEF Command
<1>4. /\ UNCHANGED <<subscription, delivery>>
      /\ attempt' \in [IdempotencyKeys -> Attempt \cup {Null}]
      /\ \A l \in IdempotencyKeys : attempt'[l] = IF l = k THEN row ELSE attempt[l]
      /\ commands' = commands \cup {new}
      /\ instance' = [instance EXCEPT ![r].pending = k]
  BY <1>1, <1>2, Bounds DEF Writes, IInv, ProcessesOK
<1>5. /\ instance' \in [Receivers -> Instance]
      /\ \A q \in Receivers : q # r => instance'[q] = instance[q]
      /\ instance'[r].status = instance[r].status /\ instance'[r].revision = instance[r].revision
      /\ instance'[r].pending = k
  BY <1>4 DEF IInv, ProcessesOK, Instance
<1>6. /\ subscription[r][v].status = "WAITING" /\ subscription[r][v].key = row.key
      /\ v = instance[r].revision /\ instance[r].status = "WAITING" /\ instance[r].pending = Null
  BY <1>1
<1>7. row # Null /\ k # Null
  BY Bounds
<1>8. \A c \in commands : c.target[1] \in Receivers /\ c.target[2] \in Revisions /\ c.target \in Targets
  BY DEF IInv, ProcessesOK, Command, Targets
<1>9. \A c \in commands : c.target # t
  BY <1>1, <1>6, <1>8 DEF IInv, ProcessesOK, CommandsAreSpent
<1>10. AttemptsKept
  BY <1>4 DEF AttemptsKept
<1>11. ActiveWait
  BY <1>1, <1>3, <1>4, <1>6 DEF ActiveWait
<1>12. RespectsClaims
  BY <1>4 DEF RespectsClaims
<1>13. TargetsAreOutcomes'
  BY <1>4, Bounds DEF IInv, ProcessesOK, TargetsAreOutcomes
<1>14. CommandsAreSpent'
  <2> SUFFICES ASSUME NEW c \in commands'
               PROVE  /\ c.target[2] <= instance'[c.target[1]].revision
                      /\ c.target[2] = instance'[c.target[1]].revision /\ instance'[c.target[1]].status = "WAITING"
                           => instance'[c.target[1]].pending # Null
    BY DEF CommandsAreSpent
  <2>1. CASE c = new
    BY <1>1, <1>3, <1>5, <1>6, <1>7, <2>1, Bounds
  <2>2. CASE c \in commands
    BY <1>5, <1>7, <1>8, <2>2 DEF IInv, ProcessesOK, CommandsAreSpent
  <2> QED
    BY <1>4, <2>1, <2>2
<1>15. NothingBeforeTheStart'
  BY <1>5, <1>6 DEF IInv, ProcessesOK, NothingBeforeTheStart
<1>16. OneContinuation'
  <2>1. Correlated' = Correlated \cup {k} /\ k \notin Correlated /\ \A l \in Correlated : attempt'[l] = attempt[l]
    BY <1>4, <1>7 DEF Correlated
  <2>2. commands' = {[target |-> attempt'[l].target, source |-> l] : l \in Correlated'}
    <3>1. commands = {[target |-> attempt[l].target, source |-> l] : l \in Correlated}
      BY DEF IInv, ProcessesOK, OneContinuation
    <3>2. new = [target |-> attempt'[k].target, source |-> k]
      BY <1>2, <1>4
    <3> QED
      BY <1>4, <2>1, <3>1, <3>2
  <2>3. \A c \in commands : c.source \in Correlated
    BY DEF IInv, ProcessesOK, OneContinuation
  <2>4. \A c \in commands' : subscription'[c.target[1]][c.target[2]].key = attempt'[c.source].key
    <3>1. \A c \in commands : subscription'[c.target[1]][c.target[2]].key = attempt'[c.source].key
      BY <1>4, <2>1, <2>3 DEF IInv, ProcessesOK, OneContinuation
    <3>2. subscription'[new.target[1]][new.target[2]].key = attempt'[new.source].key
      BY <1>1, <1>3, <1>4, <1>6
    <3> QED
      BY <1>4, <3>1, <3>2
  <2>5. \A c, d \in commands' : c.target = d.target => c = d
    BY <1>3, <1>4, <1>9 DEF IInv, ProcessesOK, OneContinuation
  <2>6. \A q \in Receivers, u \in Revisions :
          subscription'[q][u].status = "CONSUMED" => \E c \in commands' : c.target = <<q, u>>
    <3>1. \A q \in Receivers, u \in Revisions :
            subscription[q][u].status = "CONSUMED" => \E c \in commands : c.target = <<q, u>>
      BY DEF IInv, ProcessesOK, OneContinuation
    <3> QED
      BY <1>4, <3>1
  <2>7. \A q \in Receivers : instance'[q].pending # Null =>
       /\ instance'[q].status = "WAITING"
       /\ [target |-> <<q, instance'[q].revision>>, source |-> instance'[q].pending] \in commands'
       /\ subscription'[q][instance'[q].revision].status = "WAITING"
    <3> SUFFICES ASSUME NEW q \in Receivers, instance'[q].pending # Null
                 PROVE  /\ instance'[q].status = "WAITING"
                        /\ [target |-> <<q, instance'[q].revision>>, source |-> instance'[q].pending] \in commands'
                        /\ subscription'[q][instance'[q].revision].status = "WAITING"
      OBVIOUS
    <3>1. CASE q = r
      BY <1>1, <1>2, <1>4, <1>5, <1>6, <3>1
    <3>2. CASE q # r
      BY <1>4, <1>5, <3>2 DEF IInv, ProcessesOK, OneContinuation
    <3> QED
      BY <3>1, <3>2
  <2> QED
    BY <2>2, <2>4, <2>5, <2>6, <2>7 DEF OneContinuation
<1>17. commands' \subseteq Command
  BY <1>3, <1>4 DEF IInv, ProcessesOK
<1> QED
  BY <1>4, <1>5, <1>10, <1>11, <1>12, <1>13, <1>14, <1>15, <1>16, <1>17 DEF ProcessesOK, IInv

LEMMA RecordStep ==
  ASSUME IInv, NEW a \in Actors, call[a].stage = "locking", ~Busy(a), ~Recorded(a), Record(a)
  PROVE  Goal
<1>1. /\ call[a] \in Call /\ call[a].source \in IdempotencyKeys /\ call[a].key \in Keys
      /\ CallsOK /\ faults \in Nat
  BY DEF IInv, CallsOK, CallsHaveSources
<1>2. PICK k \in IdempotencyKeys : k = call[a].source
  BY <1>1
<1>3. PICK matches : matches = Locked(a)
  OBVIOUS
<1>4. matches \in SUBSET Targets /\ \A t \in matches : Matches(t, call[a].key)
  BY <1>1, <1>3 DEF Locked, Call
<1>5. PICK outcome : outcome = OutcomeOf(matches)
  OBVIOUS
<1>6. outcome \in Outcomes /\ (outcome = "CORRELATED" <=> \E t \in Targets : matches = {t})
  BY <1>4, <1>5, OutcomeOfMatches
<1>7. PICK target : target = IF outcome = "CORRELATED" THEN CHOOSE t \in matches : TRUE ELSE Null
  OBVIOUS
<1>8. /\ outcome = "CORRELATED" => target \in Targets /\ matches = {target}
      /\ outcome # "CORRELATED" => target = Null
  BY <1>6, <1>7
<1>9. PICK row : row = [key |-> Trim(call[a].key), outcome |-> outcome, target |-> target]
  OBVIOUS
<1>10. /\ row \in Attempt /\ row.key = Trim(call[a].key) /\ row.outcome = outcome /\ row.target = target
  BY <1>1, <1>6, <1>8, <1>9, TrimmedKeys DEF Attempt
<1>11. /\ Writes(k, row, target)
       /\ \/ Tell(a, row) /\ UNCHANGED faults
          \/ Goes(a, "failed") /\ Spend /\ UNCHANGED told
  BY <1>2, <1>3, <1>5, <1>7, <1>9 DEF Record, Writes
<1>12. attempt[k] = Null
  BY <1>2 DEF Recorded
<1>13. ProcessesOK' /\ AttemptsKept /\ ActiveWait /\ RespectsClaims
  <2>1. CASE outcome # "CORRELATED"
    BY <1>8, <1>10, <1>11, <1>12, <2>1, NothingCorrelated
  <2>2. CASE outcome = "CORRELATED"
    <3>1. target \in Targets /\ Matches(target, call[a].key) /\ Locked(a) = {target}
      BY <1>3, <1>4, <1>8, <2>2
    <3>2. instance[target[1]].pending = Null
      BY <1>3, <1>5, <1>8, <2>2 DEF Busy
    <3>3. /\ subscription[target[1]][target[2]].status = "WAITING"
          /\ subscription[target[1]][target[2]].key = row.key
          /\ target[2] = instance[target[1]].revision /\ instance[target[1]].status = "WAITING"
      BY <1>10, <3>1 DEF Matches
    <3> QED
      BY <1>2, <1>10, <1>11, <1>12, <2>2, <3>1, <3>2, <3>3, OneCorrelated
  <2> QED
    BY <2>1, <2>2
<1>14. LedgerOK'
  BY <1>11, <1>13, LedgerKept DEF IInv, Writes
<1>15. attempt'[k] = row
  BY <1>11 DEF Writes, IInv, ProcessesOK
<1>16. CallsOK'
  <2>1. CASE Tell(a, row) /\ UNCHANGED faults
    BY <1>1, <1>2, <1>10, <1>13, <1>15, <2>1, Told
  <2>2. CASE Goes(a, "failed") /\ Spend /\ UNCHANGED told
    <3>1. faults' \in Nat /\ "failed" \in Stages /\ told' \ told = {} /\ "failed" # "answered"
      BY <1>1, <2>2 DEF Spend, Stages
    <3>2. call[a].stage # "idle"
      OBVIOUS
    <3> QED
      BY <1>1, <1>13, <2>2, <3>1, <3>2, GoesOn
  <2> QED
    BY <1>11, <2>1, <2>2
<1> QED
  BY <1>13, <1>14, <1>16 DEF Goal, IInv

LEMMA CorrelateStep ==
  ASSUME IInv, NEW a \in Actors, Correlate(a)
  PROVE  Goal
<1>1. call[a].stage = "locking" /\ CallsOK /\ ProcessesOK /\ faults \in Nat
  BY DEF Correlate, IInv, CallsOK
<1>2. CASE Goes(a, "failed") /\ UNCHANGED <<database, told, faults>>
  <2>1. AttemptsKept /\ faults' \in Nat /\ "failed" \in Stages
    BY <1>1, <1>2 DEF AttemptsKept, database, Stages
  <2>2. CallsOK'
    BY <1>1, <1>2, <2>1, GoesOn
  <2> QED
    BY <1>2, <2>2, QuietStep
<1>3. CASE Recorded(a) /\ Replay(a) /\ UNCHANGED <<database, faults>>
  <2>1. UNCHANGED <<attempt, faults>> /\ call[a].stage # "idle"
    BY <1>1, <1>3 DEF database
  <2>2. CallsOK'
    BY <1>1, <1>3, <2>1, Replayed
  <2> QED
    BY <1>3, <2>2, QuietStep
<1>4. CASE ~Busy(a) /\ ~Recorded(a) /\ Record(a)
  BY <1>1, <1>4, RecordStep
<1> QED
  BY <1>2, <1>3, <1>4 DEF Correlate

-----------------------------------------------------------------------------
(* Every step.                                                              *)

LEMMA NextIsGoal ==
  ASSUME IInv, [Next]_vars
  PROVE  Goal
<1>1. ASSUME NEW r \in Receivers, StartReceiver(r) \/ Incorporate(r) \/ CancelReceiver(r)
      PROVE  Goal
  BY <1>1, ReceiverStep
<1>2. ASSUME NEW m \in Messages, ThrowMessage(m) \/ ExpireLease(m)
      PROVE  Goal
  BY <1>2, QueueStep
<1>3. ASSUME NEW a \in Actors, Step(a) \/ Crash(a)
      PROVE  Goal
  BY <1>3, CallStep, CorrelateStep DEF Step
<1>4. ASSUME NEW c \in Clients, Send(c) \/ Receive(c)
      PROVE  Goal
  BY <1>4, ClientStep
<1>5. ASSUME NEW w \in Workers, Claim(w) \/ Conclude(w)
      PROVE  Goal
  BY <1>5, ClaimStep, ConcludeStep
<1>6. CASE UNCHANGED vars
  <2>1. UNCHANGED database /\ UNCHANGED <<call, told, faults>> /\ AttemptsKept
    BY <1>6 DEF vars, database, AttemptsKept
  <2>2. faults' \in Nat
    BY <2>1 DEF IInv, CallsOK
  <2>3. CallsOK'
    BY <2>1, <2>2, CallsKept DEF IInv
  <2> QED
    BY <2>1, <2>3, QuietStep
<1> QED
  BY <1>1, <1>2, <1>3, <1>4, <1>5, <1>6 DEF Next

LEMMA InitIsFine ==
  ASSUME Init
  PROVE  IInv
<1>1. ProcessesOK
  <2>1. instance \in [Receivers -> Instance] /\ subscription \in [Receivers -> [Revisions -> Subscription]]
    BY Bounds DEF Init, Instance, InstanceStatus, Subscription
  <2>2. \A k \in IdempotencyKeys : attempt[k] = Null
    BY DEF Init
  <2>3. TargetsAreOutcomes /\ CommandsAreSpent /\ NothingBeforeTheStart
    BY <2>2 DEF Init, TargetsAreOutcomes, CommandsAreSpent, NothingBeforeTheStart
  <2>4. Correlated = {}
    BY <2>2 DEF Correlated
  <2>5. OneContinuation
    BY <2>1, <2>4 DEF Init, OneContinuation
  <2> QED
    BY <2>1, <2>3, <2>5 DEF Init, ProcessesOK
<1>2. LedgerOK
  BY NotFinal DEF Init, LedgerOK, Delivery, ThrownHaveKeys, LedgerTellsOutcome
<1>3. CallsOK
  BY IdleIsCall DEF Init, CallsOK, CallsHaveSources, SameAnswer
<1> QED
  BY <1>1, <1>2, <1>3 DEF IInv

THEOREM InductiveInvariant == SafeSpec => []IInv
<1>1. Init => IInv
  BY InitIsFine
<1>2. IInv /\ [Next]_vars => IInv'
  BY NextIsGoal DEF Goal
<1> QED
  BY <1>1, <1>2, PTL DEF SafeSpec

\* All state has its type (the rows of correlateMessage and of the message
\* dispatch, and every call).
THEOREM DispatchIsTyped == SafeSpec => []TypeOK
<1>1. IInv => TypeOK
  BY DEF IInv, ProcessesOK, LedgerOK, CallsOK, TypeOK
<1> QED
  BY <1>1, InductiveInvariant, PTL

\* A message continues a process at most once, in the checkpoint that waited
\* for it (correlateMessage and the commit of its command).
THEOREM MessageContinuesOnce == SafeSpec => []OneContinuation
<1>1. IInv => OneContinuation
  BY DEF IInv, ProcessesOK
<1> QED
  BY <1>1, InductiveInvariant, PTL

\* A settled delivery shows what its attempt recorded (settleMessageDelivery).
THEOREM LedgerIsTrue == SafeSpec => []LedgerTellsOutcome
<1>1. IInv => LedgerTellsOutcome
  BY DEF IInv, LedgerOK
<1> QED
  BY <1>1, InductiveInvariant, PTL

\* A repeated request gets the recorded answer, and only the one to the
\* request that was sent (the idempotency key of correlateMessage).
THEOREM AnswersRepeat == SafeSpec => []SameAnswer
<1>1. IInv => SameAnswer
  BY DEF IInv, CallsOK
<1> QED
  BY <1>1, InductiveInvariant, PTL

\* Only its worker, or a claim after its lease expired, ends a claim, and a
\* settled delivery stays (claim, settle and retry of message deliveries).
THEOREM ClaimsStayWithWorkers == SafeSpec => ClaimsAreRespected
<1>1. IInv /\ [Next]_vars => RespectsClaims
  BY NextIsGoal DEF Goal
<1>2. SafeSpec => [][RespectsClaims]_vars
  BY <1>1, InductiveInvariant, PTL DEF SafeSpec
<1> QED
  BY <1>2 DEF ClaimsAreRespected, RespectsClaims

\* A command is only ever accepted for the current, idle wait of a process, and
\* as the only match (the locked rows of correlateMessage).
THEOREM OnlyTheActiveWait == SafeSpec => CorrelatesTheActiveWait
<1>1. IInv /\ [Next]_vars => ActiveWait
  BY NextIsGoal DEF Goal
<1>2. SafeSpec => [][ActiveWait]_vars
  BY <1>1, InductiveInvariant, PTL DEF SafeSpec
<1> QED
  BY <1>2 DEF CorrelatesTheActiveWait, ActiveWait

=============================================================================
