# Wanaflow: formal model

TLA+ modules, TLC runs and TLAPS proofs about the parts of Wanaflow where
several people, web requests and worker processes act on the same rows at the
same time. Everything is translated from the TypeScript and the SQL below
`src/`; `PROJECT.json` maps each definition to the lines it stands for.

- [The system](#the-system)
- [Modules](#modules)
- [Runs](#runs)
- [Bounds](#bounds)
- [Fairness](#fairness)
- [Proofs](#proofs)
- [Where the code and its documents disagree](#where-the-code-and-its-documents-disagree)
- [Not modelled](#not-modelled)
- [Plan](#plan)

## The system

Wanaflow lets teams draw BPMN processes, DMN decisions and forms, review and
publish them, deploy a publication into an environment and run the processes
there. There are four kinds of process: the browser (Studio, AI chat), the
Next.js web application (pages and REST API), runtime workers (`apps/worker`)
and job workers of the customer (`packages/job-worker`). They share nothing but
a PostgreSQL database; almost all state changes are transactions in
`packages/db` under READ COMMITTED. Messages pass as rows (commands, work,
deliveries, notifications) or as HTTP requests with retries.

| Component | State | Operations | Hard behaviour | Correct means |
| --- | --- | --- | --- | --- |
| Process runtime (`runtime.ts`) | instance status and revision, pending command, commands, durable work, checkpoints, wait rows, projection hash, incidents | start, complete task, cancel, claim, advance, commit, fail | workers read a claim, run the engine without a lock and commit later; leases expire; workers crash | one continuation per checkpoint, a stale worker never commits, the checkpoint stays a verified recovery record, terminal is final |
| Runtime worker (`apps/worker`) | nothing durable | fire due timer, run one work item, dispatch one delivery | may stop between any two statements | every accepted command settles |
| Timers (`timers.ts`) | timer rows | accept a due timer | two workers see the same timer | the timer continues its process once |
| Execution profile (`profile.ts`) | none | check a model | graphs with cycles, gaps, several starts; files with several processes | exactly lines are accepted, and every wait on them is bound |
| External jobs (`external-jobs.ts`) | jobs, deliveries, tokens, attempts, cycles, credentials | lock, heartbeat, complete, fail, retry, revoke | leases, late and repeated requests, lost answers, cancellation and revocation in between | one outcome per job, the confirmed one; no job is stranded |
| Job worker client (`packages/job-worker`) | session: handler, heartbeat, token | lock, run, report | heartbeat and completion overlap | never reports what it did not do |
| Messages (`message-*.ts`) | subscriptions, attempts, delivery ledger | throw, claim, correlate, settle, release | snapshot and lock see different rows, repeated keys, dispatcher crash between correlation and settlement | a message continues one process once, repeats get the same answer, every delivery settles |
| Human tasks (`runtime.ts`) | assignee, status, assignment history, inbox | create with a checkpoint, hand over, claim, complete | ownership read before the transaction; the process cancelled meanwhile | history is a chain, only owners complete, an accepted answer counts, who is handed a task is told |
| Artifacts (`artifacts.ts`) | revisions, draft head | create, save | saves race with reviews and with each other | reviews pin what was the head; nothing is overwritten unseen |
| Reviews (`reviews.ts`) | status, manifest, reviewers, comments | request, comment, resolve, decide, cancel | comment against approval, decision against cancellation | approval is independent, closed stays closed |
| Releases (`releases.ts`) | publications, versions, deployments | publish, deploy | two publications number the same dependency; reads older than the lock | only approved manifests, versions 1, 2, ... |
| People (`people.ts`, `authorization.ts`, accept route) | accounts, memberships, invitations, groups | invite, revoke, expire, accept, change group | an account is created before, and taken back after, a transaction that may fail | who accepted can sign in; authority is not handed on across workspaces |
| Decisions (`dmn.ts`, `decision-evaluations.ts`) | evaluations by idempotency key | parse, evaluate | equal requests at once; rules that fail | the table decides; one key, one answer |
| Process starts (`startProcessInstance`) | instances by idempotency key and by business key | start | two unique indexes, a lookup before the transaction | one key, one answer |
| Studio editors (`studio-workspace.tsx`, `form-studio-workspace.tsx`, `dmn-studio-workspace.tsx`) | canvas, saved revision, recovery copy | edit, save, autosave, sync, reload, recover | answers arrive after further edits; heartbeats tell of newer revisions | idle editors catch up, unsaved work is sent or shown as unsaved |
| Element panel (`bpmn-canvas.tsx`, `packages/modeling`) | attributes of an element, command stack | apply, undo, change the kind of event | four readers of one attribute | what is shown and applied is what is run |
| Presence (`collaboration.ts`, `use-artifact-presence.ts`) | presence entries | touch, leave | requests out of order | part of the editors |
| AI experiences (`ai-experiences.ts`, artifacts route, workspace component) | artifacts and links, transcript, answers, review requests | shape, create or update form, undo; ask, choose, approve | tool calls in two pages that race for a key or break off between two transactions, pages closed half way, debounced transcripts | the keys that an assistant is given lead back to their artifacts; the assistant is told what is on record |
| Draft simulation (`process-simulation.tsx`, route, `simulations.ts`) | the envelope in the page | start, resume, restart | the draft and its decision are saved between steps | one path of one source |
| Notifications (`notifications.ts`) | inbox rows with dedupe keys | insert, mark read | repeats | owners are told |

How they interact: a user or API call, a due timer, a job completion or a
correlated message each insert one *command* and one *work row* and set the
instance's pending pointer. A runtime worker leases the work row, replays the
envelope in the engine, and its commit consumes the wait, writes the next
checkpoint and creates the next wait: a task (with an owner and
notifications), a job (with a delivery), a timer or a subscription. A message
throw passed on the way becomes a delivery row, dispatched by the worker
through the same correlation the API uses. Deployments decide which model an
instance runs; publications, which revisions a deployment contains; reviews,
what may be published. Editors, AI tools and previews meet at the artifact
revisions: each save carries the revision it started from.

## Modules

| Module | Models | Composition |
| --- | --- | --- |
| `InstanceLifecycle` | abstract promise of one instance: phases, checkpoints, at most one accepted trigger in flight | refined by `RuntimeCore` |
| `RuntimeCore` | runtime, timers, worker loop | `INSTANCE InstanceLifecycle` |
| `ExecutionProfile` | `assertRuntimeProfile` | justifies the constant `Path` of `RuntimeCore` |
| `ExternalJobs` | job ledger, credentials, HTTP requests and client sessions together | the runtime appears as `ApplyCompletion` and `QuarantineCompletion` |
| `MessageDispatch` | receivers, throws, ledger, dispatchers and API clients | the receiver's runtime appears as `CommitReceiver` and `FailReceiver` |
| `TaskAssignment` | owners, history, groups, inbox, two-step calls | the runtime appears as `Commit` and `Quarantine` |
| `ReviewRelease` | drafts, reviews, publications, deployments | |
| `Studio` | editors of a draft, their requests, autosave, heartbeats, recovery | teammates appear as `TeammateSaves` |
| `ModelBindings` | attributes of an element between panel, validation, profile and engine | its `WaitsAreBound` is what `RuntimeCore` takes for granted of `Path` |
| `AiArtifacts` | tool calls that create and revise artifacts | people who save appear as `Edit` |
| `AiConversation` | questions, answers on record, review requests, transcripts | |
| `People` | accounts, memberships, invitations, the accept route | |
| `Requests` | idempotency keys of decision evaluations and process starts | |
| `DecisionTable` | parsing and evaluating a DMN table rule by rule | the evaluation that `Requests` stores |
| `DraftSimulation` | the preview of a draft, step by step | |
| `Workspace` | eight components that share no state, as one system that is one of them | extends `ExecutionProfile`; instances of the last seven modules above except `Studio`, those with theorems through their proof modules |
| `MC...` | model values, symmetry and input sets for TLC | one for a module that needs them |
| `...Proofs` | theorems and proofs | extend the module they are named after; `RequestsProofs` is about `DecisionTable` and `DraftSimulation` too, `CollaborationProofs` about `People`, `AiConversation` and `AiArtifacts`, `WorkspaceProofs` about `ExecutionProfile`, `ModelBindings` and `Workspace` |

### RuntimeCore

`status`, `revision`, `pending` and `activeToken` are columns of
`process_instances`, `command` is `runtime_commands`, `work` is `durable_work`,
`waits` are the rows of `process_tasks`, `process_jobs`, `process_timers` and
`message_subscriptions`, by the checkpoint that created them, `claim` is what
a worker remembers in memory. Every action on the database is one
transaction. All of these transactions lock the instance row they read, so
steps of one instance are serial; a worker holds nothing between `ClaimWork`,
`Advance` and `CommitWork` or `FailWork`, and there `ExpireLease`,
`CrashWorker` and other workers come in. `Advance` reads the projection
outside a transaction, and so may see a checkpoint another worker has just
replaced. `Path` is the sequence of waits of the deployed model: variables,
events and the engine's envelope are determined by the checkpoint.

### ExecutionProfile

One action for each check in order and one step for each iteration of the
walk. A model is the number of its executable processes and the elements and
flows of the first. Whether the bindings of its waits can be read is one
question for each element here; `ModelBindings` answers it.

### ExternalJobs

`delivery[j][k]` is the k-th row of `external_job_deliveries` of job `j`;
`session` is what `work()` keeps while it processes one job, `network` the
requests under way. A request can be lost, can arrive twice, and its answer can be
lost; the client then behaves as for a refusal, as the code does. `Serve...`
are the transactions of the server. A session has one credential at a time; a
revocation counts as a fault and never takes the last one.

### MessageDispatch

`correlateMessage` is split where PostgreSQL lets others in: the lookup of the
key, the snapshot of candidates, the locks with re-check. `told` records what
clients have been answered.

### TaskAssignment

`BeginAssign`, `BeginClaim`, `BeginComplete` read what the operation reads
before it locks the task; `Assign`, `Claim`, `Complete` re-read the locked row
and write. `binding` is chosen at start: starter, person or group. Between two tasks
the instance may wait for a job, a timer or a message (`event`); `AcceptEvent` is the
command that ends such a wait. Its `actor`, which the next task is created by, is
the creator of the worker's credential, the starter or the sender of the message:
a person who has not acted. `createdBy` of a task is a history variable that keeps
this name.

### ReviewRelease

`BeginReview` and `BeginPublish` take the snapshot of the locking statement;
`LockRoot`, `LockReview`, `LockArtifact` wait for row locks. `DeadlockAbort` is
PostgreSQL choosing a victim.

### Studio

A source is the set of edits it contains, so that a lost edit can be seen.
Requests and answers are steps of their own (`ServeSave`, `Answered`): an
answer is applied to the tab as it is when it arrives, also when the page has
been edited or left since. `Beat` and `LateAnswer` are the heartbeat that
brings news of newer revisions. Process drafts have the recovery copy and the
sync of `studio-workspace.tsx`, forms and decisions only the autosave of their
editor.

### ModelBindings

Each attribute is a text of a small set: missing, good, another good one, or
one that some reader refuses. An `Apply...` action is a button of the panel
and the commands it puts on the stack of bpmn-js, one for each `modeling`
call; `Undo` takes back one of them. `Morph` is the replace menu of bpmn-js, which
may start an event of another kind from nothing (`NoEvent`). `Shown` is what the panel shows,
`Valid` what `validateBpmnXml` checks, `Startable` what starting checks, `Run`
what the engine adapter waits for. Texts of blanks only are left out.

### AiArtifacts and AiConversation

The first follows a tool call through the route: `Shape` in the page, `Read`,
`Save` or `Create`, `Link`, `Answer`; after each of them the call may `Fail`,
whatever it has done. A key is a sequence: a name, and the experiences whose suffix
`experienceScopedKey` has put behind it. The assistant may ask for a plain key or for
any key that exists (`Askable`): it is shown the keys of its artifacts and
answered with them. `answered` is a history variable, what assistants have been told. The second follows the two tools that wait
for a person; a transcript is the set of questions it holds and what the
assistant was told, it is sent after a pause (`SendTranscript`) and arrives
late or never (`Arrive`, `Lose`).

### People

The accept route is `Open` (reads the invitation), `CreateAccount`, `Accept`
(the transaction) and, if that fails, `CleanUp`; `Stop` is a server that ends in
between. `Context` is `resolvePrincipalContext`: the first membership
by workspace decides what a request may do.

### Requests and DecisionTable

`LookUp` reads the key before the transaction, `Insert` is the transaction that
meets the unique indexes, `Reload` the read after the violation. A retry is another
call with the same key. `DecisionTable` has one step for each rule (`Test`); a FEEL
cell is the set of values it accepts, or `Failing`.

### DraftSimulation

The server keeps nothing: `Start` and `Resume` read the draft and the decision
as they are then, and the envelope in the page carries the hash of its source.

## Runs

Passing runs:

| Run | Question | Properties |
| --- | --- | --- |
| `runtime` | Do checkpoints, commands, leases, incidents and projection stay consistent while one instance passes every kind of wait and two workers lease, crash and reclaim; does every accepted command settle; is `InstanceLifecycle` implemented with its progress (and so a finished instance final)? | `InFlightAgrees`, `ProjectionHonest`, `OneContinuation`, `OneWriter`, `IncidentsAreReal`, `EveryCommandSettles`, `ImplementsLifecycle` |
| `jobs` | Does a job have one outcome, the one confirmed to a worker; are attempts counted right over retry cycles; is no job left without a delivery, and every deliverable job completed, exhausted or withdrawn? | `NeverStranded`, `AttemptsAccounted`, `OneOutcome`, `ConfirmedIsOutcome`, `SettledIsFinal`, `EveryJobConcludes` |
| `messages` | Does a message continue one process once; does the ledger show what was recorded; do repeats and reuses of a key get the recorded answer; are claims respected; is only the current wait correlated; does every queued message settle? | `OneContinuation`, `LedgerTellsOutcome`, `SameAnswer`, `ClaimsAreRespected`, `CorrelatesTheActiveWait`, `EveryMessageSettles` |
| `task_ownership` | Is the history a chain from the first owner to the present one; is a task completed by one of its owners only; does an accepted answer count; is an owner told who has not taken the task, unless it was created theirs by a command in their name? | `HistoryIsChain`, `CompletedByAnOwner`, `OwnersWereTold`, `AcceptedAnswerCounts` |
| `release_governance` | Are publications approved, unique and numbered, approvals independent, sources reviewed once, reviews pinned to the heads? | `PublicationsAreEarned`, `ApprovalIsIndependent`, `SourceReviewedOnce`, `PinsTheHeads` |
| `studio` | Does an idle editor reach the newest revision, and does a change that waits for autosave reach the server, or stay in an editor that says it is not saved, without anybody pressing a button? | `EditorsCatchUp`, `UnsavedWorkIsSentOrShown` |
| `workspace` | Eight components without common state, see below | eleven |

`workspace` is one run over a sum: `part` says which of the components a
behaviour belongs to, `v1` to `v7` are its variables. Its properties, each
about one part: `AcceptsExactlyLines` (the profile accepts exactly the
lines), `ShownIsRun` and `AppliedIsRun` (panel, file and engine agree),
`WaitsAreBound` (what may be started meets no wait without a binding),
`DecidedByTheTable` (rule by rule is the whole table), `KeysLeadBack` (asked
again under a key that it is shown or was answered, fallback keys too, the route finds
the artifact the key was given for, and the revision of a result holds what the call
generated), `ToldIsOnRecord` (the assistant hears
only recorded answers), `AcceptedCanSignIn` and `AuthorityIsHandedOn` (people),
`RetriesAgree` (one key, one answer) and `JourneyIsOnePath` (a preview is a path of
one source).

Each property of a passing run is accompanied by a mutant of the code (a
dropped fencing comparison, a re-check left out, a lock taken on too little)
under which TLC finds it violated: `PROJECT.json` lists them under `mutants`,
the mutated operators stand in the modules before the definition they mutate.
A type invariant is stated for every component; TLC finds none of them violated on
these instances, and they are not repeated among the properties of the runs.

Five runs show a violation, see
[below](#where-the-code-and-its-documents-disagree):
`task_handover_after_cancel`, `release_manifest_author`,
`release_repeated_source`, `studio_lost_edit`, `profile_counts`.

## Bounds

- `runtime`: one instance with a user task, a job, a timer and a message;
  five commands, as many as it needs, or one quarantined less; two workers,
  because the hazards are between a stale owner and its replacement; three
  leases a work row (`MaxClaims`), so that a worker can be overtaken twice.
  Instances share no row, so one is enough here; the proof covers any number.
- `jobs`: one job, two attempts a cycle and four deliveries, so two
  cycles; two sessions, two results (to tell an outcome from another), tokens
  up to 2 by heartbeats, one fault (a crash, a loss, a duplicate, a revocation
  or an early expiry) beside everything that happens in time.
- `messages`: two receivers (ambiguity), one message with its own key and one
  API key that a client repeats for the same and another request, two
  dispatchers, two values, receivers that move on once, one fault.
- `task_ownership`: two people, a group, two tasks (the second one's owner
  depends on who completed the first), any number of jobs, timers and messages
  before, between and after them, two concurrent calls, two hand-overs of the first
  task (`Movable`: of a task that has had them no call begins).
- `release_governance`: three people, a process and the decision it references,
  three sources, up to three revisions each, two reviews, two concurrent
  requests or publications, one comment, one deployment.
- `studio`: one tab on a process or a form, one edit of its own and one of
  others, four revisions, one request at a time beside heartbeats, one lost
  request or answer. More tabs are teammates to each other.
- `workspace`: every graph of up to four elements and three flows; every form
  of one element and every pair of elements; tables of two rules over two
  inputs with failing cells; two pages of one experience with three
  tool calls, three artifacts of two revisions and one name, which another artifact
  may have already (a call that breaks off, its repetition under the fallback
  key and a call with that key; a save on an old head, and one of an earlier
  source); one question with two answers in two pages; two workspaces, two invitations and three people (the
  product creates one workspace in an organization, its schema and tests allow
  several); three sources with a decision; three calls of one key or none.
  The comments of `MCWorkspace` and of the modules it extends name each.

Faults are bounded because each is a cost of its own and they do not add up:
the properties are about one process overtaking another, and each bound lets
one overtake and come back. Counters (`token`, attempts, revisions) are
bounded by these constants in the guards. `CHECK_DEADLOCK FALSE` stands in all
runs but `profile_counts`: everywhere else the system may come to rest, when all
instances have ended, all questions are answered or all bounds used up.

## Fairness

- `RuntimeCore`: weak fairness of each worker's step (the loop of
  `main.ts` runs until it is told to stop and polls when idle) and of lease
  expiry (time passes). Nothing is assumed of users, timers or cancellation,
  and crashes are not fair.
- `InstanceLifecycle`: what is accepted settles.
- `ExternalJobs`: sessions poll and get a credential if they have none (the
  operator who revokes one to replace it), handlers return or throw, requests
  under way arrive or are lost, leases expire, the runtime incorporates.
  Operator retries are not assumed; an exhausted job therefore counts as
  concluded.
- `MessageDispatch`: the dispatcher and the receivers' runtime make steps,
  leases expire. Clients owe nothing.
- `Studio`: the server takes requests, answers arrive or fail, the heartbeat
  and autosave timers of the browser fire. Nothing is assumed of the person: no
  save, no reload, no choice in a dialog.

Only weak fairness is used. Each assumption is a loop, a timer or a clock of
the code; none is a lock being granted against competition. The other modules state
safety only.

## Proofs

Everything is checked by `tlapm` from nothing but the library's theorems on
finite sets, sequences and well-founded induction and the assumptions on
constants in the modules. The theorems are for every value of the constants: any
number of people, workers, calls, rules.

`RuntimeCoreProofs` proves `Spec => []IInv` for any sets of instances,
commands and workers, any path of waits and any number of leases
(`PathAssumption`, `MaxClaimsAssumption`, `NullAssumption`). The safety
properties of the run are conjuncts or consequences of `IInv`: `TypeOK`,
`InFlightAgrees`, `ProjectionHonest`, `OneContinuation`, `OneWriter`,
`IncidentsAreReal`. They are not inductive by themselves. What makes them so:

- `CommandRows`: a command row belongs to an instance and was accepted against
  a checkpoint that is not newer than the present one;
- `PhaseShape`: which revisions a status allows;
- `ClaimsRemember`: what a worker remembers was true when the lease was
  granted, and its token is not newer than the row's;
- `Fenced`: one token, one worker, and instance, command and work row carry the same
  token while a command is in flight.

The step goes through one lemma for each action. `OneWriter` then follows
because a worker that passes the compare-and-swap carries the instance's
active token for the pending command, and `Fenced` gives that token to one
worker only. That no false verdict opens an incident follows from
`ClaimsRemember`: the projection a worker expects differs from the stored one
only if the revision has moved, and then the compare-and-swap fails.

From the same invariant follow `Finality` (a finished instance is never
changed, which the refinement contains) and `Implements`, the safety part of the
refinement: initial states map to initial states, each step maps to a step of
`InstanceLifecycle` or a stutter.

`ExternalJobsProofs` proves all five invariants (with `TypeOK`) and the action
property of the run `jobs`, for any number of jobs, sessions, attempts in a cycle,
deliveries and faults. `IInv` speaks of one job at a time (`JobOK`), and a step of one
job leaves the others as they are (`JobUntouched`). To what the run checks it adds

- `IncidentsAreEarned`: an incident that an operator may retry stands on a
  job without an outcome whose last delivery failed as the last attempt of its cycle.
  Without it a retry could give a second outcome, or a cycle begin before the
  one before it is full;
- in `CyclesAreFull`, that rows after the last attempt are empty: the next
  delivery starts from nothing;
- `ClientsTyped`: a session that works has a job and an attempt, so whatever comes
  over the network names a row. No more is needed of requests: any that could be made
  may arrive at any time, late or twice, and the guards of the server alone keep
  the ledger true.

`MessageDispatchProofs` proves the invariants and both action properties of the run
`messages`, for any finite set of receivers (`ReceiversAssumption`: a count
decides between no match, one and several), any messages, keys, workers and clients.
The invariant has three parts that depend on each other in one direction only:
processes and attempts (`ProcessesOK`), the queue (`LedgerOK`), calls and
answers (`CallsOK`). Attempts are only added (`AttemptsKept`), which is why ledger and
answers stay true. `OneContinuation` needs `CommandsAreSpent`: a subscription that
got its command belongs to a checkpoint that its process has left, or to one with a
command in flight, so no later lock finds it open; and `TargetsAreOutcomes`, that
exactly the correlated attempts name a target. `CorrelatesTheActiveWait` is proved of
the step that inserts a command, from the locks its call holds at that moment.

`ReviewReleaseProofs` proves the invariants and the action property of the run
`release_governance`, for any artifacts, people, reviews and any finite set of
concurrent calls (`CallsAssumption`: the bound on reviews counts the requests under
way). Its invariant relates the tables to what transactions hold:

- `RevisionsOK`: sources of an artifact differ (the unique index), and revisions are
  added only (`Grown`), so what a review pinned is what it was (`PinnedStays`);
- `ReviewOK`: everything a review pins but its root is valid, and an open review
  has no decision. The first makes an approval valid although only the root is checked
  again; the second makes a decision that an older snapshot saw the one of the review;
- `RequestOK`: once a request holds its root, the root is the head it saw and nobody
  reviewed it, and both last until it commits: saving waits for the lock, and another
  request that would pin the same root waits too;
- `PublishOK`: a publication that holds its review publishes what was approved and
  what nobody published; one that holds its artifacts has the next version of each;
- `LocksExclude`: two transactions hold no artifact and no review in common. It is what
  keeps the numbers of `PublishOK` right while others publish: a publication that numbers
  an artifact holds it (`VersionsGrow`).

`SourceReviewedOnce` is then two facts about keys: revisions have different sources, and
no revision is the root of two reviews.

`WorkspaceProofs` first proves, for every finite set of elements and every
model over it, that the checks accept exactly the models that are one line
(`Profile`) and that the walk never comes back (`NeverReturns`). An accepted
model is a line because of the invariant `Trail`: visited elements are
distinct and each is the successor of the one before it. A line is accepted
because along any arrangement that exists the walk can only follow it
(`Follows`). `NeverReturns` uses that the start has no incoming flow and every
other element only one, so the loop's own test for visited elements never
decides; cycles can only lie beside the line, and the comparison of counts
finds them.

`TaskAssignmentProofs` proves all four properties of its run. `Order` says
that tasks are created one after the other and that a call names a task that
exists; `Answering`, that whoever is about to complete, or has been accepted to,
has owned the task. The last is what the check before the transaction is worth:
the assignee may have changed since, but has been in the history
(`AssigneeOwns`), which only grows. For `Telling`, a hand-over is followed
through `Told`: a new owner is notified or took the task personally, and an owner who
was told stays told because no later commit touches an earlier task. Whose name a
command bears is arbitrary in it, so the commits after jobs, timers and messages are
covered; what it cannot give is that an owner by creation knows of the task, and the
theorem says so with `createdBy`.

The proofs about the components of `Workspace` stand in three modules, and
`Workspace` instances these instead of the components. So the last theorems of
`WorkspaceProofs` are about the very definitions that the run `workspace` checks:
by `ComponentsHold` the invariant of the component that runs holds in every state,
and `PeopleSignIn`, `AuthorityStays`, `AssistantIsToldRecords`, `KeysAreKept`,
`RetriesGetOneAnswer`, `TableDecides`, `PreviewIsOnePath`, `PanelShowsTheRun`,
`PanelSetsTheRun` and `CountingIsEnough` follow. What the components assume of
constants (`Founded`, `AnswersApart`, `Deployable`, `Enveloped`, `ContractsApart`,
`Typed`) are ASSUMEs of `Workspace`, which TLC evaluates in that run.

`RequestsProofs` proves `Agreement`: by `RowsOk` no two rows carry one key in
one scope, and a row records the request it answered; by `Reasons` every
call stands where it stands because of what is in the rows, which are
only added to. It assumes `AnswersApart`: the id of a row is not a refusal.

The same module proves `Decided` of `DecisionTable`, for tables of any number of rules
and inputs (`Deployable`: what is deployed has the form of a table). The
invariant says that `matching` holds the rules before `rule` that match;
`RuleByCells` takes the cells of one rule together and `Least` is why
the first match is the one a FIRST table names.

Its third part proves `OnePath` of `DraftSimulation`, for any sources with any numbers
of waits (`Enveloped`: no envelope is not an envelope). The server keeps nothing
between two requests, so `PreviewInv` speaks of the call under way (`StepInv`): it goes on from
where the page stands, and the decision that it has read is as young as any along the
journey. That the order of decisions holds then needs `JourneyIsSaved`: no decision
along the journey is younger than the head, whatever is saved meanwhile.

`CollaborationProofs` proves `SignIn` and `Authority` for organizations with any
founders whose rows are in order (`Founded`). The two invariants carry each
other: an invitation that is accepted has a membership behind it, memberships
are never removed, and `Removable` lets a request take back only an account
without one. `Quiet` covers the steps that touch no membership.

For `AiConversation` it proves `Told`, for any pages, questions and answers. By
`TalkInv` every transcript, saved, on its way or in a page, tells only what is on
record, and every prompt is about to send what the step before it has put there. As the record
only grows (`RecordGrows`), a transcript that arrives late or not at all changes nothing
about it. For `AiArtifacts` it proves `Revisable`. `ToolsInv` says that
a key names one artifact, that an experience has one main process at most, and what a
call holds from step to step (`CallOk`): an artifact it saves to or answers with is
linked in its role, and the revision it names holds its source. Keys, revisions
and links are never taken back (`Grown`), so this stays true while other pages
and people act (`ToolsGrow`), of a call under way and of a result (`ResultOk`). The unique
indexes decide when a call creates (`KeyIsTried`) and when it links (`Links`); which of the
two keys it created under makes no difference.

The bindings in `WorkspaceProofs` are two facts and one invariant. `ElementShown` and
`BoundWaits` need no history: they hold of any attributes, type by type, because what
validation accepts leaves only such texts on which the readers agree, and because a
subset of the bindings that is as large as the set of waits is that set. `AppliedIsRun` needs
`BindingsInv`. Its part `AppliedRuns` says that the present element runs what was
applied; each command of the panel establishes it (`AppliesForm` to
`AppliesMessageThrow`), and taking back a command or changing the kind forgets what was
applied. `ElementOk` and `MessagesOk` carry it over saving and reading: the message
that the file came with is first and all later ones share an id, so two are read at most,
and the element finds its message where it was (`FirstsAreRead`, `Positions`, `Reloads`).
An applied message whose file would lose one is excepted by the property (`AllRead`).

All theorems are about the specifications that the runs check, without their
fairness. TLC finds the inductive invariants of `ExternalJobs`, `MessageDispatch` and
`ReviewRelease` true on the instances of their runs.

Only model-checked: liveness and the progress part of the refinement (the
prover has no rules for `ENABLED` and fairness here), that is
`EveryCommandSettles`, `EveryJobConcludes`, `EveryMessageSettles`,
`EditorsCatchUp` and `UnsavedWorkIsSentOrShown`, and what the five runs that expect a
violation show. Every other property of a passing run is stated by a theorem. No
theorem is about `Studio`, whose two properties are liveness.

## Where the code and its documents disagree

With a run that shows it:

- *A task is handed over although its process has been cancelled*
  (`task_handover_after_cancel`). `updateProcessTaskAssignment` locks the task
  only and checks an instance status that its statement's snapshot saw
  (runtime.ts:1102-1110), while a cancellation changes only the instance row.
  The error message of the same function says that only a task at the active
  process wait can be reassigned.
- *An approver may have written part of the manifest*
  (`release_manifest_author`). docs/product/mvp.md:167-168 wants an approver
  other than any author represented in the manifest; decideReview looks at the
  author of the root only.
- *Not every save is kept* (`release_repeated_source`). Going back to an
  earlier source meets the unique index on (artifact, hash).
  docs/product/mvp.md:160-161 says every save creates a revision.
- *An edit is lost although the editor says that all changes are saved*
  (`studio_lost_edit`). An edit made after the source was read for a save and
  before the answer leaves the state at "saving"; the answer replaces the
  artifact and the canvas by what was saved (studio-workspace.tsx:448) and the
  label is "All changes saved" (studio-workspace.tsx:713). The run is on a process
  draft; the editors of forms and decisions do the same.
- *A wait without a binding is accepted for starting* (`profile_counts`). The
  profile compares the number of bindings in the whole file with the catch
  events of the process that runs (profile.ts:172), so the binding of a
  participant stands in for one that is missing. Its error says that every
  intermediate catch event must define one (profile.ts:175). `WaitsAreBound` holds for
  files with one process.

Seen while modelling, without a run of its own:

- A START that fails leaves an instance in incident at revision 0, and
  cancellation requires a checkpoint (runtime.ts:788); ADR 0007:168 and
  execution-profile.md:311 promise that it can be cancelled.
- Work that fails is quarantined at once (worker.ts:75); ADR 0007:163 has
  retries before. Quarantined completions cannot be retried by an operator
  either (execution-profile.md:309).
- A repeated completion is accepted although the token has been superseded
  (execution-profile.md:180), by design of the replay.
- A correlation key with white space around it never matches: the subscriber
  stores it as it is, the sender trims (execution-profile.md:227, 254-256).
- A task bound to the starter goes to whoever completed the task before it
  (execution-profile.md:130), because the actor of the command is used.
- A person may own a task without having been told or having done anything. Nobody is
  notified of what is done in their own name (notifications.ts:27), and a task
  created after a job bears the name of who created the worker's credential
  (external-jobs.ts:475), after a timer that of the starter, after a message that of its
  sender (runtime.ts:2034-2038). A task bound to the starter is never announced.
- After one failed save a process draft is not saved again until the user acts:
  autosave runs only in "dirty" (studio-workspace.tsx:496). The editor says so.
- An edit made while a newer revision is being loaded is lost with the canvas that
  the answer replaces (studio-workspace.tsx:513-525).
- A completion is accepted from an owner whose task has just been handed over:
  the assignee is read before the transaction (execution-profile.md:152-155).
- A review request that is overtaken by a save is told that the artifact does
  not exist.
- Two equal completions of a task with one key, at the same time: the second gets
  a conflict, not the stored result (execution-profile.md).
- A member who accepts an invitation with another role keeps the old role; the
  invitation is used up (people.ts:259). With several memberships only the
  first one by workspace gives access (authorization.ts).
- A pending invitation that has expired blocks a new one until it is revoked.
- Two first owners created at the same time can both succeed once an
  organization is present (artifacts.ts:544).
- A heartbeat of a job worker that is rejected while nobody awaits it ends the
  worker's process.
- A heartbeat answer that is late makes an outdated draft look current
  (studio-workspace.tsx:190), and a heartbeat under way when the page is left
  brings the presence entry back (use-artifact-presence.ts:83).
- The event of an AI answer is inserted again when the answer is repeated
  (ai-experiences.ts:228).
- The Undo of an AI tool call saves the source before, and so always meets the
  unique index of `release_repeated_source`.
- Once an artifact of an experience has the fallback key, the assistant must
  use that key: a call under the plain one finds nothing, finds both keys taken, and
  ends in a conflict each time (route.ts:139-145). So does every call under the plain
  key after two that broke off between creating and linking.
- Of two transcripts of one experience the one that arrives later stays, also when it
  is older (ai-experiences.ts:147).
- A decision in which no rule matches leaves the process variable of an earlier one
  in place.
- The decision that a preview uses may be another one at each step
  (`JourneyIsOnePath` is about the process only).

## Not modelled

- BPMN, DMN, form and XML parsing, FEEL, the BPMN engine: libraries or pure
  functions; what they decide enters as constants (`Valid`, `References`,
  `Path`, parsed models, sets of accepted values).
- The role table of `authorization.ts` row by row and sessions: permissions
  appear as guards where they shape a race; `People` has the context and the
  permission to manage members.
- Incident owners and notes, due dates and priorities, audit and outbox rows,
  read marks, bootstrap, creation of projects and environments: rows nothing
  else depends on, or single transactions without competition.
- Project packages: one validation and one transaction.
- Who sees whose presence, and its expiry: only a display.
- In `Requests`, keys shared with commands other than START; in
  `AiConversation`, everything of a transcript but its questions; in `AiArtifacts`,
  decisions, which are shaped as forms are, and the undo of a tool call, which is
  a save that cannot succeed (see above).
- The agent runtime behind the CopilotKit route, inbox, review and operations
  pages, SDK, UI kit, migrations, pool, tooling: no protocol of their own.
- Row locks inside one statement: their order depends on the query plan. Where
  the order is given by the code (publication and review request) it is modelled.
- Time: a lease is live until it expires, anything with a due date may be
  due. The web process's clock can differ from the database's, which
  `ExternalJobs` allows for.

## Plan

Done: all modules above with their runs, and a theorem for each safety invariant and
each action property of a passing run; the safety part of the refinement of
`InstanceLifecycle`.

Proofs to come: types and safety of `Studio` (a saved revision is the one its editor
started from or was told about), on which its liveness rests; an abstract message ledger
that `MessageDispatch` implements, step by step.

Models to come: the lock order of completion, commit and cancellation.
