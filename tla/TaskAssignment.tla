---------------------------- MODULE TaskAssignment ----------------------------
(***************************************************************************)
(* Ownership of human tasks: how the commit of a checkpoint assigns the    *)
(* task it creates, how owners hand it over, how members of a team queue   *)
(* claim it, who completes it, and who is notified.                        *)
(*                                                                         *)
(* One instance walks through tasks 1, 2, ... and waits between them for   *)
(* jobs, timers and messages, whose commands carry the name of somebody    *)
(* who need not know of it.  A public operation locks the task row in the  *)
(* statement that also reads the instance, without locking it: the status  *)
(* it checks is the one of its snapshot.  completeProcessTask checks the   *)
(* assignee before its transaction.  Both are a step of their own here,    *)
(* before the step that writes.                                            *)
(***************************************************************************)
EXTENDS Naturals, Sequences, FiniteSets

CONSTANTS
  People,         \* principals, all of them members of the workspace
  Groups,         \* work_groups
  Workers,        \* people whose role is task-worker; others may assign any task
  Tasks,          \* number of user tasks on the way
  Bindings,       \* possible assignmentBindings of a task
  Calls,          \* concurrent API calls
  MaxHandoffs,    \* bound: assignment events of each task
  Null

ASSUME TasksAssumption == Tasks \in Nat \ {0}
ASSUME WorkersAssumption == Workers \subseteq People
ASSUME BoundAssumption == MaxHandoffs \in [1..Tasks -> Nat]
ASSUME NullAssumption == Null \notin People \cup Groups

VARIABLES
  binding,        \* the assignmentBinding of each task in the deployed model
  instance,       \* process_instances and its pending command
  task,           \* process_tasks
  history,        \* process_task_assignment_events, by task
  members,        \* work_group_members
  inbox,          \* notifications: who was notified of which task
  call            \* what each API call is doing

vars == <<binding, instance, task, history, members, inbox, call>>

TaskIds == 1..Tasks
Binding == [kind : {"STARTER"}] \cup [kind : {"PERSON"}, person : People] \cup [kind : {"GROUP"}, group : Groups]
ASSUME BindingsAssumption == Bindings \subseteq Binding
Status == {"STARTING", "WAITING", "INCIDENT", "CANCELLED", "COMPLETED"}

\* event: the wait is a job, a timer or a message; actor: created_by of the
\* pending command.
Instance == [status : Status, current : 0..Tasks, event : BOOLEAN, actor : People \cup {Null}]
\* createdBy: history, the name on the command whose commit created the task.
Task == [status : {"NONE", "OPEN", "COMPLETED"}, assignee : People \cup {Null},
         initial : People \cup {Null}, createdBy : People \cup {Null}, completedBy : People \cup {Null}]
\* active: history, the instance was waiting when the event was written.
Event == [from : People \cup {Null}, to : People, by : People, active : BOOLEAN]
Notification == [recipient : People, task : TaskIds]
Stages == {"idle", "assigning", "claiming", "completing"}
Call == [stage : Stages, by : People \cup {Null}, task : 0..Tasks, to : People \cup {Null}, active : BOOLEAN]

TypeOK ==
  /\ binding \in [TaskIds -> Binding]
  /\ instance \in Instance
  /\ task \in [TaskIds -> Task]
  /\ history \in [TaskIds -> Seq(Event)]
  /\ members \in [Groups -> SUBSET People]
  /\ inbox \subseteq Notification
  /\ call \in [Calls -> Call]

NoTask == [status |-> "NONE", assignee |-> Null, initial |-> Null, createdBy |-> Null, completedBy |-> Null]
Idle == [stage |-> "idle", by |-> Null, task |-> 0, to |-> Null, active |-> FALSE]

\* createWorkGroup: any members of the workspace to begin with.
GroupsCreated == members \in [Groups -> SUBSET People]

\* Someone has just started the instance.
Init ==
  /\ binding \in [TaskIds -> Bindings]
  /\ \E p \in People : instance = [status |-> "STARTING", current |-> 0, event |-> FALSE, actor |-> p]
  /\ task = [t \in TaskIds |-> NoTask]
  /\ history = [t \in TaskIds |-> <<>>]
  /\ GroupsCreated
  /\ inbox = {}
  /\ call = [c \in Calls |-> Idle]

\* insertNotification: nobody is notified of what is done in their own name,
\* and a notification with the same dedupe key is not repeated.
Notify(recipients, actor, t) ==
  inbox' = inbox \cup {[recipient |-> p, task |-> t] : p \in recipients \ {actor}}

-----------------------------------------------------------------------------
(* The runtime (module RuntimeCore), as far as task ownership is concerned. *)

\* The principal whose command creates the task is taken for the starter.
InitialAssignee(t) ==
  CASE binding[t].kind = "STARTER" -> instance.actor
    [] binding[t].kind = "PERSON" -> binding[t].person
    [] OTHER -> Null

Recipients(t) ==
  IF InitialAssignee(t) # Null THEN {InitialAssignee(t)} ELSE members[binding[t].group]

\* The task that the pending command answers, if it answers one.
Completed(t) == [task[t] EXCEPT !.status = "COMPLETED", !.completedBy = instance.actor]
Closed == [t \in TaskIds |-> IF t = instance.current /\ ~instance.event THEN Completed(t) ELSE task[t]]

Created(t) == [status |-> "OPEN", assignee |-> InitialAssignee(t), initial |-> InitialAssignee(t),
               createdBy |-> instance.actor, completedBy |-> Null]

\* The checkpoint after the pending command: the next task, another wait
\* before it, or the end.
Commit ==
  LET next == instance.current + 1 IN
  /\ instance.actor # Null
  /\ \/ /\ next \in TaskIds
        /\ task' = [Closed EXCEPT ![next] = Created(next)]
        /\ instance' = [instance EXCEPT !.status = "WAITING", !.current = next, !.event = FALSE, !.actor = Null]
        /\ Notify(Recipients(next), instance.actor, next)
     \/ /\ task' = Closed
        /\ instance' = [instance EXCEPT !.status = "WAITING", !.event = TRUE, !.actor = Null]
        /\ UNCHANGED inbox
     \/ /\ next \notin TaskIds
        /\ task' = Closed
        /\ instance' = [instance EXCEPT !.status = "COMPLETED", !.actor = Null]
        /\ UNCHANGED inbox
  /\ UNCHANGED <<binding, history, members, call>>

\* A job is reported done, a timer is due or a message comes.  The command
\* carries the name of whoever created the worker's credential, started the
\* instance or sent the message, whether they know of it or not.
AcceptEvent ==
  /\ instance.status = "WAITING" /\ instance.event /\ instance.actor = Null
  /\ \E p \in People : instance' = [instance EXCEPT !.actor = p]
  /\ UNCHANGED <<binding, task, history, members, inbox, call>>

\* The pending command is quarantined; its task stays open.
Quarantine ==
  /\ instance.actor # Null
  /\ instance' = [instance EXCEPT !.status = "INCIDENT", !.actor = Null]
  /\ UNCHANGED <<binding, task, history, members, inbox, call>>

\* Tasks stay as they are; readers show them as cancelled.
Cancel ==
  /\ instance.status \in {"WAITING", "INCIDENT"}
  /\ instance.current > 0 \/ instance.event
  /\ instance.actor = Null
  /\ instance' = [instance EXCEPT !.status = "CANCELLED"]
  /\ UNCHANGED <<binding, task, history, members, inbox, call>>

\* updateWorkGroup replaces the members.
UpdateWorkGroup(g) ==
  /\ \E set \in SUBSET People : members' = [members EXCEPT ![g] = set]
  /\ UNCHANGED <<binding, instance, task, history, inbox, call>>

-----------------------------------------------------------------------------
(* Public operations.                                                       *)

\* The statement that reads the instance takes its snapshot; completeProcessTask
\* has read no more than the assignee so far.
Begin(c, stage, by, t, to) ==
  /\ call[c].stage = "idle"
  /\ task[t].status # "NONE"
  /\ call' = [call EXCEPT ![c] = [stage |-> stage, by |-> by, task |-> t, to |-> to,
                                  active |-> stage # "completing" /\ instance.status = "WAITING"]]
  /\ UNCHANGED <<binding, instance, task, history, members, inbox>>

\* Bound: nobody begins to hand over or claim a task that reached MaxHandoffs.
Movable == {t \in TaskIds : Len(history[t]) < MaxHandoffs[t]}

BeginAssign(c) == \E by, to \in People, t \in Movable : Begin(c, "assigning", by, t, to)
BeginClaim(c) == \E by \in People, t \in Movable : Begin(c, "claiming", by, t, by)

\* Mutant: the assignee is not checked.
BeginCompleteAnyone(c) == \E by \in People, t \in TaskIds : Begin(c, "completing", by, t, by)

BeginComplete(c) ==
  \E by \in People, t \in TaskIds : task[t].assignee = by /\ Begin(c, "completing", by, t, by)

Done(c) == call' = [call EXCEPT ![c] = Idle]

\* Mutant: the owner is the one that was read before the lock.
OwnerReadEarly(c) == task[call[c].task].initial

\* The owner in the locked row.
Owner(c) == task[call[c].task].assignee

\* The new owner, the event and, to somebody else, the notification.
Hand(c, notified) ==
  LET t == call[c].task IN
  /\ Len(history[t]) < MaxHandoffs[t]
  /\ task' = [task EXCEPT ![t].assignee = call[c].to]
  /\ history' = [history EXCEPT ![t] = Append(@,
       [from |-> Owner(c), to |-> call[c].to, by |-> call[c].by, active |-> instance.status = "WAITING"])]
  /\ Notify(notified, call[c].by, t)
  /\ Done(c)
  /\ UNCHANGED <<binding, instance, members>>

Refuse(c) == Done(c) /\ UNCHANGED <<binding, instance, task, history, members, inbox>>

\* A task worker hands over only what is theirs.
MayAssign(c) ==
  /\ task[call[c].task].status = "OPEN"
  /\ call[c].active
  /\ call[c].by \in Workers => Owner(c) = call[c].by

\* Mutant: only a handover from another owner is announced.
RecipientsOfDelegation(c) == IF Owner(c) # Null /\ call[c].to # Owner(c) THEN {call[c].to} ELSE {}

HandoffRecipients(c) == IF call[c].to # Owner(c) THEN {call[c].to} ELSE {}

Assign(c) ==
  /\ call[c].stage = "assigning"
  /\ IF MayAssign(c) THEN Hand(c, HandoffRecipients(c)) ELSE Refuse(c)

MayClaim(c) ==
  LET t == call[c].task IN
  /\ Owner(c) = Null
  /\ task[t].status = "OPEN"
  /\ call[c].active
  /\ binding[t].kind = "GROUP"
  /\ call[c].by \in members[binding[t].group]

Claim(c) ==
  /\ call[c].stage = "claiming"
  /\ IF MayClaim(c) THEN Hand(c, {}) ELSE Refuse(c)

\* Mutant: a second completion replaces the pending one.
MayCompleteAgain(c) ==
  /\ task[call[c].task].status = "OPEN"
  /\ instance.status = "WAITING"
  /\ call[c].task = instance.current

\* The active wait, with nothing accepted for it; the owner is not read again.
MayComplete(c) ==
  /\ task[call[c].task].status = "OPEN"
  /\ instance.status = "WAITING"
  /\ call[c].task = instance.current
  /\ instance.actor = Null

Complete(c) ==
  /\ call[c].stage = "completing"
  /\ IF MayComplete(c)
       THEN /\ instance' = [instance EXCEPT !.actor = call[c].by]
            /\ Done(c)
            /\ UNCHANGED <<binding, task, history, members, inbox>>
       ELSE Refuse(c)

-----------------------------------------------------------------------------

Next ==
  \/ Commit \/ AcceptEvent \/ Quarantine \/ Cancel
  \/ \E g \in Groups : UpdateWorkGroup(g)
  \/ \E c \in Calls :
       \/ BeginAssign(c) \/ BeginClaim(c) \/ BeginComplete(c)
       \/ Assign(c) \/ Claim(c) \/ Complete(c)

SafeSpec == Init /\ [][Next]_vars

-----------------------------------------------------------------------------
(* Safety.                                                                  *)

\* Everyone who has owned the task.
Owners(t) == {task[t].initial} \cup {history[t][i].to : i \in DOMAIN history[t]}

\* The history explains the ownership: it leads without a gap from the
\* assignee of the checkpoint to the present one, however handovers and claims
\* interleave, so a queued task is claimed or assigned out of the queue once.
HistoryIsChain ==
  \A t \in TaskIds :
    LET h == history[t] IN
    IF h = <<>>
      THEN task[t].assignee = task[t].initial
      ELSE /\ h[1].from = task[t].initial
           /\ \A i \in 2..Len(h) : h[i].from = h[i - 1].to
           /\ h[Len(h)].to = task[t].assignee

\* A completed task was completed by someone who had owned it, and nobody
\* else's answer replaces the one that was accepted.
CompletedByAnOwner ==
  \A t \in TaskIds : task[t].status = "COMPLETED" => task[t].completedBy \in Owners(t) \ {Null}

\* The answer of the person whose completion was accepted is the one that
\* counts: the pending actor changes only to nobody.
AcceptedAnswerCounts ==
  [][/\ instance.actor # Null => instance'.actor \in {instance.actor, Null}
     /\ \A t \in TaskIds : task[t].status = "OPEN" /\ task'[t].status = "COMPLETED" =>
          task'[t].completedBy = instance.actor]_vars

\* The owner of an open task was notified of it or took it personally, unless
\* the task was theirs from the start and the command that created it bears
\* their name.  The last is no promise that they know: commitRuntimeWork tells
\* nobody of a task that it creates in their name, and the name is that of a
\* person who did nothing when a job, a timer or a sent message led there.
OwnersWereTold ==
  \A t \in TaskIds :
    LET p == task[t].assignee
        h == history[t]
    IN task[t].status = "OPEN" /\ p # Null =>
         \/ \E n \in inbox : n.recipient = p /\ n.task = t
         \/ \E i \in DOMAIN h : h[i].to = p /\ h[i].by = p
         \/ task[t].initial = p /\ task[t].createdBy = p

-----------------------------------------------------------------------------
(* What the documents say and the code does not do.                         *)

\* runtime.ts: "Only an open task at the active process wait can be reassigned."
HandedOverWhileActive == \A t \in TaskIds : \A i \in DOMAIN history[t] : history[t][i].active

=============================================================================
