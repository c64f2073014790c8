-------------------------- MODULE TaskAssignmentProofs --------------------------
(***************************************************************************)
(* Ownership of tasks for any number of people, groups, tasks, calls and   *)
(* handovers: the history is a chain, tasks are completed by owners, the   *)
(* answer that was accepted is the one that counts, owners are told of     *)
(* their tasks unless the task was created in their own name.              *)
(***************************************************************************)
EXTENDS TaskAssignment, TLAPS

-----------------------------------------------------------------------------
(* The inductive invariant.                                                 *)

\* Tasks are created one after the other, and only what is there is called on.
Order ==
  /\ \A t \in TaskIds : (task[t].status = "NONE") <=> (t > instance.current)
  /\ \A t \in TaskIds : task[t].status = "NONE" => history[t] = <<>>
  /\ \A c \in Calls : call[c].stage # "idle" =>
       /\ call[c].task \in TaskIds /\ call[c].by \in People /\ call[c].to \in People
       /\ task[call[c].task].status # "NONE"
       /\ call[c].stage = "claiming" => call[c].to = call[c].by

\* Whoever is about to complete a task, or has been accepted to, has owned it.
Answering ==
  /\ \A c \in Calls : call[c].stage = "completing" => call[c].by \in Owners(call[c].task)
  /\ instance.actor # Null /\ ~instance.event /\ instance.current # 0 =>
       instance.actor \in Owners(instance.current)

IInv == TypeOK /\ Order /\ Answering /\ HistoryIsChain /\ CompletedByAnOwner /\ OwnersWereTold

-----------------------------------------------------------------------------
\* The present owner is one of those who have owned the task.
LEMMA AssigneeOwns ==
  ASSUME TypeOK, HistoryIsChain, NEW t \in TaskIds
  PROVE  task[t].assignee \in Owners(t)
<1>1. history[t] \in Seq(Event)
  BY DEF TypeOK
<1>2. CASE history[t] = <<>>
  BY <1>2 DEF HistoryIsChain, Owners
<1>3. CASE history[t] # <<>>
  <2>1. Len(history[t]) \in DOMAIN history[t]
    BY <1>1, <1>3
  <2> QED
    BY <1>3, <2>1 DEF HistoryIsChain, Owners
<1> QED
  BY <1>2, <1>3

\* What an owner was told by.
Told(t, p) ==
  \/ \E n \in inbox : n.recipient = p /\ n.task = t
  \/ \E i \in DOMAIN history[t] : history[t][i].to = p /\ history[t][i].by = p
  \/ task[t].initial = p /\ task[t].createdBy = p

LEMMA ToldOwners ==
  OwnersWereTold <=>
    \A t \in TaskIds : task[t].status = "OPEN" /\ task[t].assignee # Null => Told(t, task[t].assignee)
BY DEF OwnersWereTold, Told

-----------------------------------------------------------------------------
\* Tasks, history and who owns what stay; calls and the instance may change.
LEMMA Calm ==
  ASSUME IInv, TypeOK', Order', Answering',
         UNCHANGED <<binding, task, history, inbox>>
  PROVE  IInv'
<1>1. HistoryIsChain' /\ CompletedByAnOwner'
  BY DEF IInv, HistoryIsChain, CompletedByAnOwner, Owners
<1>2. OwnersWereTold'
  BY DEF IInv, OwnersWereTold
<1> QED
  BY <1>1, <1>2 DEF IInv

LEMMA Initially == Init => IInv
<1> SUFFICES ASSUME Init
             PROVE  IInv
  OBVIOUS
<1>1. Tasks \in Nat /\ Null \notin People
  BY TasksAssumption, NullAssumption
<1>2. TypeOK
  <2>1. binding \in [TaskIds -> Binding]
    BY BindingsAssumption DEF Init
  <2>2. instance \in Instance
    BY <1>1 DEF Init, Instance, Status
  <2>3. task \in [TaskIds -> Task] /\ call \in [Calls -> Call]
    BY <1>1 DEF Init, NoTask, Task, Call, Idle, Stages
  <2> QED
    BY <2>1, <2>2, <2>3 DEF TypeOK, Init, GroupsCreated
<1>3. Order /\ Answering
  BY <1>1 DEF Init, Order, Answering, Idle, NoTask, TaskIds
<1>4. HistoryIsChain /\ CompletedByAnOwner /\ OwnersWereTold
  BY DEF Init, NoTask, HistoryIsChain, CompletedByAnOwner, OwnersWereTold
<1> QED
  BY <1>2, <1>3, <1>4 DEF IInv

LEMMA Quarantines == ASSUME IInv, Quarantine PROVE IInv'
<1>1. TypeOK'
  BY DEF Quarantine, IInv, TypeOK, Instance, Status
<1>2. instance'.current = instance.current /\ instance'.actor = Null
  BY DEF Quarantine, IInv, TypeOK, Instance
<1>3. Order' /\ Answering'
  BY <1>2 DEF Quarantine, IInv, Order, Answering, Owners
<1> QED
  BY <1>1, <1>2, <1>3, Calm DEF Quarantine

LEMMA Cancels == ASSUME IInv, Cancel PROVE IInv'
<1>1. TypeOK'
  BY DEF Cancel, IInv, TypeOK, Instance, Status
<1>2. instance'.current = instance.current /\ instance'.actor = Null
  BY DEF Cancel, IInv, TypeOK, Instance
<1>3. Order' /\ Answering'
  BY <1>2 DEF Cancel, IInv, Order, Answering, Owners
<1> QED
  BY <1>1, <1>2, <1>3, Calm DEF Cancel

LEMMA AcceptsEvent == ASSUME IInv, AcceptEvent PROVE IInv'
<1>1. PICK p \in People : instance' = [instance EXCEPT !.actor = p]
  BY DEF AcceptEvent
<1>2. instance \in Instance /\ instance.event = TRUE
  BY DEF AcceptEvent, IInv, TypeOK, Instance
<1>3. instance' \in Instance /\ instance'.current = instance.current /\ instance'.event = TRUE
  BY <1>1, <1>2 DEF Instance
<1>4. TypeOK'
  BY <1>3 DEF AcceptEvent, IInv, TypeOK
<1>5. Order' /\ Answering'
  BY <1>3 DEF AcceptEvent, IInv, Order, Answering, Owners
<1> QED
  BY <1>4, <1>5, Calm DEF AcceptEvent

LEMMA UpdatesWorkGroup == ASSUME IInv, NEW g \in Groups, UpdateWorkGroup(g) PROVE IInv'
<1>1. TypeOK'
  BY DEF UpdateWorkGroup, IInv, TypeOK
<1>2. Order' /\ Answering'
  BY DEF UpdateWorkGroup, IInv, Order, Answering, Owners
<1> QED
  BY <1>1, <1>2, Calm DEF UpdateWorkGroup

\* Only calls change.
LEMMA CallOnly ==
  ASSUME IInv, NEW c \in Calls, NEW d \in Call, call' = [call EXCEPT ![c] = d],
         UNCHANGED <<binding, instance, task, history, members, inbox>>,
         d.stage # "idle" => /\ d.task \in TaskIds /\ d.by \in People /\ d.to \in People
                             /\ task[d.task].status # "NONE"
                             /\ d.stage = "claiming" => d.to = d.by,
         d.stage = "completing" => d.by \in Owners(d.task)
  PROVE  IInv'
<1>1. TypeOK'
  BY DEF IInv, TypeOK
<1>2. \A k \in Calls : call'[k] = IF k = c THEN d ELSE call[k]
  BY DEF IInv, TypeOK
<1>3. Order'
  BY <1>2 DEF IInv, Order
<1>4. Answering'
  <2>1. ASSUME NEW k \in Calls, call'[k].stage = "completing"
        PROVE  call'[k].by \in Owners(call'[k].task)
    BY <1>2, <2>1 DEF IInv, Answering
  <2>2. (\A k \in Calls : call[k].stage = "completing" => call[k].by \in Owners(call[k].task))'
    BY <2>1 DEF Owners
  <2>3. (instance.actor # Null /\ ~instance.event /\ instance.current # 0 =>
          instance.actor \in Owners(instance.current))'
    BY DEF IInv, Answering, Owners
  <2> QED
    BY <2>2, <2>3 DEF Answering
<1> QED
  BY <1>1, <1>3, <1>4, Calm

LEMMA Refuses == ASSUME IInv, NEW c \in Calls, Refuse(c) PROVE IInv'
<1>1. Idle \in Call /\ Idle.stage = "idle"
  BY TasksAssumption DEF Idle, Call, Stages
<1> QED
  BY <1>1, CallOnly DEF Refuse, Done

LEMMA Begins ==
  ASSUME IInv, NEW c \in Calls, NEW stage \in Stages, NEW by \in People, NEW t \in TaskIds,
         NEW to \in People, Begin(c, stage, by, t, to), stage = "claiming" => to = by,
         stage = "completing" => by \in Owners(t)
  PROVE  IInv'
<1> DEFINE d == [stage |-> stage, by |-> by, task |-> t, to |-> to, active |-> stage # "completing" /\ instance.status = "WAITING"]
<1>1. Tasks \in Nat
  BY TasksAssumption
<1>2. d \in Call
  BY <1>1 DEF Call, TaskIds
<1>3. d.stage = stage /\ d.by = by /\ d.task = t /\ d.to = to
  OBVIOUS
<1>4. /\ call' = [call EXCEPT ![c] = d] /\ task[t].status # "NONE"
      /\ UNCHANGED <<binding, instance, task, history, members, inbox>>
  BY DEF Begin
<1> HIDE DEF d
<1> QED
  BY <1>2, <1>3, <1>4, CallOnly

LEMMA BeginsAssign == ASSUME IInv, NEW c \in Calls, BeginAssign(c) PROVE IInv'
<1>1. PICK by \in People, to \in People, t \in TaskIds : Begin(c, "assigning", by, t, to)
  BY DEF BeginAssign, Movable
<1> QED
  BY <1>1, Begins DEF Stages

LEMMA BeginsClaim == ASSUME IInv, NEW c \in Calls, BeginClaim(c) PROVE IInv'
<1>1. PICK by \in People, t \in TaskIds : Begin(c, "claiming", by, t, by)
  BY DEF BeginClaim, Movable
<1> QED
  BY <1>1, Begins DEF Stages

LEMMA BeginsComplete == ASSUME IInv, NEW c \in Calls, BeginComplete(c) PROVE IInv'
<1>1. PICK by \in People, t \in TaskIds : task[t].assignee = by /\ Begin(c, "completing", by, t, by)
  BY DEF BeginComplete
<1>2. by \in Owners(t)
  BY <1>1, AssigneeOwns DEF IInv
<1> QED
  BY <1>1, <1>2, Begins DEF Stages

\* A completion that is accepted was asked for by one who has owned the task.
LEMMA Completes == ASSUME IInv, NEW c \in Calls, Complete(c) PROVE IInv'
<1>1. CASE MayComplete(c)
  <2>1. /\ instance' = [instance EXCEPT !.actor = call[c].by]
        /\ call' = [call EXCEPT ![c] = Idle]
        /\ UNCHANGED <<binding, task, history, members, inbox>>
        /\ call[c].stage = "completing" /\ call[c].task = instance.current
    BY <1>1 DEF Complete, Done, MayComplete
  <2>2. call[c].by \in People /\ call[c].task \in TaskIds
    BY <2>1 DEF IInv, Order
  <2>3. instance'.current = instance.current /\ instance'.actor = call[c].by
    BY <2>1 DEF IInv, TypeOK, Instance
  <2>4. \A k \in Calls : call'[k] = IF k = c THEN Idle ELSE call[k]
    BY <2>1 DEF IInv, TypeOK
  <2>5. TypeOK'
    <3>1. instance' \in Instance
      BY <2>1, <2>2 DEF IInv, TypeOK, Instance
    <3>2. Idle \in Call
      BY TasksAssumption DEF Idle, Call, Stages
    <3> QED
      BY <2>1, <3>1, <3>2 DEF IInv, TypeOK
  <2>6. Order'
    BY <2>1, <2>3, <2>4 DEF IInv, Order, Idle
  <2>7. instance'.actor \in Owners(instance.current) /\ instance.current # 0
    BY <2>1, <2>2, <2>3 DEF IInv, Answering, TaskIds
  <2>8. (\A k \in Calls : call[k].stage = "completing" => call[k].by \in Owners(call[k].task))'
    BY <2>1, <2>4 DEF IInv, Answering, Owners, Idle
  <2>9. (instance.actor # Null /\ ~instance.event /\ instance.current # 0 =>
          instance.actor \in Owners(instance.current))'
    BY <2>1, <2>3, <2>7 DEF Owners
  <2>10. Answering'
    BY <2>8, <2>9 DEF Answering
  <2> QED
    BY <2>1, <2>3, <2>5, <2>6, <2>10, Calm
<1>2. CASE ~MayComplete(c)
  BY <1>2, Refuses DEF Complete
<1> QED
  BY <1>1, <1>2

-----------------------------------------------------------------------------
\* A handover or a claim adds one event to the history of its task.
LEMMA Hands ==
  ASSUME IInv, NEW c \in Calls, call[c].stage # "idle", NEW notified \in SUBSET People, Hand(c, notified),
         call[c].to # Owner(c) => call[c].to \in notified \/ call[c].to = call[c].by
  PROVE  IInv'
<1> DEFINE t == call[c].task
           by == call[c].by
           to == call[c].to
           e == [from |-> Owner(c), to |-> to, by |-> by, active |-> instance.status = "WAITING"]
<1>1. t \in TaskIds /\ by \in People /\ to \in People /\ task[t].status # "NONE"
  BY DEF IInv, Order
<1>2. /\ task' = [task EXCEPT ![t].assignee = to]
      /\ history' = [history EXCEPT ![t] = Append(@, e)]
      /\ inbox' = inbox \cup {[recipient |-> p, task |-> t] : p \in notified \ {by}}
      /\ call' = [call EXCEPT ![c] = Idle]
      /\ UNCHANGED <<binding, instance, members>>
  BY DEF Hand, Notify, Done
<1>3. e \in Event /\ e.from = task[t].assignee /\ e.to = to /\ e.by = by
  BY <1>1 DEF Event, Owner, IInv, TypeOK, Task
<1>4. to # task[t].assignee => to \in notified \/ to = by
  BY DEF Owner
<1>5. Idle \in Call /\ Idle.stage = "idle" /\ Null \notin People
  BY TasksAssumption, NullAssumption DEF Idle, Call, Stages
<1> HIDE DEF t, by, to, e
<1>6. /\ \A u \in TaskIds : /\ task'[u].status = task[u].status /\ task'[u].initial = task[u].initial
                             /\ task'[u].completedBy = task[u].completedBy
                             /\ task'[u].createdBy = task[u].createdBy
                             /\ task'[u].assignee = (IF u = t THEN to ELSE task[u].assignee)
                             /\ history'[u] = IF u = t THEN Append(history[t], e) ELSE history[u]
      /\ \A k \in Calls : call'[k] = IF k = c THEN Idle ELSE call[k]
  BY <1>1, <1>2 DEF IInv, TypeOK, Task
<1>7. /\ history[t] \in Seq(Event)
      /\ history'[t] \in Seq(Event)
      /\ Len(history'[t]) = Len(history[t]) + 1
      /\ DOMAIN history[t] = 1..Len(history[t]) /\ DOMAIN history'[t] = 1..(Len(history[t]) + 1)
      /\ \A i \in 1..Len(history[t]) : history'[t][i] = history[t][i]
      /\ history'[t][Len(history[t]) + 1] = e
      /\ Len(history[t]) \in Nat
  <2>1. history[t] \in Seq(Event) /\ history'[t] = Append(history[t], e) /\ e \in Event
    BY <1>1, <1>3, <1>6 DEF IInv, TypeOK
  <2>2. \A h \in Seq(Event) : LET g == Append(h, e) IN
          /\ g \in Seq(Event) /\ Len(g) = Len(h) + 1 /\ Len(h) \in Nat
          /\ DOMAIN h = 1..Len(h) /\ DOMAIN g = 1..(Len(h) + 1)
          /\ g[Len(h) + 1] = e /\ \A i \in 1..Len(h) : g[i] = h[i]
    BY <2>1
  <2> QED
    BY <2>1, <2>2
<1>8. TypeOK'
  <2>1. inbox' \subseteq Notification
    BY <1>1, <1>2 DEF IInv, TypeOK, Notification
  <2>2. task' \in [TaskIds -> Task]
    BY <1>1, <1>2 DEF IInv, TypeOK, Task
  <2>3. history' \in [TaskIds -> Seq(Event)]
    BY <1>1, <1>2, <1>6, <1>7 DEF IInv, TypeOK
  <2> QED
    BY <1>2, <1>5, <2>1, <2>2, <2>3 DEF IInv, TypeOK
<1>9. Order'
  BY <1>1, <1>2, <1>5, <1>6 DEF IInv, Order
<1>10. \A u \in TaskIds, p \in People : p \in Owners(u) => (p \in Owners(u))'
  BY <1>6, <1>7 DEF Owners
<1>11. Answering'
  <2>1. (\A k \in Calls : call[k].stage = "completing" => call[k].by \in Owners(call[k].task))'
    <3>1. ASSUME NEW k \in Calls, call'[k].stage = "completing"
          PROVE  /\ call'[k] = call[k] /\ call[k].task \in TaskIds /\ call[k].by \in People
                 /\ call[k].by \in Owners(call[k].task)
      BY <1>5, <1>6, <3>1 DEF IInv, Answering, Order
    <3> QED
      BY <1>10, <3>1 DEF Owners
  <2>2. (instance.actor # Null /\ ~instance.event /\ instance.current # 0 =>
          instance.actor \in Owners(instance.current))'
    <3>1. instance.current # 0 => instance.current \in TaskIds
      BY DEF IInv, TypeOK, Instance, TaskIds
    <3> QED
      BY <1>2, <1>6, <1>7, <3>1 DEF IInv, Answering, Owners
  <2> QED
    BY <2>1, <2>2 DEF Answering
<1>12. HistoryIsChain'
  <2> SUFFICES ASSUME NEW u \in TaskIds
               PROVE  (IF history[u] = <<>>
                         THEN task[u].assignee = task[u].initial
                         ELSE /\ history[u][1].from = task[u].initial
                              /\ \A i \in 2..Len(history[u]) : history[u][i].from = history[u][i - 1].to
                              /\ history[u][Len(history[u])].to = task[u].assignee)'
    BY DEF HistoryIsChain
  <2>1. CASE u # t
    BY <1>6, <2>1 DEF IInv, HistoryIsChain
  <2>2. CASE u = t
    <3>1. history'[t] # <<>> /\ history'[t][Len(history'[t])].to = task'[t].assignee
      BY <1>1, <1>3, <1>6, <1>7
    <3>2. CASE history[t] = <<>>
      <4>1. Len(history[t]) = 0 /\ task[t].assignee = task[t].initial
        BY <1>1, <1>7, <3>2 DEF IInv, HistoryIsChain
      <4>2. history'[t][1] = e /\ 2..Len(history'[t]) = {}
        BY <1>7, <4>1
      <4> QED
        BY <1>1, <1>3, <1>6, <2>2, <3>1, <4>1, <4>2
    <3>3. CASE history[t] # <<>>
      <4>1. Len(history[t]) > 0
        BY <1>7, <3>3
      <4>2. /\ history[t][1].from = task[t].initial
            /\ \A i \in 2..Len(history[t]) : history[t][i].from = history[t][i - 1].to
            /\ history[t][Len(history[t])].to = task[t].assignee
        BY <1>1, <3>3 DEF IInv, HistoryIsChain
      <4>3. history'[t][1].from = task'[t].initial
        BY <1>1, <1>6, <1>7, <4>1, <4>2
      <4>4. ASSUME NEW i \in 2..Len(history'[t])
            PROVE  history'[t][i].from = history'[t][i - 1].to
        <5>1. CASE i = Len(history[t]) + 1
          BY <1>3, <1>7, <4>1, <4>2, <5>1
        <5>2. CASE i # Len(history[t]) + 1
          <6>1. i \in 2..Len(history[t]) /\ i \in 1..Len(history[t]) /\ i - 1 \in 1..Len(history[t])
            BY <1>7, <5>2
          <6> QED
            BY <1>7, <4>2, <6>1
        <5> QED
          BY <5>1, <5>2
      <4> QED
        BY <2>2, <3>1, <4>3, <4>4
    <3> QED
      BY <3>2, <3>3
  <2> QED
    BY <2>1, <2>2
<1>13. CompletedByAnOwner'
  <2>1. \A u \in TaskIds : task[u].completedBy # Null => task[u].completedBy \in People
    BY DEF IInv, TypeOK, Task
  <2> QED
    BY <1>6, <1>10, <2>1 DEF IInv, CompletedByAnOwner
<1>14. \A u \in TaskIds, p \in People : Told(u, p) => Told(u, p)'
  BY <1>2, <1>6, <1>7 DEF Told, TaskIds
<1>15. OwnersWereTold'
  <2> SUFFICES ASSUME NEW u \in TaskIds, (task[u].status = "OPEN" /\ task[u].assignee # Null)'
               PROVE  (Told(u, task[u].assignee))'
    BY ToldOwners DEF OwnersWereTold, Told
  <2>1. CASE u = t /\ to = by
    <3>1. Len(history[t]) + 1 \in DOMAIN history'[t]
      BY <1>7
    <3> QED
      BY <1>1, <1>3, <1>6, <1>7, <2>1, <3>1 DEF Told
  <2>2. CASE u = t /\ to # by /\ to \in notified
    <3>1. [recipient |-> to, task |-> t] \in inbox'
      BY <1>2, <2>2
    <3> QED
      BY <1>1, <1>6, <2>2, <3>1 DEF Told
  <2>3. CASE u # t \/ to = task[t].assignee
    <3>1. task'[u].assignee = task[u].assignee /\ task[u].status = "OPEN"
      BY <1>6, <2>3
    <3>2. Told(u, task[u].assignee) /\ task[u].assignee \in People
      BY <3>1, ToldOwners DEF IInv, TypeOK, Task
    <3> QED
      BY <1>14, <3>1, <3>2 DEF Told
  <2> QED
    BY <1>4, <2>1, <2>2, <2>3
<1> QED
  BY <1>8, <1>9, <1>11, <1>12, <1>13, <1>15 DEF IInv

LEMMA Assigns == ASSUME IInv, NEW c \in Calls, Assign(c) PROVE IInv'
<1>1. CASE MayAssign(c)
  <2>1. Hand(c, HandoffRecipients(c)) /\ call[c].stage # "idle" /\ call[c].to \in People
    BY <1>1 DEF Assign, IInv, Order
  <2>2. HandoffRecipients(c) \in SUBSET People /\ (call[c].to # Owner(c) => call[c].to \in HandoffRecipients(c))
    BY <2>1 DEF HandoffRecipients
  <2> QED
    BY <2>1, <2>2, Hands
<1>2. CASE ~MayAssign(c)
  BY <1>2, Refuses DEF Assign
<1> QED
  BY <1>1, <1>2

LEMMA Claims == ASSUME IInv, NEW c \in Calls, Claim(c) PROVE IInv'
<1>1. CASE MayClaim(c)
  <2>1. Hand(c, {}) /\ call[c].stage # "idle" /\ call[c].to = call[c].by
    BY <1>1 DEF Claim, IInv, Order
  <2> QED
    BY <2>1, Hands
<1>2. CASE ~MayClaim(c)
  BY <1>2, Refuses DEF Claim
<1> QED
  BY <1>1, <1>2

-----------------------------------------------------------------------------
\* What the commit does to each task and who is told.
LEMMA Commitment ==
  ASSUME IInv, Commit
  PROVE  LET t == instance.current
             last == instance'.current
         IN  /\ t \in 0..Tasks /\ instance.actor \in People
             /\ last = t \/ (last = t + 1 /\ last \in TaskIds)
             /\ \A u \in TaskIds :
                  /\ u = t /\ ~instance.event =>
                       /\ task'[u].status = "COMPLETED" /\ task'[u].completedBy = instance.actor
                       /\ task'[u].assignee = task[u].assignee /\ task'[u].initial = task[u].initial
                  /\ u = t /\ instance.event => task'[u] = task[u]
                  /\ u # t /\ u = last => task'[u] = Created(u)
                  /\ u # t /\ u # last => task'[u] = task[u]
             /\ instance'.actor = Null /\ instance' \in Instance
             /\ IF last = t THEN inbox' = inbox ELSE Notify(Recipients(last), instance.actor, last)
             /\ UNCHANGED <<binding, history, members, call>>
<1> DEFINE t == instance.current
           next == t + 1
<1>1. /\ instance \in Instance /\ task \in [TaskIds -> Task]
      /\ t \in 0..Tasks /\ instance.actor \in People /\ Tasks \in Nat
  BY TasksAssumption DEF Commit, IInv, TypeOK, Instance
<1>2. \A u \in TaskIds :
        /\ u = t /\ ~instance.event =>
             /\ Closed[u].status = "COMPLETED" /\ Closed[u].completedBy = instance.actor
             /\ Closed[u].assignee = task[u].assignee /\ Closed[u].initial = task[u].initial
        /\ u # t \/ instance.event => Closed[u] = task[u]
  BY <1>1 DEF Closed, Completed, Task
<1>3. CASE /\ next \in TaskIds
           /\ task' = [Closed EXCEPT ![next] = Created(next)]
           /\ instance' = [instance EXCEPT !.status = "WAITING", !.current = next, !.event = FALSE, !.actor = Null]
           /\ Notify(Recipients(next), instance.actor, next)
  <2>1. \A u \in TaskIds : task'[u] = IF u = next THEN Created(next) ELSE Closed[u]
    BY <1>3 DEF Closed
  <2>2. next # t /\ next \in 0..Tasks
    BY <1>1, <1>3 DEF TaskIds
  <2> HIDE DEF next
  <2>3. instance'.current = next /\ instance'.actor = Null /\ instance' \in Instance
    BY <1>1, <1>3, <2>2 DEF Instance, Status
  <2>4. UNCHANGED <<binding, history, members, call>>
    BY DEF Commit
  <2> QED
    BY <1>1, <1>2, <1>3, <2>1, <2>2, <2>3, <2>4 DEF next
<1>4. CASE /\ task' = Closed /\ inbox' = inbox
           /\ \/ instance' = [instance EXCEPT !.status = "WAITING", !.event = TRUE, !.actor = Null]
              \/ instance' = [instance EXCEPT !.status = "COMPLETED", !.actor = Null]
  <2>1. instance'.current = t /\ instance'.actor = Null /\ instance' \in Instance
    BY <1>1, <1>4 DEF Instance, Status
  <2>2. UNCHANGED <<binding, history, members, call>>
    BY DEF Commit
  <2> QED
    BY <1>1, <1>2, <1>4, <2>1, <2>2
<1> QED
  BY <1>3, <1>4 DEF Commit

\* Who gets a task, and who is told of it.
LEMMA Receivers ==
  ASSUME IInv, instance.actor \in People, NEW u \in TaskIds
  PROVE  /\ InitialAssignee(u) \in People \cup {Null} /\ Recipients(u) \subseteq People
         /\ InitialAssignee(u) # Null => InitialAssignee(u) \in Recipients(u)
<1>1. Null \notin People
  BY NullAssumption
<1>2. binding[u] \in Binding /\ members \in [Groups -> SUBSET People]
  BY DEF IInv, TypeOK
<1>3. CASE binding[u].kind = "STARTER"
  BY <1>1, <1>3 DEF InitialAssignee, Recipients
<1>4. CASE binding[u].kind = "PERSON"
  <2>1. binding[u].person \in People
    BY <1>2, <1>4 DEF Binding
  <2> QED
    BY <1>1, <1>4, <2>1 DEF InitialAssignee, Recipients
<1>5. CASE binding[u].kind \notin {"STARTER", "PERSON"}
  <2>1. binding[u].group \in Groups
    BY <1>2, <1>5 DEF Binding
  <2>2. InitialAssignee(u) = Null
    BY <1>5 DEF InitialAssignee
  <2> QED
    BY <1>2, <2>1, <2>2 DEF Recipients
<1> QED
  BY <1>3, <1>4, <1>5

LEMMA Commits == ASSUME IInv, Commit PROVE IInv'
<1> DEFINE t == instance.current
           last == instance'.current
<1>1. /\ t \in 0..Tasks /\ instance.actor \in People /\ Tasks \in Nat /\ Null \notin People
      /\ last = t \/ (last = t + 1 /\ last \in TaskIds)
      /\ instance'.actor = Null /\ instance' \in Instance
      /\ UNCHANGED <<binding, history, members, call>>
  BY Commitment, TasksAssumption, NullAssumption
<1>2. \A u \in TaskIds :
        /\ u = t /\ ~instance.event =>
             /\ task'[u].status = "COMPLETED" /\ task'[u].completedBy = instance.actor
             /\ task'[u].assignee = task[u].assignee /\ task'[u].initial = task[u].initial
        /\ u = t /\ instance.event => task'[u] = task[u]
        /\ u # t /\ u = last =>
             /\ task'[u].status = "OPEN" /\ task'[u].assignee = InitialAssignee(u)
             /\ task'[u].initial = InitialAssignee(u) /\ task'[u].createdBy = instance.actor
        /\ u # t /\ u # last => task'[u] = task[u]
  <2>1. \A u \in TaskIds : u # t /\ u = last => task'[u] = Created(u)
    BY Commitment
  <2>2. \A u \in TaskIds : /\ Created(u).status = "OPEN" /\ Created(u).assignee = InitialAssignee(u)
                           /\ Created(u).initial = InitialAssignee(u) /\ Created(u).createdBy = instance.actor
    BY DEF Created
  <2> QED
    BY <2>1, <2>2, Commitment
<1>3. /\ inbox \subseteq inbox'
      /\ last # t => \A p \in Recipients(last) \ {instance.actor} : [recipient |-> p, task |-> last] \in inbox'
      /\ inbox' \subseteq Notification
  <2>1. inbox \subseteq Notification
    BY DEF IInv, TypeOK
  <2>2. CASE last # t
    <3>1. inbox' = inbox \cup {[recipient |-> p, task |-> last] : p \in Recipients(last) \ {instance.actor}}
      BY <2>2, Commitment DEF Notify
    <3>2. Recipients(last) \subseteq People /\ last \in TaskIds
      BY <1>1, <2>2, Receivers
    <3>3. inbox' \subseteq Notification
      BY <2>1, <3>1, <3>2 DEF Notification
    <3> QED
      BY <3>1, <3>3
  <2>3. CASE last = t
    BY <2>1, <2>3, Commitment
  <2> QED
    BY <2>2, <2>3
<1>4. TypeOK'
  <2>1. \A u \in TaskIds : Created(u) \in Task /\ Completed(u) \in Task
    <3>1. \A u \in TaskIds : InitialAssignee(u) \in People \cup {Null} /\ task[u] \in Task
      BY <1>1, Receivers DEF IInv, TypeOK
    <3> QED
      BY <1>1, <3>1 DEF Created, Completed, Task
  <2>2. Closed \in [TaskIds -> Task]
    BY <2>1 DEF Closed, IInv, TypeOK
  <2>3. task' \in [TaskIds -> Task]
    BY <2>1, <2>2 DEF Commit
  <2> QED
    BY <1>1, <1>3, <2>3 DEF IInv, TypeOK
<1>5. /\ \A u \in TaskIds : (task[u].status = "NONE") <=> (u > t)
      /\ \A u \in TaskIds : u > t => history[u] = <<>>
  BY DEF IInv, Order
<1>6. Order'
  <2>1. \A u \in TaskIds : (task'[u].status = "NONE") <=> (u > last)
    BY <1>1, <1>2, <1>5 DEF TaskIds
  <2>2. \A u \in TaskIds : task'[u].status = "NONE" => task[u].status = "NONE"
    BY <1>1, <1>2, <1>5, <2>1 DEF TaskIds
  <2> QED
    BY <1>1, <2>1, <2>2 DEF IInv, Order
<1>7. \A u \in TaskIds : task[u].status # "NONE" => task'[u].initial = task[u].initial
  BY <1>1, <1>2, <1>5 DEF TaskIds
<1>8. Answering'
  <2>1. (\A k \in Calls : call[k].stage = "completing" => call[k].by \in Owners(call[k].task))'
    <3>1. \A k \in Calls : call[k].stage = "completing" =>
            /\ call[k].task \in TaskIds /\ task[call[k].task].status # "NONE"
            /\ call[k].by \in Owners(call[k].task)
      BY DEF IInv, Answering, Order
    <3> QED
      BY <1>1, <1>7, <3>1 DEF Owners
  <2> QED
    BY <1>1, <2>1 DEF Answering
<1>9. HistoryIsChain'
  <2>1. \A u \in TaskIds : \/ task'[u].assignee = task[u].assignee /\ task'[u].initial = task[u].initial
                           \/ history[u] = <<>> /\ task'[u].assignee = task'[u].initial
    BY <1>1, <1>2, <1>5 DEF TaskIds
  <2>2. HistoryIsChain /\ history' = history
    BY <1>1 DEF IInv
  <2> SUFFICES ASSUME NEW u \in TaskIds
               PROVE  (IF history[u] = <<>>
                         THEN task[u].assignee = task[u].initial
                         ELSE /\ history[u][1].from = task[u].initial
                              /\ \A i \in 2..Len(history[u]) : history[u][i].from = history[u][i - 1].to
                              /\ history[u][Len(history[u])].to = task[u].assignee)'
    BY DEF HistoryIsChain
  <2>3. CASE history[u] = <<>>
    <3>1. task[u].assignee = task[u].initial
      BY <2>2, <2>3 DEF HistoryIsChain
    <3> QED
      BY <2>1, <2>2, <2>3, <3>1
  <2>4. CASE history[u] # <<>>
    <3>1. /\ history[u][1].from = task[u].initial
          /\ \A i \in 2..Len(history[u]) : history[u][i].from = history[u][i - 1].to
          /\ history[u][Len(history[u])].to = task[u].assignee
      BY <2>2, <2>4 DEF HistoryIsChain
    <3> QED
      BY <2>1, <2>2, <2>4, <3>1
  <2> QED
    BY <2>3, <2>4
<1>10. CompletedByAnOwner'
  <2> SUFFICES ASSUME NEW u \in TaskIds, task'[u].status = "COMPLETED"
               PROVE  (task[u].completedBy \in Owners(u) \ {Null})'
    BY DEF CompletedByAnOwner
  <2>1. CASE u = t /\ ~instance.event
    <3>1. instance.actor \in Owners(u)
      BY <1>1, <2>1 DEF IInv, Answering, TaskIds
    <3>2. task'[u].initial = task[u].initial /\ task'[u].completedBy = instance.actor
      BY <1>2, <2>1
    <3> QED
      BY <1>1, <3>1, <3>2 DEF Owners
  <2>2. CASE u # t \/ instance.event
    <3>1. task'[u] = task[u]
      BY <1>2, <2>2
    <3>2. task[u].completedBy \in Owners(u) \ {Null}
      BY <3>1 DEF IInv, CompletedByAnOwner
    <3> QED
      BY <1>1, <3>1, <3>2 DEF Owners
  <2> QED
    BY <2>1, <2>2
<1>11. OwnersWereTold'
  <2> SUFFICES ASSUME NEW u \in TaskIds, (task[u].status = "OPEN" /\ task[u].assignee # Null)'
               PROVE  (Told(u, task[u].assignee))'
    BY ToldOwners DEF OwnersWereTold, Told
  <2>1. CASE u # t /\ u = last
    <3> DEFINE p == InitialAssignee(u)
    <3>1. p # Null /\ task'[u].assignee = p /\ task'[u].initial = p /\ task'[u].createdBy = instance.actor
      BY <1>2, <2>1
    <3>2. CASE p # instance.actor
      <4>1. [recipient |-> p, task |-> u] \in inbox'
        BY <1>1, <1>3, <2>1, <3>1, <3>2, Receivers
      <4> QED
        BY <3>1, <4>1 DEF Told
    <3>3. CASE p = instance.actor
      BY <3>1, <3>3 DEF Told
    <3> QED
      BY <3>2, <3>3
  <2>2. CASE u = t \/ u # last
    <3>1. task'[u] = task[u]
      BY <1>2, <2>2
    <3>2. Told(u, task[u].assignee)
      BY <3>1, ToldOwners DEF IInv
    <3> QED
      BY <1>1, <1>3, <3>1, <3>2 DEF Told
  <2> QED
    BY <2>1, <2>2
<1> QED
  BY <1>4, <1>6, <1>8, <1>9, <1>10, <1>11 DEF IInv

LEMMA Stutters == ASSUME IInv, UNCHANGED vars PROVE IInv'
BY DEF vars, IInv, TypeOK, Order, Answering, Owners, HistoryIsChain, CompletedByAnOwner, OwnersWereTold

-----------------------------------------------------------------------------

LEMMA Preserved == IInv /\ [Next]_vars => IInv'
<1> SUFFICES ASSUME IInv, [Next]_vars
             PROVE  IInv'
  OBVIOUS
<1>1. CASE Commit \/ AcceptEvent
  BY <1>1, Commits, AcceptsEvent
<1>2. CASE Quarantine
  BY <1>2, Quarantines
<1>3. CASE Cancel
  BY <1>3, Cancels
<1>4. CASE \E g \in Groups : UpdateWorkGroup(g)
  BY <1>4, UpdatesWorkGroup
<1>5. CASE \E c \in Calls : BeginAssign(c) \/ BeginClaim(c) \/ BeginComplete(c)
  BY <1>5, BeginsAssign, BeginsClaim, BeginsComplete
<1>6. CASE \E c \in Calls : Assign(c) \/ Claim(c) \/ Complete(c)
  BY <1>6, Assigns, Claims, Completes
<1>7. CASE UNCHANGED vars
  BY <1>7, Stutters
<1> QED
  BY <1>1, <1>2, <1>3, <1>4, <1>5, <1>6, <1>7 DEF Next

LEMMA Always == SafeSpec => []IInv
<1> QED
  BY Initially, Preserved, PTL DEF SafeSpec

\* For every task the history of ownership leads without a gap from the
\* assignee of the checkpoint to the present owner (assignProcessTask,
\* claimProcessTask).
THEOREM Chain == SafeSpec => []HistoryIsChain
<1>1. IInv => HistoryIsChain
  BY DEF IInv
<1> QED
  BY <1>1, Always, PTL

\* A completed task was completed by someone who had owned it
\* (completeProcessTask, the commit of the checkpoint).
THEOREM Completion == SafeSpec => []CompletedByAnOwner
<1>1. IInv => CompletedByAnOwner
  BY DEF IInv
<1> QED
  BY <1>1, Always, PTL

\* The owner of an open task was notified or took it personally, unless it
\* was theirs from the start and created in their own name: then, and only
\* then, insertNotification leaves them out (insertNotification and its callers).
THEOREM Telling == SafeSpec => []OwnersWereTold
<1>1. IInv => OwnersWereTold
  BY DEF IInv
<1> QED
  BY <1>1, Always, PTL

\* The answer that was accepted is the one that counts: a second completion
\* never replaces the pending one (completeProcessTask).
THEOREM Acceptance == SafeSpec => AcceptedAnswerCounts
<1> DEFINE Counts == /\ instance.actor # Null => instance'.actor \in {instance.actor, Null}
                     /\ \A t \in TaskIds : task[t].status = "OPEN" /\ task'[t].status = "COMPLETED" =>
                          task'[t].completedBy = instance.actor
<1>1. ASSUME IInv, Next
      PROVE  Counts
  <2>1. CASE Commit
    <3>1. /\ instance'.actor = Null
          /\ \A u \in TaskIds : \/ task'[u].completedBy = instance.actor
                               \/ task'[u] = task[u]
                               \/ task'[u] = Created(u)
      BY <1>1, <2>1, Commitment
    <3>2. \A u \in TaskIds : task'[u] = Created(u) => task'[u].status = "OPEN"
      BY DEF Created
    <3> QED
      BY <3>1, <3>2
  <2>2. CASE Quarantine \/ Cancel \/ AcceptEvent
    BY <1>1, <2>2 DEF Quarantine, Cancel, AcceptEvent, IInv, TypeOK, Instance
  <2>3. CASE \E g \in Groups : UpdateWorkGroup(g)
    BY <2>3 DEF UpdateWorkGroup
  <2>4. CASE \E c \in Calls : BeginAssign(c) \/ BeginClaim(c) \/ BeginComplete(c)
    BY <2>4 DEF BeginAssign, BeginClaim, BeginComplete, Begin, Movable
  <2>5. CASE \E c \in Calls : Assign(c) \/ Claim(c) \/ Complete(c)
    <3>1. PICK c \in Calls : Assign(c) \/ Claim(c) \/ Complete(c)
      BY <2>5
    <3>2. CASE Refuse(c)
      BY <3>2 DEF Refuse
    <3>3. ASSUME NEW set, Hand(c, set)
          PROVE  Counts
      <4>1. /\ task' = [task EXCEPT ![call[c].task].assignee = call[c].to] /\ instance' = instance
            /\ task \in [TaskIds -> Task]
        BY <1>1, <3>3 DEF Hand, IInv, TypeOK
      <4>2. \A u \in TaskIds : task'[u].status = task[u].status
        BY <4>1 DEF Task
      <4> QED
        BY <4>1, <4>2
    <3>4. CASE Complete(c) /\ MayComplete(c)
      BY <3>4 DEF Complete, MayComplete
    <3> QED
      BY <3>1, <3>2, <3>3, <3>4 DEF Assign, Claim, Complete
  <2> QED
    BY <1>1, <2>1, <2>2, <2>3, <2>4, <2>5 DEF Next
<1>2. IInv /\ [Next]_vars => [Counts]_vars
  BY <1>1
<1> QED
  BY <1>2, Always, PTL DEF SafeSpec, AcceptedAnswerCounts

=============================================================================
