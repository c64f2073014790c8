----------------------------- MODULE RequestsProofs -----------------------------
(***************************************************************************)
(* All who send one idempotency key get the one answer to their request,   *)
(* for any sets of calls, keys, workspaces and contents.  RetriesAgree     *)
(* speaks of answers only.  It becomes inductive with what the rows say of *)
(* the calls that inserted them (RowsOk) and with the reasons for which    *)
(* calls stand where they are (Reasons): the index that a call has met     *)
(* stays taken, and what took it rules out a later row of equal body.      *)
(*                                                                         *)
(* The evaluation that a request asks for ends in what the decision table  *)
(* says as a whole, for tables and inputs of any size.  And the requests   *)
(* of a preview follow one path of one saved source, of any length.        *)
(***************************************************************************)
EXTENDS Requests, Sequences, WellFoundedInduction, TLAPS

\* Answers are told apart: a row's id is not a refusal.
AnswersApart == None \notin Calls \cup Refusals /\ Calls \cap Refusals = {}

Started == [phase : Phases \ {"idle"}, answer : Calls \cup Refusals \cup {None},
            body : Bodies, key : Keys \cup {None}, scope : Scopes]

CallsOk ==
  \A c \in Calls :
    \/ call[c] = [phase |-> "idle", answer |-> None]
    \/ call[c] \in Started

Busy(c) == call[c].phase # "idle"

\* A row tells of the call that inserted it, and keys are taken once.
RowsOk ==
  /\ rows \subseteq [id : Calls, key : Keys \cup {None}, body : Bodies]
  /\ \A r \in rows :
       /\ call[r.id].phase \in {"read", "done"}
       /\ call[r.id].key = r.key /\ call[r.id].body = r.body
       /\ call[r.id].phase = "done" => call[r.id].answer = r.id
  /\ \A r, s \in rows :
       r.key = s.key /\ r.key # None /\ r.body.operation = s.body.operation => r = s

\* A row of another request that has the key of c.
KeyOfAnother(c) ==
  \E r \in rows : /\ call[c].key # None /\ r.key = call[c].key
                  /\ r.body.operation = call[c].body.operation /\ r.body # call[c].body

\* An evaluation is of a decision that the caller may see.
InSight(c) == call[c].body.operation = "evaluate" => Sees(call[c].scope, call[c].body.workspace)

OwnRow(c) == \E r \in rows : r.key = call[c].key /\ r.key # None /\ r.body = call[c].body

\* Why a call stands where it stands.
Reason(c) ==
  /\ call[c].answer # None => call[c].phase = "done"
  /\ call[c].phase \in {"insert", "reload"} => InSight(c)
  /\ call[c].phase = "reload" => KeyTaken(c) \/ BusinessTaken(c)
  /\ call[c].phase = "read" => \E r \in rows : r.id = c
  /\ call[c].answer \in Calls =>
       \E r \in rows : r.id = call[c].answer /\ r.body = call[c].body /\ r.key = call[c].key
  /\ call[c].answer = "REUSED" => KeyOfAnother(c)
  /\ call[c].answer = "DUPLICATE" => BusinessTaken(c) /\ ~OwnRow(c)

Reasons == \A c \in Calls : Busy(c) => Reason(c)

IInv == call = [c \in Calls |-> call[c]] /\ CallsOk /\ RowsOk /\ Reasons

-----------------------------------------------------------------------------
(* One call moves, the others and the rows stay.                            *)

\* The facts about a call that has been begun.
LEMMA StartedFacts ==
  ASSUME IInv, NEW c \in Calls, Busy(c)
  PROVE  call[c] \in Started /\ Reason(c)
BY DEF IInv, CallsOk, Reasons, Busy

\* A call goes on to another phase before the end.
LEMMA GoesOn ==
  ASSUME AnswersApart, IInv, NEW c \in Calls, NEW next \in {"lookup", "insert", "deployment", "reload"},
         Busy(c), call[c].phase \notin {"read", "done"},
         GoTo(c, next), UNCHANGED rows,
         next \in {"insert", "reload"} => InSight(c),
         next = "reload" => KeyTaken(c) \/ BusinessTaken(c)
  PROVE  IInv'
<1>1. call[c] \in Started /\ Reason(c)
  BY StartedFacts
<1>2. call[c].answer = None
  BY <1>1 DEF Reason, Started
<1>3. /\ call' = [call EXCEPT ![c].phase = next]
      /\ call'[c] = [call[c] EXCEPT !.phase = next]
      /\ \A d \in Calls \ {c} : call'[d] = call[d]
  BY DEF GoTo, IInv
<1>4. /\ call'[c] \in Started /\ call'[c].phase = next /\ call'[c].answer = None
      /\ call'[c].body = call[c].body /\ call'[c].key = call[c].key /\ call'[c].scope = call[c].scope
  BY <1>1, <1>2, <1>3 DEF Started, Phases
<1>5. CallsOk'
  BY <1>3, <1>4 DEF IInv, CallsOk
<1>6. RowsOk'
  BY <1>3 DEF IInv, RowsOk
<1>7. Reasons'
  <2> SUFFICES ASSUME NEW d \in Calls, Busy(d)'
               PROVE  Reason(d)'
    BY DEF Reasons
  <2>1. CASE d # c
    <3>1. call'[d] = call[d] /\ rows' = rows
      BY <1>3, <2>1
    <3>2. Reason(d)
      BY <3>1 DEF IInv, Reasons, Busy
    <3> QED
      BY <3>1, <3>2 DEF Reason, KeyTaken, BusinessTaken, KeyOfAnother, OwnRow, InSight
  <2>2. CASE d = c
    BY <1>4, <2>2 DEF Reason, KeyTaken, BusinessTaken, InSight, Phases, AnswersApart, Refusals
  <2> QED
    BY <2>1, <2>2
<1> QED
  BY <1>3, <1>5, <1>6, <1>7 DEF IInv

\* A call is answered, with a reason for the answer.
LEMMA Answers ==
  ASSUME AnswersApart, IInv, NEW c \in Calls, NEW answer \in Calls \cup Refusals,
         Busy(c), call[c].phase # "done", Answer(c, answer), UNCHANGED rows,
         call[c].phase = "read" => answer = c,
         answer \in Calls =>
           \E r \in rows : r.id = answer /\ r.body = call[c].body /\ r.key = call[c].key,
         answer = "REUSED" => KeyOfAnother(c),
         answer = "DUPLICATE" => BusinessTaken(c) /\ ~OwnRow(c)
  PROVE  IInv'
<1>1. call[c] \in Started /\ Reason(c)
  BY StartedFacts
<1>2. /\ call' = [d \in Calls |-> IF d = c THEN [call[c] EXCEPT !.phase = "done", !.answer = answer]
                                  ELSE call[d]]
      /\ \A d \in Calls \ {c} : call'[d] = call[d]
  BY DEF Answer, IInv
<1>3. /\ call'[c] \in Started /\ call'[c].phase = "done" /\ call'[c].answer = answer
      /\ call'[c].body = call[c].body /\ call'[c].key = call[c].key /\ call'[c].scope = call[c].scope
  BY <1>1, <1>2 DEF Started, Phases
<1>4. CallsOk'
  BY <1>2, <1>3 DEF IInv, CallsOk
<1>5. RowsOk'
  <2>1. \A r \in rows : r.id \in Calls /\ (r.id = c => call[c].phase = "read")
    BY DEF IInv, RowsOk
  <2> QED
    BY <1>2, <1>3, <2>1 DEF IInv, RowsOk
<1>6. Reasons'
  <2> SUFFICES ASSUME NEW d \in Calls, Busy(d)'
               PROVE  Reason(d)'
    BY DEF Reasons
  <2>1. CASE d # c
    <3>1. call'[d] = call[d] /\ rows' = rows
      BY <1>2, <2>1
    <3>2. Reason(d)
      BY <3>1 DEF IInv, Reasons, Busy
    <3> QED
      BY <3>1, <3>2 DEF Reason, KeyTaken, BusinessTaken, KeyOfAnother, OwnRow, InSight
  <2>2. CASE d = c
    <3>1. rows' = rows
      OBVIOUS
    <3> QED
      BY <1>3, <2>2, <3>1 DEF Reason, KeyOfAnother, OwnRow, BusinessTaken
  <2> QED
    BY <2>1, <2>2
<1> QED
  BY <1>2, <1>4, <1>5, <1>6 DEF IInv

\* A call whose row is there settles for the answer of that row.
LEMMA Settles ==
  ASSUME AnswersApart, IInv, NEW c \in Calls, NEW row \in Found(c),
         Busy(c), call[c].phase \notin {"read", "done"}, Settle(c, row), UNCHANGED rows
  PROVE  IInv'
<1>1. /\ row \in rows /\ call[c].key # None /\ row.key = call[c].key
      /\ row.body.operation = call[c].body.operation
  BY DEF Found
<1>2. row.id \in Calls
  BY <1>1 DEF IInv, RowsOk
<1>3. CASE row.body = call[c].body
  BY <1>1, <1>2, <1>3, Answers DEF Settle, AnswersApart, Refusals
<1>4. CASE row.body # call[c].body
  <2>1. KeyOfAnother(c)
    BY <1>1, <1>4 DEF KeyOfAnother
  <2> QED
    BY <1>4, <2>1, Answers DEF Settle, AnswersApart, Refusals
<1> QED
  BY <1>3, <1>4

\* A call is begun.
LEMMA Begins ==
  ASSUME AnswersApart, IInv, NEW c \in Calls, NEW body \in Bodies, NEW key \in Keys \cup {None},
         NEW scope \in Scopes, Begin(c, body, key, scope)
  PROVE  IInv'
<1> DEFINE begun == [phase |-> IF body.operation = "start" THEN "deployment" ELSE "lookup",
                     answer |-> None, body |-> body, key |-> key, scope |-> scope]
<1>1. /\ call' = [d \in Calls |-> IF d = c THEN begun ELSE call[d]]
      /\ \A d \in Calls \ {c} : call'[d] = call[d]
      /\ call[c].phase = "idle" /\ rows' = rows
  BY DEF Begin, IInv
<1>2. call'[c] \in Started /\ call'[c].phase \in {"deployment", "lookup"} /\ call'[c].answer = None
  BY <1>1 DEF Started, Phases
<1>3. CallsOk'
  BY <1>1, <1>2 DEF IInv, CallsOk
<1>4. RowsOk'
  BY <1>1 DEF IInv, RowsOk
<1>5. Reasons'
  <2> SUFFICES ASSUME NEW d \in Calls, Busy(d)'
               PROVE  Reason(d)'
    BY DEF Reasons
  <2>1. CASE d # c
    <3>1. call'[d] = call[d] /\ rows' = rows
      BY <1>1, <2>1
    <3>2. Reason(d)
      BY <3>1 DEF IInv, Reasons, Busy
    <3> QED
      BY <3>1, <3>2 DEF Reason, KeyTaken, BusinessTaken, KeyOfAnother, OwnRow, InSight
  <2>2. CASE d = c
    BY <1>2, <2>2 DEF Reason, AnswersApart, Refusals
  <2> QED
    BY <2>1, <2>2
<1> QED
  BY <1>1, <1>3, <1>4, <1>5 DEF IInv

\* A row is inserted.  It has no key that was taken, and no call that was
\* refused as a duplicate waits for a row of its own: its business key is taken.
LEMMA Inserts ==
  ASSUME AnswersApart, IInv, NEW c \in Calls, Insert(c)
  PROVE  IInv'
<1>1. call[c].phase = "insert" /\ Busy(c)
  BY DEF Insert, Busy
<1>2. call[c] \in Started /\ Reason(c)
  BY <1>1, StartedFacts
<1>3. CASE KeyTaken(c) \/ BusinessTaken(c)
  <2>1. GoTo(c, "reload") /\ UNCHANGED rows
    BY <1>3 DEF Insert
  <2>2. InSight(c)
    BY <1>1, <1>2 DEF Reason
  <2> QED
    BY <1>1, <1>3, <2>1, <2>2, GoesOn
<1>4. CASE ~KeyTaken(c) /\ ~BusinessTaken(c)
  <2> DEFINE new == [id |-> c, key |-> call[c].key, body |-> call[c].body]
  <2>1. /\ rows' = rows \cup {new}
        /\ call' = [d \in Calls |-> IF d = c THEN [call[c] EXCEPT !.phase = "read"] ELSE call[d]]
        /\ \A d \in Calls \ {c} : call'[d] = call[d]
    BY <1>4 DEF Insert, GoTo, IInv
  <2>2. /\ call'[c] \in Started /\ call'[c].phase = "read" /\ call'[c].answer = None
        /\ call'[c].body = call[c].body /\ call'[c].key = call[c].key
    BY <1>1, <1>2, <2>1 DEF Started, Phases, Reason
  <2>3. new \in [id : Calls, key : Keys \cup {None}, body : Bodies]
    BY <1>2 DEF Started
  <2>4. \A r \in rows : r.id \in Calls \ {c}
    BY <1>1 DEF IInv, RowsOk
  <2>5. CallsOk'
    BY <2>1, <2>2 DEF IInv, CallsOk
  <2>6. RowsOk'
    <3>1. rows' \subseteq [id : Calls, key : Keys \cup {None}, body : Bodies]
      BY <2>1, <2>3 DEF IInv, RowsOk
    <3>2. ASSUME NEW r \in rows'
          PROVE  /\ call'[r.id].phase \in {"read", "done"}
                 /\ call'[r.id].key = r.key /\ call'[r.id].body = r.body
                 /\ call'[r.id].phase = "done" => call'[r.id].answer = r.id
      <4>1. CASE r \in rows
        BY <2>1, <2>4, <4>1 DEF IInv, RowsOk
      <4>2. CASE r = new
        BY <2>2, <4>2
      <4> QED
        BY <2>1, <4>1, <4>2
    <3>3. ASSUME NEW r \in rows', NEW s \in rows',
                 r.key = s.key, r.key # None, r.body.operation = s.body.operation
          PROVE  r = s
      <4>1. \A q \in rows : ~(new.key # None /\ q.key = new.key /\ q.body.operation = new.body.operation)
        BY <1>4 DEF KeyTaken
      <4> QED
        BY <2>1, <3>3, <4>1 DEF IInv, RowsOk
    <3> QED
      BY <3>1, <3>2, <3>3 DEF RowsOk
  <2>7. Reasons'
    <3> SUFFICES ASSUME NEW d \in Calls, Busy(d)'
                 PROVE  Reason(d)'
      BY DEF Reasons
    <3>1. CASE d # c
      <4>1. call'[d] = call[d] /\ rows \subseteq rows'
        BY <2>1, <3>1
      <4>2. Reason(d)
        BY <4>1 DEF IInv, Reasons, Busy
      <4>3. (call[d].answer = "DUPLICATE" => ~OwnRow(d))'
        <5> SUFFICES ASSUME call[d].answer = "DUPLICATE"
                     PROVE  ~OwnRow(d)'
          BY <4>1
        <5>1. BusinessTaken(d) /\ ~OwnRow(d)
          BY <4>2 DEF Reason
        <5>2. new.body # call[d].body
          BY <1>4, <5>1 DEF BusinessTaken
        <5> QED
          BY <2>1, <4>1, <5>1, <5>2 DEF OwnRow
      <4> QED
        BY <4>1, <4>2, <4>3 DEF Reason, KeyTaken, BusinessTaken, KeyOfAnother, InSight
    <3>2. CASE d = c
      <4>1. new \in rows' /\ new.id = c
        BY <2>1
      <4>2. \E r \in rows' : r.id = c
        BY <4>1
      <4> HIDE DEF new
      <4> QED
        BY <2>2, <3>2, <4>2 DEF Reason, AnswersApart, Refusals
    <3> QED
      BY <3>1, <3>2
  <2> QED
    BY <2>1, <2>5, <2>6, <2>7 DEF IInv
<1> QED
  BY <1>3, <1>4

\* Who met an index looks again.
LEMMA Reloads ==
  ASSUME AnswersApart, IInv, NEW c \in Calls, Reload(c)
  PROVE  IInv'
<1>1. call[c].phase = "reload" /\ Busy(c) /\ UNCHANGED rows /\ Again(c)
  BY DEF Reload, Busy
<1>2. call[c] \in Started /\ Reason(c)
  BY <1>1, StartedFacts
<1>3. InSight(c) /\ (KeyTaken(c) \/ BusinessTaken(c))
  BY <1>1, <1>2 DEF Reason
<1>4. CASE Found(c) # {}
  BY <1>1, <1>4, Settles DEF Again
<1>5. CASE Found(c) = {} /\ call[c].body.operation = "start"
  <2>1. Answer(c, "DUPLICATE")
    BY <1>1, <1>5 DEF Again
  <2>2. ~KeyTaken(c) /\ ~OwnRow(c)
    BY <1>5 DEF Found, KeyTaken, OwnRow
  <2> QED
    BY <1>1, <1>3, <2>1, <2>2, Answers DEF Refusals, AnswersApart
<1>6. CASE Found(c) = {} /\ call[c].body.operation # "start"
  <2>1. Answer(c, "REUSED")
    BY <1>1, <1>6 DEF Again
  <2>2. call[c].body.operation = "evaluate" /\ call[c].body.business = None
    BY <1>2, <1>6 DEF Started, Bodies
  <2>3. PICK r \in rows : /\ call[c].key # None /\ r.key = call[c].key
                          /\ r.body.operation = call[c].body.operation
    BY <1>3, <2>2 DEF BusinessTaken, KeyTaken
  <2>4. r.body # call[c].body
    BY <1>3, <1>6, <2>2, <2>3 DEF Found, InSight
  <2>5. KeyOfAnother(c)
    BY <2>3, <2>4 DEF KeyOfAnother
  <2> QED
    BY <1>1, <2>1, <2>5, Answers DEF Refusals, AnswersApart
<1> QED
  BY <1>4, <1>5, <1>6

-----------------------------------------------------------------------------
(* The invariant.                                                           *)

LEMMA Initially == Init => IInv
BY DEF Init, IInv, CallsOk, RowsOk, Reasons, Busy

LEMMA Preserved ==
  ASSUME AnswersApart, IInv, [Next]_vars
  PROVE  IInv'
<1>1. ASSUME NEW c \in Calls, NEW body \in Bodies, NEW key \in Keys \cup {None}, NEW scope \in Scopes,
             Begin(c, body, key, scope)
      PROVE  IInv'
  BY <1>1, Begins
<1>2. ASSUME NEW c \in Calls, FindDeployment(c)
      PROVE  IInv'
  <2>1. call[c].phase = "deployment" /\ Busy(c) /\ UNCHANGED rows
    BY <1>2 DEF FindDeployment, Busy
  <2>2. GoTo(c, "lookup") \/ Answer(c, "NOT_FOUND")
    BY <1>2 DEF FindDeployment
  <2> QED
    BY <2>1, <2>2, GoesOn, Answers DEF Refusals, AnswersApart
<1>3. ASSUME NEW c \in Calls, FindDecision(c)
      PROVE  IInv'
  <2>1. call[c].phase = "deployment" /\ Busy(c) /\ UNCHANGED rows
    BY <1>3 DEF FindDecision, Busy
  <2>2. \/ Sees(call[c].scope, call[c].body.workspace) /\ GoTo(c, "insert")
        \/ Answer(c, "NOT_FOUND")
    BY <1>3 DEF FindDecision
  <2>3. CASE Sees(call[c].scope, call[c].body.workspace) /\ GoTo(c, "insert")
    BY <2>1, <2>3, GoesOn DEF InSight
  <2> QED
    BY <2>1, <2>2, <2>3, Answers DEF Refusals, AnswersApart
<1>4. ASSUME NEW c \in Calls, LookUp(c)
      PROVE  IInv'
  <2>1. call[c].phase = "lookup" /\ Busy(c) /\ UNCHANGED rows
    BY <1>4 DEF LookUp, Busy
  <2>2. CASE \E row \in Found(c) : Settle(c, row)
    BY <2>1, <2>2, Settles
  <2>3. CASE call[c].body.operation = "start" /\ GoTo(c, "insert")
    BY <2>1, <2>3, GoesOn DEF InSight
  <2>4. CASE GoTo(c, "deployment")
    BY <2>1, <2>4, GoesOn
  <2> QED
    BY <1>4, <2>2, <2>3, <2>4 DEF LookUp
<1>5. ASSUME NEW c \in Calls, Insert(c)
      PROVE  IInv'
  BY <1>5, Inserts
<1>6. ASSUME NEW c \in Calls, Reload(c)
      PROVE  IInv'
  BY <1>6, Reloads
<1>7. ASSUME NEW c \in Calls, Read(c)
      PROVE  IInv'
  <2>1. call[c].phase = "read" /\ Busy(c) /\ UNCHANGED rows /\ Answer(c, c)
    BY <1>7 DEF Read, Busy
  <2>2. PICK r \in rows : r.id = c
    BY <2>1 DEF IInv, Reasons, Reason
  <2>3. r.body = call[c].body /\ r.key = call[c].key
    BY <2>2 DEF IInv, RowsOk
  <2> QED
    BY <2>1, <2>2, <2>3, Answers DEF Refusals, AnswersApart
<1>8. CASE UNCHANGED vars
  BY <1>8 DEF vars, IInv, CallsOk, RowsOk, Reasons, Reason, Busy, KeyTaken, BusinessTaken, KeyOfAnother, OwnRow, InSight
<1> QED
  BY <1>1, <1>2, <1>3, <1>4, <1>5, <1>6, <1>7, <1>8 DEF Next

\* Rows and reasons leave no two answers to one request.
LEMMA Agree ==
  ASSUME AnswersApart, IInv
  PROVE  RetriesAgree
<1>1. ASSUME NEW c \in Calls, call[c].answer # None
      PROVE  Busy(c) /\ call[c].phase = "done" /\ Reason(c)
  <2>1. Busy(c)
    BY <1>1 DEF IInv, CallsOk, Busy, Started
  <2> QED
    BY <1>1, <2>1 DEF IInv, Reasons, Reason
<1>2. ASSUME NEW c \in Answered
      PROVE  \E r \in rows : r.id = call[c].answer /\ r.body = call[c].body /\ r.key = call[c].key
  <2>1. c \in Calls /\ call[c].answer \in Calls /\ call[c].answer # None
    BY <1>2 DEF Answered, AnswersApart
  <2> QED
    BY <1>1, <2>1 DEF Reason
<1>3. ASSUME NEW c \in Answered, NEW d \in Answered,
             call[c].key = call[d].key, call[c].key # None, call[c].body.operation = call[d].body.operation
      PROVE  call[c].answer = call[d].answer
  <2>1. PICK r \in rows : r.id = call[c].answer /\ r.body = call[c].body /\ r.key = call[c].key
    BY <1>2
  <2>2. PICK s \in rows : s.id = call[d].answer /\ s.body = call[d].body /\ s.key = call[d].key
    BY <1>2
  <2>3. r = s
    BY <1>3, <2>1, <2>2 DEF IInv, RowsOk
  <2> QED
    BY <2>1, <2>2, <2>3
<1>4. ASSUME NEW c \in Calls, call[c].answer \in {"REUSED", "DUPLICATE"}, NEW r \in rows
      PROVE  ~(r.key = call[c].key /\ r.key # None /\ r.body = call[c].body)
  <2>1. Reason(c)
    BY <1>1, <1>4 DEF AnswersApart, Refusals
  <2>2. CASE call[c].answer = "DUPLICATE"
    BY <2>1, <2>2 DEF Reason, OwnRow
  <2>3. CASE call[c].answer = "REUSED"
    <3>1. PICK q \in rows : /\ call[c].key # None /\ q.key = call[c].key
                            /\ q.body.operation = call[c].body.operation /\ q.body # call[c].body
      BY <2>1, <2>3 DEF Reason, KeyOfAnother
    <3> QED
      BY <3>1 DEF IInv, RowsOk
  <2> QED
    BY <1>4, <2>2, <2>3
<1> QED
  BY <1>2, <1>3, <1>4 DEF RetriesAgree

\* However calls race, stop and are repeated, what a caller is answered was
\* made for this very request, all who send one key get the one answer, and
\* nobody is refused because of an equal request (evaluateDecision,
\* startProcessInstance): for any calls, keys, workspaces and contents whose
\* ids are not mistaken for refusals.
THEOREM Agreement ==
  ASSUME AnswersApart
  PROVE  Spec => []RetriesAgree
<1>1. Init => IInv
  BY Initially
<1>2. IInv /\ [Next]_vars => IInv'
  BY Preserved
<1>3. IInv => RetriesAgree
  BY Agree
<1> QED
  BY <1>1, <1>2, <1>3, PTL DEF Spec

-----------------------------------------------------------------------------
(* Decisions.                                                               *)
(* What evaluates a deployed decision, whether for a request or for a task, *)
(* tests the rules one after the other, and the cells of each rule up to    *)
(* the first that does not accept.                                          *)

CONSTANTS Tables, Names, Values, Outputs, Failing
VARIABLES table, variables, result, phase, rule, matching, outcome

Table == INSTANCE DecisionTable

\* What is deployed has the form of a decision table, and no outcome yet is not
\* an outcome.
Deployable ==
  /\ \A t \in Tables : Table!IsTable(t)
  /\ None \notin Table!Statuses

-----------------------------------------------------------------------------
\* A set of natural numbers has a least one.
LEMMA Least ==
  ASSUME NEW S \in SUBSET Nat, S # {}
  PROVE  \E x \in S : \A y \in S : x <= y
<1>1. PICK x \in S : \A y \in S : ~(<<y, x>> \in OpToRel(<, Nat))
  BY NatLessThanWellFounded, WFMin
<1>2. \A y \in S : ~(y < x)
  BY <1>1 DEF OpToRel
<1> QED
  BY <1>2

\* So the rule that decides is one of those that match, the first.
LEMMA FirstDecides ==
  ASSUME NEW S \in SUBSET Nat, S # {}
  PROVE  Table!Selected(S) \in S /\ \A y \in S : Table!Selected(S) <= y
BY Least DEF Table!Selected, Table!Min

-----------------------------------------------------------------------------
(* Tables.                                                                  *)

Conflict == \E i, k \in Table!Fitting : i # k

\* Of the variables only matching, result, phase, rule and outcome change;
\* what the table says of the inputs stays.
LEMMA Unchanging ==
  ASSUME UNCHANGED <<table, variables>>
  PROVE  /\ Table!Rules' = Table!Rules /\ Table!Fitting' = Table!Fitting /\ Table!Broken' = Table!Broken
         /\ Table!Parsed(table)' = Table!Parsed(table) /\ Conflict' = Conflict
BY DEF Table!Rules, Table!Fitting, Table!Broken, Table!Parsed, Table!Accepts, Table!Input, Conflict

LEMMA RulesAreNumbered ==
  ASSUME Table!IsTable(table)
  PROVE  /\ Len(table.rules) \in Nat /\ DOMAIN table.rules = Table!Rules /\ Table!Rules = 1..Len(table.rules)
         /\ Table!Fitting \in SUBSET Nat /\ Table!Fitting \subseteq Table!Rules /\ Table!Broken \subseteq Table!Rules
         /\ Len(table.names) \in Nat /\ DOMAIN table.names = 1..Len(table.names)
BY DEF Table!IsTable, Table!Rules, Table!Fitting, Table!Broken

\* Testing the cells of a rule up to the first that does not accept finds a
\* failing cell if the rule is broken, and else whether all of it fits.
LEMMA RuleByCells ==
  ASSUME Table!IsTable(table), NEW i \in Table!Rules
  PROVE  /\ (\E j \in Table!Evaluated(i) : table.rules[i].cells[j] = Failing) <=> i \in Table!Broken
         /\ (\A j \in Table!Evaluated(i) : Table!Accepts(i, j)) <=> i \in Table!Fitting
<1>1. (\E j \in Table!Evaluated(i) : table.rules[i].cells[j] = Failing) <=> i \in Table!Broken
  BY DEF Table!Evaluated, Table!Broken
<1>2. i \in Table!Fitting => \A j \in Table!Evaluated(i) : Table!Accepts(i, j)
  BY DEF Table!Evaluated, Table!Fitting
<1>3. ASSUME \A j \in Table!Evaluated(i) : Table!Accepts(i, j)
      PROVE  i \in Table!Fitting
  <2> DEFINE refusing == {j \in DOMAIN table.names : ~Table!Accepts(i, j)}
  <2>1. CASE refusing = {}
    BY <2>1 DEF Table!Fitting
  <2>2. CASE refusing # {}
    <3>1. refusing \in SUBSET Nat
      BY RulesAreNumbered
    <3>2. PICK j \in refusing : \A k \in refusing : j <= k
      <4> HIDE DEF refusing
      <4> QED
        BY <2>2, <3>1, Least
    <3>3. \A k \in 1..(j - 1) : k \in DOMAIN table.names /\ ~(j <= k)
      BY <3>1, RulesAreNumbered
    <3>4. j \in Table!Evaluated(i)
      BY <3>2, <3>3 DEF Table!Evaluated
    <3> QED
      BY <1>3, <3>4
  <2> QED
    BY <2>1, <2>2
<1> QED
  BY <1>1, <1>2, <1>3

-----------------------------------------------------------------------------
(* The evaluation.                                                          *)

\* Up to rule, the matching rules are those that fit, and none is broken.
Tested(upTo) ==
  /\ matching = {i \in Table!Fitting : i <= upTo}
  /\ \A i \in Table!Broken : i > upTo

TableInv ==
  /\ Table!IsTable(table)
  /\ rule \in Table!Rules \cup {1}
  /\ phase \in {"parse", "require", "test", "conclude", "done"}
  /\ phase \in {"parse", "require"} => rule = 1 /\ matching = {}
  /\ phase \in {"require", "test", "conclude"} => Table!Parsed(table)
  /\ phase = "test" => Tested(rule - 1)
  /\ phase = "conclude" => matching = Table!Fitting /\ Table!Broken = {}
  /\ phase # "done" => outcome = None /\ result = None
  /\ Table!DecidedByTheTable

LEMMA TableInitially == Deployable /\ Table!Init => TableInv
BY DEF Deployable, Table!Init, TableInv, Table!DecidedByTheTable, Table!Statuses

\* An evaluation that fails leaves the variables, for a reason in the table.
LEMMA Fails ==
  ASSUME Deployable, TableInv, phase # "done",
         NEW status \in {"INVALID", "DMN_INPUT_REQUIRED", "DMN_FEEL_EVALUATION_FAILED"}, Table!End(status),
         status = "DMN_FEEL_EVALUATION_FAILED" =>
           Table!Broken # {} \/ \E i \in Table!Fitting : table.rules[i].output = Failing
  PROVE  TableInv'
<1>1. /\ UNCHANGED <<table, variables, result, rule, matching>> /\ outcome' = status /\ phase' = "done"
      /\ result = None
  BY DEF Table!End, TableInv
<1>2. Table!Rules' = Table!Rules /\ Table!Fitting' = Table!Fitting /\ Table!Broken' = Table!Broken
  BY <1>1, Unchanging
<1>3. Table!DecidedByTheTable'
  BY <1>1, <1>2 DEF Table!DecidedByTheTable
<1> QED
  BY <1>1, <1>2, <1>3 DEF TableInv

\* The table is taken as it is until the evaluation ends.
LEMMA Continues ==
  ASSUME Deployable, TableInv, phase # "done", UNCHANGED <<table, variables, result, outcome>>
  PROVE  Table!DecidedByTheTable'
<1>1. outcome' = None /\ result' = None
  BY DEF TableInv
<1> QED
  BY <1>1 DEF Table!DecidedByTheTable, Deployable, Table!Statuses

LEMMA Parses == ASSUME Deployable, TableInv, Table!Parse PROVE TableInv'
<1>1. phase = "parse" /\ Table!IsTable(table)
  BY DEF Table!Parse, TableInv
<1>2. CASE ~Table!Parsed(table)
  BY <1>1, <1>2, Fails DEF Table!Parse
<1>3. CASE Table!Parsed(table)
  <2>1. /\ UNCHANGED <<table, variables, result, outcome, rule, matching>> /\ phase' = "require"
    BY <1>3 DEF Table!Parse, Table!GoOn
  <2>2. Table!DecidedByTheTable' /\ Table!Rules' = Table!Rules /\ Table!Parsed(table)'
    BY <1>1, <1>3, <2>1, Continues, Unchanging
  <2> QED
    BY <1>1, <2>1, <2>2 DEF TableInv
<1> QED
  BY <1>2, <1>3

LEMMA Requires == ASSUME Deployable, TableInv, Table!Require PROVE TableInv'
<1>1. phase = "require" /\ Table!IsTable(table) /\ rule = 1 /\ matching = {} /\ Table!Parsed(table)
  BY DEF Table!Require, TableInv
<1>2. CASE Table!End("DMN_INPUT_REQUIRED")
  BY <1>1, <1>2, Fails
<1>3. CASE Table!GoOn("test") /\ UNCHANGED <<rule, matching>>
  <2>1. /\ UNCHANGED <<table, variables, result, outcome, rule, matching>> /\ phase' = "test"
    BY <1>3 DEF Table!GoOn
  <2>2. /\ Table!DecidedByTheTable' /\ Table!Rules' = Table!Rules /\ Table!Parsed(table)'
        /\ Table!Fitting' = Table!Fitting /\ Table!Broken' = Table!Broken
    BY <1>1, <2>1, Continues, Unchanging
  <2>3. Tested(rule - 1)'
    BY <1>1, <2>1, <2>2, RulesAreNumbered DEF Tested
  <2> QED
    BY <1>1, <2>1, <2>2, <2>3 DEF TableInv
<1> QED
  BY <1>2, <1>3 DEF Table!Require

\* One more rule is tested.
LEMMA Tests == ASSUME Deployable, TableInv, Table!Test PROVE TableInv'
<1>1. phase = "test" /\ Table!IsTable(table) /\ Tested(rule - 1) /\ Table!Parsed(table)
  BY DEF Table!Test, TableInv
<1>2. rule \in Table!Rules /\ Table!Rules = 1..Len(table.rules) /\ Len(table.rules) \in Nat
  BY <1>1, RulesAreNumbered DEF TableInv, Table!Parsed, Table!IsTable
<1>3. CASE \E j \in Table!Evaluated(rule) : table.rules[rule].cells[j] = Failing
  <2>1. rule \in Table!Broken
    BY <1>1, <1>2, <1>3, RuleByCells
  <2> QED
    BY <1>1, <1>3, <2>1, Fails DEF Table!Test
<1>4. CASE ~\E j \in Table!Evaluated(rule) : table.rules[rule].cells[j] = Failing
  <2>1. /\ UNCHANGED <<table, variables, result, outcome>>
        /\ matching' = IF \A j \in Table!Evaluated(rule) : Table!Accepts(rule, j) THEN matching \cup {rule} ELSE matching
        /\ \/ rule = Len(table.rules) /\ phase' = "conclude" /\ rule' = rule
           \/ rule # Len(table.rules) /\ phase' = "test" /\ rule' = rule + 1
    BY <1>4 DEF Table!Test, Table!GoOn
  <2>2. /\ Table!DecidedByTheTable' /\ Table!Rules' = Table!Rules /\ Table!Parsed(table)'
        /\ Table!Fitting' = Table!Fitting /\ Table!Broken' = Table!Broken
    BY <1>1, <2>1, Continues, Unchanging
  <2>3. /\ rule \notin Table!Broken
        /\ (\A j \in Table!Evaluated(rule) : Table!Accepts(rule, j)) <=> rule \in Table!Fitting
    BY <1>1, <1>2, <1>4, RuleByCells
  <2>4. matching' = {i \in Table!Fitting : i <= rule}
    <3>1. matching' = IF rule \in Table!Fitting THEN matching \cup {rule} ELSE matching
      BY <2>1, <2>3
    <3> QED
      BY <1>1, <1>2, <3>1, RulesAreNumbered DEF Tested
  <2>5. \A i \in Table!Broken : i > rule
    BY <1>1, <1>2, <2>3, RulesAreNumbered DEF Tested
  <2>6. CASE rule = Len(table.rules) /\ phase' = "conclude" /\ rule' = rule
    <3>1. matching' = Table!Fitting /\ Table!Broken = {}
      BY <1>1, <1>2, <2>4, <2>5, <2>6, RulesAreNumbered
    <3> QED
      BY <1>1, <1>2, <2>1, <2>2, <2>6, <3>1 DEF TableInv
  <2>7. CASE rule # Len(table.rules) /\ phase' = "test" /\ rule' = rule + 1
    <3>1. rule' - 1 = rule /\ rule' \in Table!Rules
      BY <1>2, <2>7
    <3>2. Tested(rule - 1)'
      BY <2>2, <2>4, <2>5, <3>1 DEF Tested
    <3> QED
      BY <1>1, <2>1, <2>2, <2>7, <3>1, <3>2 DEF TableInv
  <2> QED
    BY <2>1, <2>6, <2>7
<1> QED
  BY <1>3, <1>4

LEMMA Concludes == ASSUME Deployable, TableInv, Table!Conclude PROVE TableInv'
<1>1. /\ phase = "conclude" /\ Table!IsTable(table) /\ matching = Table!Fitting /\ Table!Broken = {} /\ Table!Parsed(table)
      /\ result = None
  BY DEF Table!Conclude, TableInv
<1>2. /\ UNCHANGED <<table, variables, rule, matching>> /\ phase' = "done"
      /\ Table!Rules' = Table!Rules /\ Table!Fitting' = Table!Fitting /\ Table!Broken' = Table!Broken /\ Table!Parsed(table)'
  BY <1>1, Unchanging DEF Table!Conclude, Table!End
<1>3. Table!DecidedByTheTable'
  <2>1. CASE table.policy = "UNIQUE" /\ Conflict
    <3>1. outcome' = "DMN_UNIQUE_HIT_VIOLATION" /\ result' = None
      BY <1>1, <2>1 DEF Table!Conclude, Table!End, Conflict
    <3>2. Table!Fitting # {} /\ \E i, k \in Table!Fitting : i # k
      BY <2>1 DEF Conflict
    <3> QED
      BY <1>1, <1>2, <2>1, <3>1, <3>2 DEF Table!DecidedByTheTable
  <2>2. CASE ~(table.policy = "UNIQUE" /\ Conflict) /\ Table!Fitting = {}
    <3>1. outcome' = "NO_MATCH" /\ result' = None
      BY <1>1, <2>2 DEF Table!Conclude, Table!End, Conflict
    <3> QED
      BY <1>1, <1>2, <2>2, <3>1 DEF Table!DecidedByTheTable
  <2>3. CASE ~(table.policy = "UNIQUE" /\ Conflict) /\ Table!Fitting # {}
    <3>1. Table!Selected(Table!Fitting) \in Table!Fitting /\ \A k \in Table!Fitting : Table!Selected(Table!Fitting) <= k
      BY <1>1, <2>3, RulesAreNumbered, FirstDecides
    <3>2. CASE table.rules[Table!Selected(Table!Fitting)].output = Failing
      <4>1. outcome' = "DMN_FEEL_EVALUATION_FAILED" /\ result' = None
        BY <1>1, <2>3, <3>2 DEF Table!Conclude, Table!End, Conflict
      <4> QED
        BY <1>2, <3>1, <3>2, <4>1 DEF Table!DecidedByTheTable
    <3>3. CASE table.rules[Table!Selected(Table!Fitting)].output # Failing
      <4>1. outcome' = "MATCHED" /\ result' = table.rules[Table!Selected(Table!Fitting)].output
        BY <1>1, <2>3, <3>3 DEF Table!Conclude, Table!End, Conflict
      <4>2. ~(table.policy = "UNIQUE" /\ \E i, k \in Table!Fitting : i # k)
        BY <2>3 DEF Conflict
      <4> QED
        BY <1>1, <1>2, <2>3, <3>1, <4>1, <4>2 DEF Table!DecidedByTheTable
    <3> QED
      BY <3>2, <3>3
  <2> QED
    BY <2>1, <2>2, <2>3
<1> QED
  BY <1>1, <1>2, <1>3 DEF TableInv

\* An evaluation takes one of its steps, or none.
LEMMA TablePreserved ==
  ASSUME Deployable, TableInv, [Table!Next]_Table!vars
  PROVE  TableInv'
<1>1. CASE UNCHANGED Table!vars
  <2>1. /\ UNCHANGED <<table, variables, result, phase, rule, matching, outcome>>
        /\ Table!Rules' = Table!Rules /\ Table!Fitting' = Table!Fitting /\ Table!Broken' = Table!Broken /\ Table!Parsed(table)' = Table!Parsed(table)
    BY <1>1, Unchanging DEF Table!vars
  <2> QED
    BY <2>1 DEF TableInv, Tested, Table!DecidedByTheTable
<1> QED
  BY <1>1, Parses, Requires, Tests, Concludes DEF Table!Next

-----------------------------------------------------------------------------
\* Whatever rule by rule evaluation ends in is what the table says
\* (evaluateParsedDmnDecision), for any deployed tables, any number of rules
\* and inputs and any cells.
THEOREM Decided ==
  ASSUME Deployable
  PROVE  Table!Spec => []Table!DecidedByTheTable
<1>1. Table!Init => TableInv
  BY TableInitially
<1>2. TableInv /\ [Table!Next]_Table!vars => TableInv'
  BY TablePreserved
<1>3. TableInv => Table!DecidedByTheTable
  BY DEF TableInv
<1> QED
  BY <1>1, <1>2, <1>3, PTL DEF Table!Spec

-----------------------------------------------------------------------------
(* Previews.                                                                *)
(* The requests that simulate a draft keep nothing on the server: what a    *)
(* preview shows is one path because of what stands in the call that is     *)
(* under way.                                                               *)

CONSTANTS Texts, Waits, UsesDecision, MaxRevisions, MaxDecisions
VARIABLES revisions, decision, page, standing, journey, step

Preview == INSTANCE DraftSimulation WITH result <- standing, call <- step

\* Nothing yet is not an envelope.
Enveloped == None \notin Preview!Envelope

Stages == {"none", "sent", "draft", "run"}
JourneySteps == [text : Texts, position : Nat \ {0}, decision : Nat]

PreviewTyped ==
  /\ revisions \in Seq(Texts) /\ revisions # <<>>
  /\ decision \in Nat /\ page \in Nat
  /\ standing \in Preview!Envelope \cup {None}
  /\ journey \in Seq(JourneySteps)
  /\ step \in [stage : Stages, revision : Nat, envelope : Preview!Envelope \cup {None},
               text : Texts \cup {None}, decision : Nat]

\* A call goes on from where the page stands.  The decision that it has read is
\* as young as any along the journey.
StepInv ==
  /\ step.stage # "none" => step.envelope = standing
  /\ step.stage \in {"sent", "draft"} => step.decision = 0
  /\ step.stage \in {"draft", "run"} => step.text \in Texts
  /\ step.stage = "run" =>
       /\ step.text \in UsesDecision <=> step.decision > 0
       /\ step.decision <= decision
       /\ step.text \in UsesDecision => \A i \in DOMAIN journey : journey[i].decision <= step.decision

\* No decision along the journey is younger than the head.
JourneyIsSaved == \A i \in DOMAIN journey : journey[i].decision <= decision

PreviewInv == PreviewTyped /\ StepInv /\ JourneyIsSaved /\ Preview!JourneyIsOnePath

LEMMA PreviewInitially == Preview!Init => PreviewInv
<1> SUFFICES ASSUME Preview!Init
             PROVE  PreviewInv
  OBVIOUS
<1>1. PICK t \in Texts : revisions = <<t>>
  BY DEF Preview!Init
<1>2. step \in [stage : Stages, revision : Nat, envelope : Preview!Envelope \cup {None},
                text : Texts \cup {None}, decision : Nat]
  BY DEF Preview!Init, Preview!NoCall, Stages
<1>3. PreviewTyped
  BY <1>1, <1>2 DEF Preview!Init, PreviewTyped, JourneySteps
<1> QED
  BY <1>3 DEF Preview!Init, PreviewInv, StepInv, JourneyIsSaved, Preview!JourneyIsOnePath, Preview!NoCall

\* Saving, and the page that follows, leave the journey and the call; the
\* decision's head grows.
LEMMA Meanwhile ==
  ASSUME PreviewInv, revisions' \in Seq(Texts) \ {<<>>}, page' \in Nat,
         decision' \in Nat, decision <= decision', UNCHANGED <<standing, journey, step>>
  PROVE  PreviewInv'
<1>1. PreviewTyped'
  BY DEF PreviewInv, PreviewTyped
<1>2. /\ \A i \in DOMAIN journey : journey[i].decision \in Nat
      /\ step.decision \in Nat
  <2>1. step.decision \in Nat
    BY DEF PreviewInv, PreviewTyped
  <2>2. ASSUME NEW i \in DOMAIN journey
        PROVE  journey[i].decision \in Nat
    <3>1. journey[i] \in JourneySteps
      BY DEF PreviewInv, PreviewTyped
    <3> QED
      BY <3>1 DEF JourneySteps
  <2> QED
    BY <2>1, <2>2
<1>3. JourneyIsSaved'
  BY <1>2 DEF PreviewInv, PreviewTyped, JourneyIsSaved
<1>4. StepInv'
  BY <1>2 DEF PreviewInv, PreviewTyped, StepInv
<1>5. Preview!JourneyIsOnePath'
  BY DEF PreviewInv, Preview!JourneyIsOnePath
<1> QED
  BY <1>1, <1>3, <1>4, <1>5 DEF PreviewInv

LEMMA Saves ==
  ASSUME PreviewInv,
         \/ \E t \in Texts : Preview!SaveDraft(t) \/ Preview!SaveHere(t)
         \/ Preview!Follow
         \/ Preview!SaveDecision
         \/ UNCHANGED Preview!vars
  PROVE  PreviewInv'
<1>1. /\ revisions \in Seq(Texts) /\ revisions # <<>>
      /\ decision \in Nat /\ page \in Nat /\ Len(revisions) \in Nat
  BY DEF PreviewInv, PreviewTyped
<1>2. \A t \in Texts : Append(revisions, t) \in Seq(Texts) \ {<<>>}
  BY <1>1
<1>3. ASSUME NEW t \in Texts, Preview!SaveDraft(t) \/ Preview!SaveHere(t)
      PROVE  PreviewInv'
  <2>1. /\ revisions' \in Seq(Texts) \ {<<>>} /\ page' \in Nat /\ decision' = decision
        /\ UNCHANGED <<standing, journey, step>>
    BY <1>1, <1>2, <1>3 DEF Preview!SaveDraft, Preview!SaveHere, Preview!HeadNumber
  <2> QED
    BY <1>1, <2>1, Meanwhile
<1>4. CASE Preview!Follow
  BY <1>1, <1>4, Meanwhile DEF Preview!Follow, Preview!HeadNumber
<1>5. CASE Preview!SaveDecision
  BY <1>1, <1>5, Meanwhile DEF Preview!SaveDecision
<1>6. CASE UNCHANGED Preview!vars
  BY <1>1, <1>6, Meanwhile DEF Preview!vars
<1> QED
  BY <1>3, <1>4, <1>5, <1>6

\* The call goes on, with the journey as it is.
LEMMA CallMoves ==
  ASSUME PreviewInv, UNCHANGED <<revisions, decision, page, standing, journey>>,
         step' \in [stage : Stages, revision : Nat, envelope : Preview!Envelope \cup {None},
                    text : Texts \cup {None}, decision : Nat],
         StepInv'
  PROVE  PreviewInv'
BY DEF PreviewInv, PreviewTyped, JourneyIsSaved, Preview!JourneyIsOnePath

LEMMA GivesUp ==
  ASSUME PreviewInv, Preview!Refused
  PROVE  PreviewInv'
<1>1. step' = Preview!NoCall /\ UNCHANGED <<revisions, decision, page, standing, journey>>
  BY DEF Preview!Refused
<1>2. StepInv'
  BY <1>1 DEF StepInv, Preview!NoCall
<1> QED
  BY <1>1, <1>2, CallMoves DEF Preview!NoCall, Stages

LEMMA Reads ==
  ASSUME PreviewInv, Preview!Run \/ Preview!ReadDraft \/ Preview!ReadDecision
  PROVE  PreviewInv'
<1> DEFINE Calls0 == [stage : Stages, revision : Nat, envelope : Preview!Envelope \cup {None},
                      text : Texts \cup {None}, decision : Nat]
<1>1. /\ revisions \in Seq(Texts) /\ revisions # <<>> /\ decision \in Nat /\ page \in Nat
      /\ standing \in Preview!Envelope \cup {None}
      /\ step \in Calls0
      /\ revisions[Len(revisions)] \in Texts
  BY DEF PreviewInv, PreviewTyped
<1>2. CASE Preview!Run
  <2>1. /\ step' = [stage |-> "sent", revision |-> page, envelope |-> standing, text |-> None, decision |-> 0]
        /\ UNCHANGED <<revisions, decision, page, standing, journey>>
    BY <1>2 DEF Preview!Run, Preview!NoCall
  <2>2. StepInv'
    BY <2>1 DEF StepInv
  <2> QED
    BY <1>1, <2>1, <2>2, CallMoves DEF Stages
<1>3. CASE Preview!ReadDraft
  <2>1. CASE Preview!Refused
    BY <2>1, GivesUp
  <2>2. CASE /\ step.stage = "sent"
             /\ step' = [step EXCEPT !.stage = "draft", !.text = revisions[Len(revisions)]]
             /\ UNCHANGED <<revisions, decision, page, standing, journey>>
    <3>1. step' \in Calls0
      BY <1>1, <2>2 DEF Stages
    <3>2. StepInv'
      BY <1>1, <2>2 DEF PreviewInv, StepInv
    <3> QED
      BY <2>2, <3>1, <3>2, CallMoves
  <2> QED
    BY <1>3, <2>1, <2>2 DEF Preview!ReadDraft, Preview!HeadNumber
<1>4. CASE Preview!ReadDecision
  <2>1. CASE Preview!Refused
    BY <2>1, GivesUp
  <2>2. CASE ~Preview!Refused
    <3>1. PICK d \in Nat :
            /\ step.stage = "draft"
            /\ step' = [step EXCEPT !.stage = "run", !.decision = d]
            /\ UNCHANGED <<revisions, decision, page, standing, journey>>
            /\ IF step.text \in UsesDecision THEN d = decision /\ decision > 0 ELSE d = step.decision
      BY <1>1, <1>4, <2>2 DEF Preview!ReadDecision
    <3>2. step' \in Calls0
      BY <1>1, <3>1 DEF Stages
    <3>3. StepInv'
      BY <1>1, <3>1 DEF PreviewInv, StepInv, JourneyIsSaved
    <3> QED
      BY <3>1, <3>2, <3>3, CallMoves
  <2> QED
    BY <2>1, <2>2
<1> QED
  BY <1>2, <1>3, <1>4

\* The first step begins a journey, every other one appends to the one that
\* the page had when it asked.
LEMMA Arrives ==
  ASSUME PreviewInv, Enveloped, step.stage = "run", NEW n \in Nat \ {0}, NEW shown,
         Preview!Answer(n, shown),
         \/ n = 1 /\ shown = <<>>
         \/ /\ standing # None /\ n = standing.position + 1 /\ shown = journey
            /\ standing.text = step.text
  PROVE  PreviewInv'
<1> DEFINE new == [text |-> step.text, position |-> n, decision |-> step.decision]
<1>1. /\ decision \in Nat /\ step.decision \in Nat /\ step.text \in Texts
      /\ step.text \in UsesDecision <=> step.decision > 0
      /\ step.decision <= decision
      /\ journey \in Seq(JourneySteps)
      /\ standing \in Preview!Envelope \cup {None}
  BY DEF PreviewInv, PreviewTyped, StepInv
<1>2. /\ standing' = [text |-> step.text, position |-> n]
      /\ journey' = Append(shown, new)
      /\ step' = Preview!NoCall
      /\ UNCHANGED <<revisions, decision, page>>
  BY DEF Preview!Answer, Preview!StepOf
<1>3. standing' \in Preview!Envelope /\ standing' # None
  BY <1>1, <1>2 DEF Preview!Envelope, Enveloped
<1>4. new \in JourneySteps
  BY <1>1 DEF JourneySteps
<1>5. shown \in Seq(JourneySteps) /\ Len(shown) = n - 1
  <2>1. CASE n = 1 /\ shown = <<>>
    BY <2>1
  <2>2. CASE standing # None /\ n = standing.position + 1 /\ shown = journey
    <3>1. standing.position \in Nat
      BY <1>1, <2>2 DEF Preview!Envelope
    <3>2. Len(journey) = standing.position
      BY <2>2 DEF PreviewInv, Preview!JourneyIsOnePath
    <3> QED
      BY <1>1, <2>2, <3>1, <3>2
  <2> QED
    BY <2>1, <2>2
<1>6. /\ journey' \in Seq(JourneySteps) /\ Len(journey') = n /\ DOMAIN journey' = 1..n
      /\ journey'[n] = new
      /\ \A i \in 1..(n - 1) : journey'[i] = shown[i]
  BY <1>2, <1>4, <1>5
<1>7. ASSUME NEW i \in 1..(n - 1)
      PROVE  /\ shown[i].text = step.text /\ shown[i].position = i
             /\ step.text \in UsesDecision <=> shown[i].decision > 0
             /\ shown[i].decision \in Nat
             /\ shown[i].decision <= step.decision
             /\ \A k \in 1..i : shown[k].decision <= shown[i].decision
  <2>1. /\ shown = journey /\ i \in DOMAIN journey /\ standing # None /\ standing.text = step.text
    BY <1>5
  <2>2. /\ journey[i].text = step.text /\ journey[i].position = i
        /\ step.text \in UsesDecision <=> journey[i].decision > 0
        /\ \A k \in 1..i : journey[k].decision <= journey[i].decision
    BY <2>1 DEF PreviewInv, Preview!JourneyIsOnePath
  <2>3. journey[i] \in JourneySteps
    BY <2>1, <1>1
  <2>4. journey[i].decision \in Nat
    BY <2>3 DEF JourneySteps
  <2>5. journey[i].decision <= step.decision
    BY <1>1, <2>1, <2>2, <2>4 DEF PreviewInv, StepInv
  <2> QED
    BY <2>1, <2>2, <2>4, <2>5
<1>8. Preview!JourneyIsOnePath'
  <2>1. journey' # <<>>
    BY <1>6
  <2>2. ASSUME NEW i \in 1..n
        PROVE  /\ journey'[i].text = standing'.text /\ journey'[i].position = i
               /\ standing'.text \in UsesDecision <=> journey'[i].decision > 0
               /\ \A k \in 1..i : journey'[k].decision <= journey'[i].decision
    <3>1. CASE i = n
      <4>1. ASSUME NEW k \in 1..n
            PROVE  journey'[k].decision <= step.decision
        BY <1>1, <1>6, <1>7
      <4> QED
        BY <1>1, <1>2, <1>6, <3>1, <4>1
    <3>2. CASE i # n
      BY <1>2, <1>6, <1>7, <3>2
    <3> QED
      BY <3>1, <3>2
  <2> QED
    BY <1>2, <1>3, <1>6, <2>1, <2>2 DEF Preview!JourneyIsOnePath
<1>9. JourneyIsSaved'
  <2> SUFFICES ASSUME NEW i \in 1..n
               PROVE  journey'[i].decision <= decision
    BY <1>2, <1>6 DEF JourneyIsSaved
  <2>1. CASE i = n
    BY <1>1, <1>6, <2>1
  <2>2. CASE i # n
    BY <1>1, <1>6, <1>7, <2>2
  <2> QED
    BY <2>1, <2>2
<1>10. PreviewTyped'
  <2>1. step' \in [stage : Stages, revision : Nat, envelope : Preview!Envelope \cup {None},
                   text : Texts \cup {None}, decision : Nat]
    BY <1>2 DEF Preview!NoCall, Stages
  <2> QED
    BY <1>2, <1>3, <1>6, <2>1 DEF PreviewInv, PreviewTyped
<1>11. StepInv'
  BY <1>2 DEF StepInv, Preview!NoCall
<1> QED
  BY <1>8, <1>9, <1>10, <1>11 DEF PreviewInv

LEMMA PreviewPreserved ==
  ASSUME Enveloped, PreviewInv, [Preview!Next]_Preview!vars
  PROVE  PreviewInv'
<1>1. CASE Preview!Restart
  <2>1. /\ standing' = None /\ journey' = <<>> /\ UNCHANGED <<revisions, decision, page, step>>
        /\ step.stage = "none"
    BY <1>1 DEF Preview!Restart, Preview!NoCall
  <2> QED
    BY <2>1 DEF PreviewInv, PreviewTyped, StepInv, JourneyIsSaved, Preview!JourneyIsOnePath
<1>2. CASE Preview!Start
  BY <1>2, Arrives DEF Preview!Start
<1>3. CASE Preview!Resume
  <2>1. CASE Preview!Refused
    BY <2>1, GivesUp
  <2>2. CASE ~Preview!Refused
    <3>1. /\ step.stage = "run" /\ step.envelope # None /\ step.envelope = standing
          /\ step.envelope.text = step.text
          /\ Preview!Answer(standing.position + 1, journey)
      BY <1>3, <2>2 DEF Preview!Resume, Preview!Compatible, PreviewInv, StepInv
    <3>2. standing.position + 1 \in Nat \ {0}
      BY <3>1 DEF PreviewInv, PreviewTyped, Preview!Envelope
    <3> QED
      BY <3>1, <3>2, Arrives
  <2> QED
    BY <2>1, <2>2
<1> QED
  BY <1>1, <1>2, <1>3, Saves, Reads DEF Preview!Next

\* Whoever saves the draft or the decision between the steps of a preview, the
\* path that the page shows is a path of one saved source
\* (simulateArtifactDraft, the envelope's deploymentHash), for any sources of
\* any number of waits.
THEOREM OnePath ==
  ASSUME Enveloped
  PROVE  Preview!Spec => []Preview!JourneyIsOnePath
<1>1. Preview!Init => PreviewInv
  BY PreviewInitially
<1>2. PreviewInv /\ [Preview!Next]_Preview!vars => PreviewInv'
  BY PreviewPreserved
<1>3. PreviewInv => Preview!JourneyIsOnePath
  BY DEF PreviewInv
<1> QED
  BY <1>1, <1>2, <1>3, PTL DEF Preview!Spec

=============================================================================
