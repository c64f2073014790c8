-------------------------- MODULE CollaborationProofs --------------------------
(***************************************************************************)
(* People, and the AI experiences they work in, for any number of people,  *)
(* workspaces, requests, pages, questions and artifacts:                   *)
(*   - accepted invitations end in an account and a membership, and        *)
(*     authority over a workspace comes from an owner or an administrator  *)
(*     of it (People);                                                     *)
(*   - the assistant is told nothing that is not on record                 *)
(*     (AiConversation);                                                   *)
(*   - what an experience shows can be revised under its key               *)
(*     (AiArtifacts).                                                      *)
(***************************************************************************)
EXTENDS People, Sequences, WellFoundedInduction, TLAPS

\* Workspaces are numbered, founders have an account each, and the name for
\* nobody is neither an account nor an invitation.
Founded ==
  /\ Workspaces \subseteq Nat /\ MaxAccounts \in Nat /\ MaxInvitations \in Nat
  /\ Founders # {}
  /\ \A f \in Founders : f[1] \in Accounts /\ f[3] \in Scopes
  /\ None \notin Nat /\ None \notin Invitations

\* What the transactions keep of the rows and the requests.
Shape ==
  /\ account = [e \in Emails |-> account[e]]
  /\ accounts \in Nat
  /\ \A m \in memberships : m.scope \in Nat
  /\ invitation \in [Ids -> Invitations \cup {None}]
  /\ request = [r \in Requests |-> request[r]]
  /\ \A r \in Requests : request[r].phase = "accept" => request[r].account # None

IInv == Founded /\ Shape /\ AcceptedCanSignIn /\ AuthorityIsHandedOn

-----------------------------------------------------------------------------
(* Numbers.                                                                 *)

LEMMA Least ==
  ASSUME NEW S \in SUBSET Nat, S # {}
  PROVE  \E x \in S : \A y \in S : x <= y
<1>1. PICK x \in S : \A y \in S : ~(<<y, x>> \in OpToRel(<, Nat))
  BY NatLessThanWellFounded, WFMin
<1>2. \A y \in S : ~(y < x)
  BY <1>1 DEF OpToRel
<1> QED
  BY <1>2

LEMMA Greatest ==
  ASSUME NEW n \in Nat, NEW S \in SUBSET (1..n), S # {}
  PROVE  \E x \in S : \A y \in S : x >= y
<1> DEFINE below == {n - x : x \in S}
<1>1. below \in SUBSET Nat /\ below # {}
  <2>1. \A x \in S : n - x \in Nat
    OBVIOUS
  <2>2. PICK x \in S : TRUE
    OBVIOUS
  <2> QED
    BY <2>1, <2>2
<1>2. PICK z \in below : \A y \in below : z <= y
  <2> HIDE DEF below
  <2> QED
    BY <1>1, Least
<1>3. PICK x \in S : z = n - x
  BY <1>2
<1>4. \A y \in S : n - x <= n - y
  BY <1>2, <1>3
<1> QED
  BY <1>4

-----------------------------------------------------------------------------
(* Authority.                                                               *)

\* The context of a member's request is one of the memberships.
LEMMA ContextIsHeld ==
  ASSUME Shape, NEW a, Rows(a) # {}
  PROVE  Context(a) \in Rows(a)
<1> DEFINE scopes == {m.scope : m \in Rows(a)}
<1>1. scopes \in SUBSET Nat /\ scopes # {}
  BY DEF Shape, Rows
<1>2. PICK s \in scopes : \A t \in scopes : s <= t
  <2> HIDE DEF scopes
  <2> QED
    BY <1>1, Least
<1>3. PICK m \in Rows(a) : m.scope = s
  BY <1>2
<1>4. \A n \in Rows(a) : m.scope <= n.scope
  BY <1>2, <1>3
<1> QED
  BY <1>3, <1>4 DEF Context

\* Who may invite to a workspace holds a membership that says so.
LEMMA ManagersAreMembers ==
  ASSUME Shape, NEW a, NEW w, Manages(a, w)
  PROVE  \E m \in Rows(a) : m.role \in Managers /\ m.scope \in {Organization, w}
BY ContextIsHeld DEF Manages

-----------------------------------------------------------------------------
(* The steps.                                                               *)

\* No invitation is made, accepted or changed but in its state and expiry, no
\* account of a member is taken, no membership is added.
LEMMA Quiet ==
  ASSUME IInv, Shape', UNCHANGED memberships, Made' = Made,
         \A i \in Made : /\ invitation'[i].email = invitation[i].email
                         /\ invitation'[i].workspace = invitation[i].workspace
                         /\ invitation'[i].role = invitation[i].role
                         /\ invitation'[i].by = invitation[i].by
                         /\ (invitation'[i].state = "ACCEPTED") = (invitation[i].state = "ACCEPTED"),
         \A e \in Existing : Rows(account[e]) # {} => account'[e] = account[e]
  PROVE  IInv'
<1>1. \A a : Rows(a)' = Rows(a)
  BY DEF Rows
<1>2. \A i \in Made : invitation[i].email \in Emails
  BY DEF IInv, Shape, Made, Invitations
<1>3. ASSUME NEW i \in Made, invitation[i].state = "ACCEPTED"
      PROVE  /\ account[invitation[i].email] # None
             /\ account'[invitation[i].email] = account[invitation[i].email]
             /\ \E m \in Rows(account[invitation[i].email]) : m.scope = invitation[i].workspace
  BY <1>2, <1>3 DEF IInv, AcceptedCanSignIn, Existing
<1>4. AcceptedCanSignIn'
  BY <1>1, <1>3 DEF AcceptedCanSignIn
<1>5. AuthorityIsHandedOn'
  BY <1>1, <1>3 DEF IInv, AuthorityIsHandedOn
<1> QED
  BY <1>4, <1>5 DEF IInv, Founded

LEMMA Initially == Founded /\ Init => IInv
<1> SUFFICES ASSUME Founded, Init
             PROVE  IInv
  OBVIOUS
<1> DEFINE holders == {m[1] : m \in Founders}
<1>1. holders \in SUBSET (1..MaxAccounts) /\ holders # {}
  BY DEF Founded, Accounts
<1>2. accounts \in Nat
  <2>1. PICK x \in holders : \A y \in holders : x >= y
    <3> HIDE DEF holders
    <3> QED
      BY <1>1, Greatest DEF Founded
  <2>2. Max(holders) \in holders
    <3> HIDE DEF holders
    <3> QED
      BY <2>1 DEF Max
  <2> QED
    BY <1>1, <2>2 DEF Init
<1>3. Shape
  <2>1. \A m \in memberships : m.scope \in Nat
    <3>1. \A f \in Founders : f[3] \in Nat
      <4>1. Scopes \subseteq Nat
        BY DEF Founded, Scopes, Organization
      <4> QED
        BY <4>1 DEF Founded
    <3>2. \A m \in memberships : \E f \in Founders : m.scope = f[3]
      BY DEF Init
    <3> QED
      BY <3>1, <3>2
  <2>2. invitation \in [Ids -> Invitations \cup {None}]
    BY DEF Init
  <2> QED
    BY <1>2, <2>1, <2>2 DEF Shape, Init, Idle
<1>4. Made = {}
  BY DEF Init, Made
<1>5. AuthorityIsHandedOn
  BY <1>4 DEF AuthorityIsHandedOn, Init
<1> QED
  BY <1>3, <1>4, <1>5 DEF IInv, AcceptedCanSignIn

LEMMA Invites ==
  ASSUME IInv, NEW a \in Accounts, NEW w \in Workspaces, NEW e \in Emails, NEW role \in Roles,
         Invite(a, w, e, role)
  PROVE  IInv'
<1> DEFINE new == Min(Ids \ Made)
           made == [email |-> e, workspace |-> w, role |-> role, by |-> a, state |-> "PENDING", expired |-> FALSE]
<1>1. new \in Ids \ Made
  <2>1. Ids \ Made \in SUBSET Nat /\ Ids \ Made # {}
    BY DEF Invite, Ids
  <2> QED
    BY <2>1, Least DEF Min
<1>2. made \in Invitations /\ made # None
  <2>1. role \in Roles \ {"organization-owner"}
    BY DEF Invite
  <2>2. made \in Invitations
    BY <2>1 DEF Invitations
  <2> HIDE DEF made
  <2> QED
    BY <2>2 DEF IInv, Founded
<1>3. /\ invitation' = [i \in Ids |-> IF i = new THEN made ELSE invitation[i]]
      /\ UNCHANGED <<account, accounts, memberships, request>>
  BY DEF Invite, IInv, Shape
<1> HIDE DEF new, made
<1>4. Made' = Made \cup {new} /\ \A x : Rows(x)' = Rows(x)
  BY <1>1, <1>2, <1>3 DEF Made, Rows
<1>5. Shape'
  BY <1>2, <1>3 DEF IInv, Shape
<1>6. made.state = "PENDING" /\ made.by = a /\ made.workspace = w
  BY DEF made
<1>7. \E m \in Rows(a) : m.role \in Managers /\ m.scope \in {Organization, w}
  BY ManagersAreMembers DEF IInv, Invite
<1>8. \A i \in Made : invitation'[i] = invitation[i]
  BY <1>1, <1>3 DEF Made
<1>9. invitation'[new] = made
  BY <1>1, <1>3
<1>10. AcceptedCanSignIn'
  BY <1>3, <1>4, <1>6, <1>8, <1>9 DEF IInv, AcceptedCanSignIn
<1>11. AuthorityIsHandedOn'
  <2>1. (\A i \in Made : \E m \in Rows(invitation[i].by) :
           m.role \in Managers /\ m.scope \in {Organization, invitation[i].workspace})'
    BY <1>4, <1>6, <1>7, <1>8, <1>9 DEF IInv, AuthorityIsHandedOn
  <2>2. (\A m \in memberships :
           \/ \E f \in Founders : f[1] = m.account /\ f[3] = m.scope /\ f[4] = m.role
           \/ \E i \in Made : /\ invitation[i].state = "ACCEPTED" /\ account[invitation[i].email] = m.account
                              /\ invitation[i].workspace = m.scope /\ invitation[i].role = m.role)'
    <3>1. /\ memberships' = memberships /\ account' = account /\ Made \subseteq Made'
          /\ \A i \in Made : invitation'[i] = invitation[i]
      BY <1>3, <1>4, <1>8
    <3>2. \A m \in memberships :
            \/ \E f \in Founders : f[1] = m.account /\ f[3] = m.scope /\ f[4] = m.role
            \/ \E i \in Made : /\ invitation[i].state = "ACCEPTED" /\ account[invitation[i].email] = m.account
                               /\ invitation[i].workspace = m.scope /\ invitation[i].role = m.role
      BY DEF IInv, AuthorityIsHandedOn
    <3> QED
      BY <3>1, <3>2
  <2> QED
    BY <2>1, <2>2 DEF AuthorityIsHandedOn
<1> QED
  BY <1>5, <1>10, <1>11 DEF IInv, Founded

LEMMA Revokes ==
  ASSUME IInv, NEW a, NEW i \in Ids, Revoke(a, i)
  PROVE  IInv'
<1>1. /\ i \in Made /\ invitation[i].state = "PENDING"
      /\ invitation' = [invitation EXCEPT ![i].state = "REVOKED"]
      /\ UNCHANGED <<account, accounts, memberships, request>>
  BY DEF Revoke
<1>2. invitation[i] \in Invitations
  BY <1>1 DEF IInv, Shape, Made
<1>3. invitation'[i] \in Invitations /\ invitation'[i] # None
  <2>1. invitation'[i] = [invitation[i] EXCEPT !.state = "REVOKED"]
    BY <1>1 DEF IInv, Shape
  <2>2. invitation'[i] \in Invitations
    BY <1>2, <2>1 DEF Invitations
  <2> QED
    BY <2>2 DEF IInv, Founded
<1>4. Shape' /\ Made' = Made
  BY <1>1, <1>3 DEF IInv, Shape, Made
<1>5. \A k \in Made : k = i \/ invitation'[k] = invitation[k]
  BY <1>1 DEF IInv, Shape, Made
<1>6. /\ invitation'[i].email = invitation[i].email
      /\ invitation'[i].workspace = invitation[i].workspace
      /\ invitation'[i].role = invitation[i].role
      /\ invitation'[i].by = invitation[i].by
      /\ invitation'[i].state = "REVOKED"
  BY <1>1, <1>2 DEF IInv, Shape, Invitations
<1> QED
  BY <1>1, <1>4, <1>5, <1>6, Quiet

LEMMA Expires ==
  ASSUME IInv, NEW i \in Ids, Expire(i)
  PROVE  IInv'
<1>1. /\ i \in Made /\ invitation' = [invitation EXCEPT ![i].expired = TRUE]
      /\ UNCHANGED <<account, accounts, memberships, request>>
  BY DEF Expire, Usable
<1>2. invitation[i] \in Invitations
  BY <1>1 DEF IInv, Shape, Made
<1>3. invitation'[i] \in Invitations /\ invitation'[i] # None
  <2>1. invitation'[i] = [invitation[i] EXCEPT !.expired = TRUE]
    BY <1>1 DEF IInv, Shape
  <2>2. invitation'[i] \in Invitations
    BY <1>2, <2>1 DEF Invitations
  <2> QED
    BY <2>2 DEF IInv, Founded
<1>4. Shape' /\ Made' = Made
  BY <1>1, <1>3 DEF IInv, Shape, Made
<1>5. \A k \in Made : k = i \/ invitation'[k] = invitation[k]
  BY <1>1 DEF IInv, Shape, Made
<1>6. /\ invitation'[i].email = invitation[i].email
      /\ invitation'[i].workspace = invitation[i].workspace
      /\ invitation'[i].role = invitation[i].role
      /\ invitation'[i].by = invitation[i].by
      /\ invitation'[i].state = invitation[i].state
  BY <1>1, <1>2 DEF IInv, Shape, Invitations
<1> QED
  BY <1>1, <1>4, <1>5, <1>6, Quiet

\* What requests remember stays right.
LEMMA Requested ==
  ASSUME Shape, NEW r \in Requests, NEW record, Become(r, record),
         record.phase = "accept" => record.account # None
  PROVE  /\ request' = [q \in Requests |-> request'[q]]
         /\ \A q \in Requests : request'[q].phase = "accept" => request'[q].account # None
<1>1. request' = [q \in Requests |-> IF q = r THEN record ELSE request[q]]
  BY DEF Shape, Become
<1> QED
  BY <1>1 DEF Shape

\* Only the request moves.
LEMMA Moves ==
  ASSUME IInv, NEW r \in Requests, NEW record, Become(r, record),
         record.phase = "accept" => record.account # None,
         UNCHANGED <<account, accounts, memberships, invitation>>
  PROVE  IInv'
<1>1. Shape' /\ Made' = Made
  BY DEF Become, IInv, Shape, Made
<1> QED
  BY <1>1, Quiet

LEMMA Opens ==
  ASSUME IInv, NEW r \in Requests, NEW i \in Ids, Open(r, i)
  PROVE  IInv'
BY Moves DEF Open

\* A new account is nobody's so far, and no accepted invitation has waited for it.
LEMMA Creates ==
  ASSUME IInv, NEW r \in Requests, CreateAccount(r)
  PROVE  IInv'
<1> DEFINE e == invitation[request[r].invitation].email
<1>1. UNCHANGED <<memberships, invitation>>
  BY DEF CreateAccount
<1>2. CASE e \in Existing
  BY <1>2, Moves DEF CreateAccount, Idle
<1>3. CASE e \notin Existing
  <2>1. /\ accounts' = accounts + 1
        /\ account' = [account EXCEPT ![e] = accounts + 1]
        /\ Become(r, [phase |-> "accept", invitation |-> request[r].invitation,
                      account |-> accounts + 1, created |-> TRUE])
    BY <1>3 DEF CreateAccount
  <2> HIDE DEF e
  <2>2. accounts + 1 # None
    BY DEF IInv, Shape, Founded
  <2>3. Shape' /\ Made' = Made
    <3>1. /\ request' = [q \in Requests |-> request'[q]]
          /\ \A q \in Requests : request'[q].phase = "accept" => request'[q].account # None
      BY <2>1, <2>2, Requested DEF IInv
    <3>2. account' = [f \in Emails |-> account'[f]] /\ accounts' \in Nat
      BY <2>1 DEF IInv, Shape
    <3> QED
      BY <1>1, <3>1, <3>2 DEF IInv, Shape, Made
  <2>4. \A f \in Existing : account'[f] = account[f]
    BY <1>3, <2>1 DEF Existing, IInv, Shape
  <2> QED
    BY <1>1, <2>3, <2>4, Quiet
<1> QED
  BY <1>2, <1>3

\* The account of a member is not taken back.
LEMMA CleansUp ==
  ASSUME IInv, NEW r \in Requests, CleanUp(r)
  PROVE  IInv'
<1>1. /\ account' = [e \in Emails |-> IF account[e] = request[r].account /\ Removable(request[r].account)
                                      THEN None ELSE account[e]]
      /\ Become(r, Idle) /\ UNCHANGED <<accounts, memberships, invitation>>
  BY DEF CleanUp
<1>2. Shape' /\ Made' = Made
  BY <1>1 DEF Become, Idle, IInv, Shape, Made
<1>3. \A e \in Existing : Rows(account[e]) # {} => account'[e] = account[e]
  BY <1>1 DEF Existing, Removable
<1> QED
  BY <1>1, <1>2, <1>3, Quiet

LEMMA Stops ==
  ASSUME IInv, NEW r \in Requests, Stop(r)
  PROVE  IInv'
BY Moves DEF Stop, Idle

\* An invitation is accepted: the account it ends in is a member then.
LEMMA Accepts ==
  ASSUME IInv, NEW r \in Requests, Accept(r)
  PROVE  IInv'
<1> DEFINE i == request[r].invitation
           a == request[r].account
<1>1. a # None /\ UNCHANGED <<account, accounts>>
  BY DEF Accept, IInv, Shape
<1>2. CASE ~(Usable(i) /\ account[invitation[i].email] = a)
  <2>1. UNCHANGED <<account, accounts, memberships, invitation>>
    BY <1>2 DEF Accept
  <2>2. \/ Become(r, Idle)
        \/ Become(r, [phase |-> "clean", account |-> a])
    BY <1>2 DEF Accept
  <2> QED
    BY <2>1, <2>2, Moves DEF Idle
<1>3. CASE Usable(i) /\ account[invitation[i].email] = a
  <2> DEFINE w == invitation[i].workspace
  <2>1. /\ memberships' = Joined(a, w, invitation[i].role)
        /\ invitation' = [invitation EXCEPT ![i].state = "ACCEPTED"]
        /\ \/ Become(r, Idle)
           \/ Become(r, [phase |-> "clean", account |-> a])
    BY <1>3 DEF Accept
  <2>2. i \in Made /\ i \in Ids /\ invitation[i] \in Invitations /\ invitation[i].state = "PENDING"
    BY <1>3 DEF Usable, Made, IInv, Shape
  <2> HIDE DEF i, a
  <2>3. /\ invitation'[i] = [invitation[i] EXCEPT !.state = "ACCEPTED"]
        /\ \A k \in Made : k # i => invitation'[k] = invitation[k]
    BY <2>1, <2>2 DEF IInv, Shape, Made
  <2>4. /\ invitation'[i] \in Invitations /\ invitation'[i] # None
        /\ invitation'[i].state = "ACCEPTED"
        /\ invitation'[i].email = invitation[i].email /\ invitation'[i].workspace = invitation[i].workspace
        /\ invitation'[i].role = invitation[i].role /\ invitation'[i].by = invitation[i].by
    <3>1. invitation'[i] \in Invitations
      BY <2>2, <2>3 DEF Invitations
    <3>2. invitation'[i] # None
      BY <3>1 DEF IInv, Founded
    <3> QED
      BY <2>2, <2>3, <3>1, <3>2 DEF Invitations
  <2>5. Made' = Made
    BY <2>1, <2>2, <2>4 DEF Made, IInv, Shape
  <2>6. w \in Nat
    BY <2>2 DEF Invitations, IInv, Founded
  <2>7. /\ memberships \subseteq memberships'
        /\ \A m \in memberships' : m \in memberships \/ m = [account |-> a, scope |-> w, role |-> invitation[i].role]
        /\ \E m \in memberships' : m.account = a /\ m.scope = w
    <3> DEFINE joined == [account |-> a, scope |-> w, role |-> invitation[i].role]
    <3>1. joined.account = a /\ joined.scope = w
      OBVIOUS
    <3>2. CASE \E m \in Rows(a) : m.scope = w
      <4>1. memberships' = memberships
        BY <2>1, <3>2 DEF Joined
      <4> QED
        BY <3>2, <4>1 DEF Rows
    <3>3. CASE ~\E m \in Rows(a) : m.scope = w
      <4>1. memberships' = memberships \cup {joined}
        BY <2>1, <3>3 DEF Joined
      <4> HIDE DEF joined
      <4>2. joined \in memberships'
        BY <4>1
      <4>3. \E m \in memberships' : m.account = a /\ m.scope = w
        BY <3>1, <4>2
      <4>4. \A m \in memberships' : m \in memberships \/ m = joined
        BY <4>1
      <4> QED
        BY <4>1, <4>3, <4>4 DEF joined
    <3> QED
      BY <3>2, <3>3
  <2>8. Shape'
    <3>1. /\ request' = [q \in Requests |-> request'[q]]
          /\ \A q \in Requests : request'[q].phase = "accept" => request'[q].account # None
      BY <2>1, Requested DEF IInv, Idle
    <3>2. invitation' \in [Ids -> Invitations \cup {None}]
      BY <2>1, <2>2, <2>4 DEF IInv, Shape
    <3>3. \A m \in memberships' : m.scope \in Nat
      <4> HIDE DEF w
      <4> QED
        BY <2>6, <2>7 DEF IInv, Shape
    <3> QED
      BY <1>1, <3>1, <3>2, <3>3 DEF IInv, Shape
  <2>9. AcceptedCanSignIn'
    <3>1. ASSUME NEW k \in Made, invitation'[k].state = "ACCEPTED"
          PROVE  /\ account'[invitation'[k].email] # None
                 /\ \E m \in memberships' :
                      m.account = account'[invitation'[k].email] /\ m.scope = invitation'[k].workspace
      <4>1. CASE k = i
        BY <1>1, <1>3, <2>4, <2>7, <4>1
      <4>2. CASE k # i
        <5>1. invitation'[k] = invitation[k] /\ account' = account
          BY <1>1, <2>3, <4>2
        <5>2. /\ account[invitation[k].email] # None
              /\ \E m \in memberships : m.account = account[invitation[k].email] /\ m.scope = invitation[k].workspace
          BY <3>1, <5>1 DEF IInv, AcceptedCanSignIn, Rows
        <5> QED
          BY <2>7, <5>1, <5>2
      <4> QED
        BY <4>1, <4>2
    <3> QED
      BY <2>5, <3>1 DEF AcceptedCanSignIn, Rows
  <2>10. AuthorityIsHandedOn'
    <3>1. (\A k \in Made : \E m \in Rows(invitation[k].by) :
             m.role \in Managers /\ m.scope \in {Organization, invitation[k].workspace})'
      <4>1. \A k \in Made : invitation'[k].by = invitation[k].by /\ invitation'[k].workspace = invitation[k].workspace
        BY <2>3, <2>4
      <4>2. \A k \in Made : \E m \in memberships :
              /\ m.account = invitation[k].by
              /\ m.role \in Managers /\ m.scope \in {Organization, invitation[k].workspace}
        BY DEF IInv, AuthorityIsHandedOn, Rows
      <4> QED
        BY <2>5, <2>7, <4>1, <4>2 DEF Rows
    <3>2. (\A m \in memberships :
             \/ \E f \in Founders : f[1] = m.account /\ f[3] = m.scope /\ f[4] = m.role
             \/ \E k \in Made : /\ invitation[k].state = "ACCEPTED" /\ account[invitation[k].email] = m.account
                                /\ invitation[k].workspace = m.scope /\ invitation[k].role = m.role)'
      <4>1. ASSUME NEW m \in memberships'
            PROVE  \/ \E f \in Founders : f[1] = m.account /\ f[3] = m.scope /\ f[4] = m.role
                   \/ \E k \in Made : /\ invitation'[k].state = "ACCEPTED" /\ account[invitation'[k].email] = m.account
                                      /\ invitation'[k].workspace = m.scope /\ invitation'[k].role = m.role
        <5>1. CASE m \in memberships
          <6>1. CASE \E f \in Founders : f[1] = m.account /\ f[3] = m.scope /\ f[4] = m.role
            BY <6>1
          <6>2. CASE \E k \in Made : /\ invitation[k].state = "ACCEPTED" /\ account[invitation[k].email] = m.account
                                     /\ invitation[k].workspace = m.scope /\ invitation[k].role = m.role
            BY <2>2, <2>3, <6>2
          <6> QED
            BY <5>1, <6>1, <6>2 DEF IInv, AuthorityIsHandedOn
        <5>2. CASE m = [account |-> a, scope |-> w, role |-> invitation[i].role]
          BY <1>3, <2>2, <2>4, <5>2
        <5> QED
          BY <2>7, <5>1, <5>2
      <4> QED
        BY <1>1, <2>5, <4>1
    <3> QED
      BY <3>1, <3>2 DEF AuthorityIsHandedOn
  <2> QED
    BY <2>8, <2>9, <2>10 DEF IInv, Founded
<1> QED
  BY <1>2, <1>3

-----------------------------------------------------------------------------
LEMMA Preserved == IInv /\ [Next]_vars => IInv'
<1> SUFFICES ASSUME IInv, [Next]_vars
             PROVE  IInv'
  OBVIOUS
<1>1. CASE UNCHANGED vars
  <2>1. Shape' /\ Made' = Made
    BY <1>1 DEF vars, IInv, Shape, Made
  <2> QED
    BY <1>1, <2>1, Quiet DEF vars
<1> QED
  BY <1>1, Invites, Revokes, Expires, Opens, Creates, Accepts, CleansUp, Stops DEF Next

\* Who has accepted an invitation can sign in and is a member of its workspace
\* (the accept route, which takes back the accounts it has created).
THEOREM SignIn ==
  ASSUME Founded
  PROVE  Spec => []AcceptedCanSignIn
<1>1. Init => IInv
  BY Initially
<1>2. IInv => AcceptedCanSignIn
  BY DEF IInv
<1> QED
  BY <1>1, <1>2, Preserved, PTL DEF Spec

\* Authority over a workspace is never handed on from another one
\* (resolvePrincipalContext, createInvitation, acceptInvitation).
THEOREM Authority ==
  ASSUME Founded
  PROVE  Spec => []AuthorityIsHandedOn
<1>1. Init => IInv
  BY Initially
<1>2. IInv => AuthorityIsHandedOn
  BY DEF IInv
<1> QED
  BY <1>1, <1>2, Preserved, PTL DEF Spec

-----------------------------------------------------------------------------
(* Conversations.                                                           *)
(* What people answer to the assistant, in any number of pages.             *)

CONSTANTS Pages, MaxQuestions, Options
VARIABLES kind, transcript, sent, responses, events, reviews, page

Talk == INSTANCE AiConversation

Recorded(q, answer) ==
  /\ <<q, answer>> \in events
  /\ kind[q] = "APPROVAL" => <<q, answer>> \in reviews

\* A transcript tells what is on record, a prompt sends what the step before
\* has put on record.
TranscriptOk(t) ==
  /\ t = [q \in Talk!Questions |-> t[q]]
  /\ \A q \in Talk!Questions : t[q].is = "TOLD" => Recorded(q, t[q].answer)

PromptOk(q, prompt) ==
  /\ prompt.step = "review" => <<q, prompt.answer>> \in events
  /\ prompt.step = "respond" => Recorded(q, prompt.answer)

PageOk(r) ==
  \/ r = Talk!Closed
  \/ /\ r = [open |-> r.open, messages |-> r.messages, prompt |-> r.prompt, due |-> r.due]
     /\ TranscriptOk(r.messages)
     /\ r.prompt = [q \in Talk!Questions |-> r.prompt[q]]
     /\ \A q \in Talk!Questions : PromptOk(q, r.prompt[q])

TalkInv ==
  /\ TranscriptOk(transcript)
  /\ \A t \in sent : TranscriptOk(t)
  /\ page = [p \in Pages |-> page[p]]
  /\ \A p \in Pages : PageOk(page[p])

LEMMA TalkInitially == Talk!Init => TalkInv
BY DEF Talk!Init, TalkInv, TranscriptOk, PageOk, Talk!Is

\* The record grows.
LEMMA RecordGrows ==
  ASSUME UNCHANGED kind, events \subseteq events', reviews \subseteq reviews'
  PROVE  /\ \A t : TranscriptOk(t) => TranscriptOk(t)'
         /\ \A r : PageOk(r) => PageOk(r)'
<1>1. \A q, answer : Recorded(q, answer) => Recorded(q, answer)'
  BY DEF Recorded
<1> QED
  BY <1>1 DEF TranscriptOk, PageOk, PromptOk, Talk!Closed, Talk!Questions

\* One page changes, and what it has said is sent or stored.
LEMMA TalkMoves ==
  ASSUME TalkInv, UNCHANGED kind, events \subseteq events', reviews \subseteq reviews',
         transcript' \in {transcript} \cup sent,
         sent' \subseteq sent \cup {page[p].messages : p \in {p \in Pages : page[p].open}},
         NEW p \in Pages, NEW new, page' = [page EXCEPT ![p] = new], PageOk(new)'
  PROVE  TalkInv'
<1>1. ASSUME NEW other \in Pages, page[other].open
      PROVE  TranscriptOk(page[other].messages)
  <2>1. page[other] # Talk!Closed
    <3>1. ~Talk!Closed.open
      BY DEF Talk!Closed
    <3> QED
      BY <1>1, <3>1
  <2>2. PageOk(page[other])
    BY DEF TalkInv
  <2> QED
    BY <2>1, <2>2 DEF PageOk
<1>2. \A t \in sent' : TranscriptOk(t)
  BY <1>1 DEF TalkInv
<1>3. TranscriptOk(transcript')
  BY DEF TalkInv, TranscriptOk, Recorded
<1> QED
  BY <1>2, <1>3, RecordGrows DEF TalkInv

\* A question of an open page changes its prompt, and its mark or none.
LEMMA OpenPageFacts ==
  ASSUME TalkInv, NEW p \in Pages, page[p].open
  PROVE  /\ page[p] = [open |-> page[p].open, messages |-> page[p].messages, prompt |-> page[p].prompt, due |-> page[p].due]
         /\ TranscriptOk(page[p].messages)
         /\ page[p].prompt = [q \in Talk!Questions |-> page[p].prompt[q]]
         /\ \A q \in Talk!Questions : PromptOk(q, page[p].prompt[q])
<1>1. ~Talk!Closed.open
  BY DEF Talk!Closed
<1>2. PageOk(page[p])
  BY DEF TalkInv
<1> QED
  BY <1>1, <1>2 DEF PageOk

LEMMA Prompted ==
  ASSUME TalkInv, UNCHANGED <<kind, transcript, sent>>, events \subseteq events', reviews \subseteq reviews',
         NEW p \in Pages, page[p].open, NEW q \in Talk!Questions, NEW prompt, PromptOk(q, prompt)',
         Talk!Prompt(p, q, prompt)
  PROVE  TalkInv'
<1>1. PICK old : old = page[p]
  OBVIOUS
<1>2. /\ old = [open |-> old.open, messages |-> old.messages, prompt |-> old.prompt, due |-> old.due]
      /\ TranscriptOk(old.messages)
      /\ old.prompt = [k \in Talk!Questions |-> old.prompt[k]]
      /\ \A k \in Talk!Questions : PromptOk(k, old.prompt[k])
  BY <1>1, OpenPageFacts
<1>3. PICK n : n = [open |-> old.open, messages |-> old.messages,
                    prompt |-> [old.prompt EXCEPT ![q] = prompt], due |-> old.due]
  OBVIOUS
<1>4. page' = [page EXCEPT ![p] = n]
  <2>1. ASSUME NEW open, NEW messages, NEW prompts, NEW due,
               old = [open |-> open, messages |-> messages, prompt |-> prompts, due |-> due]
        PROVE  [old EXCEPT !.prompt[q] = prompt] =
                 [open |-> open, messages |-> messages, prompt |-> [prompts EXCEPT ![q] = prompt], due |-> due]
    BY <2>1
  <2>2. n = [old EXCEPT !.prompt[q] = prompt]
    BY <1>2, <1>3, <2>1
  <2> QED
    BY <1>1, <2>2 DEF Talk!Prompt
<1>5. TranscriptOk(old.messages)' /\ \A k \in Talk!Questions : PromptOk(k, old.prompt[k])'
  BY <1>2, RecordGrows DEF PromptOk, Recorded
<1>6. /\ n.messages = old.messages /\ n.due = old.due
      /\ n.prompt = [k \in Talk!Questions |-> n.prompt[k]]
      /\ n.prompt[q] = prompt
      /\ \A k \in Talk!Questions \ {q} : n.prompt[k] = old.prompt[k]
  BY <1>2, <1>3
<1>7. n = [open |-> n.open, messages |-> n.messages, prompt |-> n.prompt, due |-> n.due]
  BY <1>3
<1>8. \A k \in Talk!Questions : PromptOk(k, n.prompt[k])'
  BY <1>5, <1>6
<1>9. PageOk(n)'
  BY <1>5, <1>6, <1>7, <1>8 DEF PageOk, Talk!Questions
<1> QED
  BY <1>4, <1>9, TalkMoves

\* A page whose messages and prompt of a question change.
LEMMA Marked ==
  ASSUME TalkInv, UNCHANGED <<kind, transcript, sent, responses, events, reviews>>,
         NEW p \in Pages, page[p].open, NEW q \in Talk!Questions, NEW mark, NEW prompt,
         prompt.step \notin {"review", "respond"},
         mark.is = "TOLD" => Recorded(q, mark.answer),
         page' = [page EXCEPT ![p].messages[q] = mark, ![p].prompt[q] = prompt, ![p].due = TRUE]
  PROVE  TalkInv'
<1>1. PICK old : old = page[p]
  OBVIOUS
<1>2. /\ old = [open |-> old.open, messages |-> old.messages, prompt |-> old.prompt, due |-> old.due]
      /\ TranscriptOk(old.messages)
      /\ old.prompt = [k \in Talk!Questions |-> old.prompt[k]]
      /\ \A k \in Talk!Questions : PromptOk(k, old.prompt[k])
  BY <1>1, OpenPageFacts
<1>3. PICK due : due = TRUE
  OBVIOUS
<1>4. PICK n : n = [open |-> old.open, messages |-> [old.messages EXCEPT ![q] = mark],
                    prompt |-> [old.prompt EXCEPT ![q] = prompt], due |-> due]
  OBVIOUS
<1>5. page' = [page EXCEPT ![p] = n]
  <2>1. page' = [page EXCEPT ![p].messages[q] = mark, ![p].prompt[q] = prompt, ![p].due = due]
    BY <1>3
  <2>2. page = [k \in Pages |-> page[k]]
    BY DEF TalkInv
  <2>3. page' = [page EXCEPT ![p] = [[[old EXCEPT !.messages[q] = mark] EXCEPT !.prompt[q] = prompt] EXCEPT !.due = due]]
    BY <1>1, <2>1, <2>2
  <2>4. n = [[[old EXCEPT !.messages[q] = mark] EXCEPT !.prompt[q] = prompt] EXCEPT !.due = due]
    <3>1. PICK a, m, t, d : a = old.open /\ m = old.messages /\ t = old.prompt /\ d = old.due
      OBVIOUS
    <3>2. old = [open |-> a, messages |-> m, prompt |-> t, due |-> d]
      BY <1>2, <3>1
    <3>3. PICK marked : marked = [old EXCEPT !.messages[q] = mark]
      OBVIOUS
    <3>4. marked = [open |-> a, messages |-> [m EXCEPT ![q] = mark], prompt |-> t, due |-> d]
      BY <3>2, <3>3
    <3>5. PICK shown : shown = [marked EXCEPT !.prompt[q] = prompt]
      OBVIOUS
    <3>6. shown = [open |-> a, messages |-> [m EXCEPT ![q] = mark], prompt |-> [t EXCEPT ![q] = prompt], due |-> d]
      BY <3>4, <3>5
    <3>7. [shown EXCEPT !.due = due] =
            [open |-> a, messages |-> [m EXCEPT ![q] = mark], prompt |-> [t EXCEPT ![q] = prompt], due |-> due]
      BY <3>6
    <3> QED
      BY <1>4, <3>1, <3>3, <3>5, <3>7
  <2> QED
    BY <2>3, <2>4
<1>6. /\ n.messages = [k \in Talk!Questions |-> n.messages[k]]
      /\ n.prompt = [k \in Talk!Questions |-> n.prompt[k]]
      /\ n.messages[q] = mark /\ n.prompt[q] = prompt
      /\ \A k \in Talk!Questions \ {q} : n.messages[k] = old.messages[k] /\ n.prompt[k] = old.prompt[k]
  BY <1>2, <1>4 DEF TranscriptOk
<1>7. TranscriptOk(n.messages) /\ \A k \in Talk!Questions : PromptOk(k, n.prompt[k])
  BY <1>2, <1>6 DEF TranscriptOk, PromptOk
<1>8. n = [open |-> n.open, messages |-> n.messages, prompt |-> n.prompt, due |-> n.due]
  BY <1>4
<1>9. PageOk(n)'
  BY <1>6, <1>7, <1>8, RecordGrows DEF PageOk
<1> QED
  BY <1>5, <1>9, TalkMoves

LEMMA PageOpens ==
  ASSUME TalkInv, NEW p \in Pages, Talk!OpenPage(p)
  PROVE  TalkInv'
<1>1. PICK due, n :
        /\ n = [open |-> TRUE, messages |-> Talk!Restored(transcript), due |-> due,
                prompt |-> [q \in Talk!Questions |->
                              Talk!Step(IF q = Talk!Interrupted(transcript) THEN "shown" ELSE "none")]]
        /\ page' = [page EXCEPT ![p] = n]
        /\ UNCHANGED <<kind, transcript, sent, responses, events, reviews>>
  BY DEF Talk!OpenPage, Talk!Server
<1>2. TranscriptOk(Talk!Restored(transcript))
  BY DEF TalkInv, TranscriptOk, Talk!Restored, Talk!Is
<1>3. /\ n.messages = Talk!Restored(transcript)
      /\ n.prompt = [q \in Talk!Questions |-> n.prompt[q]]
      /\ \A q \in Talk!Questions : n.prompt[q].step \in {"shown", "none"}
  BY <1>1 DEF Talk!Step
<1>4. n = [open |-> n.open, messages |-> n.messages, prompt |-> n.prompt, due |-> n.due]
  BY <1>1
<1>5. PageOk(n)
  BY <1>2, <1>3, <1>4 DEF PageOk, PromptOk
<1>6. PageOk(n)'
  BY <1>1, <1>5, RecordGrows
<1> QED
  BY <1>1, <1>6, TalkMoves

LEMMA PageCloses ==
  ASSUME TalkInv, NEW p \in Pages, Talk!ClosePage(p)
  PROVE  TalkInv'
<1>1. PageOk(Talk!Closed)'
  BY DEF PageOk, Talk!Closed
<1> QED
  BY <1>1, TalkMoves DEF Talk!ClosePage, Talk!Server

LEMMA TranscriptIsSent ==
  ASSUME TalkInv, NEW p \in Pages, Talk!SendTranscript(p)
  PROVE  TalkInv'
<1>1. /\ page[p].open
      /\ page' = [page EXCEPT ![p].due = FALSE]
      /\ sent' = sent \cup {page[p].messages}
      /\ UNCHANGED <<kind, transcript, responses, events, reviews>>
  BY DEF Talk!SendTranscript, Talk!Server
<1>2. PICK old, due : old = page[p] /\ due = FALSE
  OBVIOUS
<1>3. PICK n : n = [open |-> old.open, messages |-> old.messages, prompt |-> old.prompt, due |-> due]
  OBVIOUS
<1>4. page' = [page EXCEPT ![p] = n]
  <2>1. page' = [page EXCEPT ![p] = [page[p] EXCEPT !.due = due]]
    BY <1>1, <1>2
  <2>2. old = [open |-> old.open, messages |-> old.messages, prompt |-> old.prompt, due |-> old.due]
    BY <1>1, <1>2, OpenPageFacts
  <2>3. [old EXCEPT !.due = due] = n
    BY <1>3, <2>2
  <2> QED
    BY <1>2, <2>1, <2>3
<1>5. PageOk(n)
  BY <1>1, <1>2, <1>3, OpenPageFacts DEF PageOk
<1>6. PageOk(n)'
  BY <1>1, <1>5, RecordGrows
<1> QED
  BY <1>1, <1>4, <1>6, TalkMoves

LEMMA QuestionMoves ==
  ASSUME TalkInv, NEW p \in Pages, NEW q \in Talk!Questions,
         \/ Talk!Ask(p, q) \/ Talk!RequestFails(p, q) \/ Talk!Tell(p, q) \/ Talk!Cancel(p, q)
         \/ \E answer \in Options : Talk!Submit(p, q, answer)
  PROVE  TalkInv'
<1>1. CASE Talk!Ask(p, q)
  <2>1. page[p].open /\ UNCHANGED <<kind, transcript, sent, responses, events, reviews>>
    BY <1>1 DEF Talk!Ask, Talk!Server
  <2>2. PICK mark, prompt : mark = Talk!Is("OPEN") /\ prompt = Talk!Step("shown")
    OBVIOUS
  <2>3. page' = [page EXCEPT ![p].messages[q] = mark, ![p].prompt[q] = prompt, ![p].due = TRUE]
    BY <1>1, <2>2 DEF Talk!Ask
  <2>4. mark.is # "TOLD" /\ prompt.step \notin {"review", "respond"}
    BY <2>2 DEF Talk!Is, Talk!Step
  <2> QED
    BY <2>1, <2>3, <2>4, Marked
<1>2. CASE Talk!RequestFails(p, q)
  <2>1. PromptOk(q, Talk!Step("shown"))'
    BY DEF PromptOk, Talk!Step
  <2> QED
    BY <1>2, <2>1, Prompted DEF Talk!RequestFails, Talk!At, Talk!Server
<1>3. CASE Talk!Tell(p, q)
  <2>1. /\ page[p].open /\ page[p].prompt[q].step = "respond"
        /\ UNCHANGED <<kind, transcript, sent, responses, events, reviews>>
    BY <1>3 DEF Talk!Tell, Talk!At, Talk!Respond, Talk!Server
  <2>2. PICK mark, prompt : mark = Talk!Told(page[p].prompt[q].answer) /\ prompt = Talk!Step("none")
    OBVIOUS
  <2>3. page' = [page EXCEPT ![p].messages[q] = mark, ![p].prompt[q] = prompt, ![p].due = TRUE]
    BY <1>3, <2>2 DEF Talk!Tell, Talk!Respond
  <2>4. PromptOk(q, page[p].prompt[q])
    BY <2>1, OpenPageFacts
  <2>5. Recorded(q, mark.answer)
    BY <2>1, <2>2, <2>4 DEF PromptOk, Talk!Told
  <2>6. prompt.step \notin {"review", "respond"}
    BY <2>2 DEF Talk!Step
  <2> QED
    BY <2>1, <2>3, <2>5, <2>6, Marked
<1>4. CASE Talk!Cancel(p, q)
  <2>1. page[p].open /\ UNCHANGED <<kind, transcript, sent, responses, events, reviews>>
    BY <1>4 DEF Talk!Cancel, Talk!At, Talk!Respond, Talk!Server
  <2>2. PICK mark, prompt : mark = Talk!Is("CANCELLED") /\ prompt = Talk!Step("none")
    OBVIOUS
  <2>3. page' = [page EXCEPT ![p].messages[q] = mark, ![p].prompt[q] = prompt, ![p].due = TRUE]
    BY <1>4, <2>2 DEF Talk!Cancel, Talk!Respond
  <2>4. mark.is # "TOLD" /\ prompt.step \notin {"review", "respond"}
    BY <2>2 DEF Talk!Is, Talk!Step
  <2> QED
    BY <2>1, <2>3, <2>4, Marked
<1>5. ASSUME NEW answer \in Options, Talk!Submit(p, q, answer)
      PROVE  TalkInv'
  <2>1. PromptOk(q, Talk!Sending("record", answer))'
    BY DEF PromptOk, Talk!Sending
  <2> QED
    BY <1>5, <2>1, Prompted DEF Talk!Submit, Talk!At, Talk!Server
<1> QED
  BY <1>1, <1>2, <1>3, <1>4, <1>5

\* The server puts an answer on record and asks for the review, whether or not
\* the page learns of it.
LEMMA AnswerIsRecorded ==
  ASSUME TalkInv, NEW p \in Pages, NEW q \in Talk!Questions,
         Talk!RecordChoice(p, q) \/ Talk!RequestReview(p, q)
  PROVE  TalkInv'
<1>1. PICK answer : answer = page[p].prompt[q].answer
  OBVIOUS
<1>2. PromptOk(q, Talk!Step("shown"))'
  BY DEF PromptOk, Talk!Step
<1>3. CASE Talk!RecordChoice(p, q)
  <2>1. /\ page[p].open /\ events' = events \cup {<<q, answer>>}
        /\ UNCHANGED <<kind, sent, transcript, reviews>>
        /\ Talk!Reply(p, q, Talk!Then(q))
    BY <1>1, <1>3 DEF Talk!RecordChoice, Talk!At
  <2>2. PICK next : next = Talk!Then(q)
    OBVIOUS
  <2>3. PromptOk(q, Talk!Sending(next, answer))'
    BY <2>1, <2>2 DEF PromptOk, Recorded, Talk!Sending, Talk!Then
  <2>4. \/ Talk!Prompt(p, q, Talk!Sending(next, answer))
        \/ Talk!Prompt(p, q, Talk!Step("shown"))
    BY <1>1, <2>1, <2>2 DEF Talk!Reply
  <2> QED
    BY <1>2, <2>1, <2>3, <2>4, Prompted
<1>4. CASE Talk!RequestReview(p, q)
  <2>1. /\ page[p].open /\ page[p].prompt[q].step = "review"
        /\ reviews' = reviews \cup {<<q, answer>>}
        /\ UNCHANGED <<kind, sent, transcript, events>>
        /\ Talk!Reply(p, q, "respond")
    BY <1>1, <1>4 DEF Talk!RequestReview, Talk!At
  <2>2. PromptOk(q, page[p].prompt[q])
    BY <2>1, OpenPageFacts
  <2>3. PromptOk(q, Talk!Sending("respond", answer))'
    BY <1>1, <2>1, <2>2 DEF PromptOk, Recorded, Talk!Sending
  <2>4. \/ Talk!Prompt(p, q, Talk!Sending("respond", answer))
        \/ Talk!Prompt(p, q, Talk!Step("shown"))
    BY <1>1, <2>1 DEF Talk!Reply
  <2> QED
    BY <1>2, <2>1, <2>3, <2>4, Prompted
<1> QED
  BY <1>3, <1>4

LEMMA TalkPreserved ==
  ASSUME TalkInv, [Talk!Next]_Talk!vars
  PROVE  TalkInv'
<1>1. ASSUME NEW t \in sent, Talk!Arrive(t) \/ Talk!Lose(t)
      PROVE  TalkInv'
  <2>1. /\ UNCHANGED <<kind, responses, events, reviews, page>>
        /\ sent' \subseteq sent /\ transcript' \in {transcript} \cup sent
    BY <1>1 DEF Talk!Arrive, Talk!Lose, Talk!Server
  <2>2. \A u \in {transcript'} \cup sent' : TranscriptOk(u)
    BY <2>1 DEF TalkInv
  <2> QED
    BY <2>1, <2>2, RecordGrows DEF TalkInv
<1>2. CASE UNCHANGED Talk!vars
  BY <1>2 DEF Talk!vars, TalkInv, TranscriptOk, PageOk, PromptOk, Recorded
<1> QED
  BY <1>1, <1>2, PageOpens, PageCloses, TranscriptIsSent, QuestionMoves, AnswerIsRecorded DEF Talk!Next

LEMMA TalkIsTold ==
  ASSUME TalkInv
  PROVE  Talk!ToldIsOnRecord
<1>1. ASSUME NEW p \in Pages, page[p].open
      PROVE  TranscriptOk(page[p].messages)
  BY <1>1, OpenPageFacts
<1>2. \A t \in Talk!AllTranscripts : TranscriptOk(t)
  BY <1>1 DEF TalkInv, Talk!AllTranscripts, Talk!OpenPages
<1> QED
  BY <1>2 DEF Talk!ToldIsOnRecord, TranscriptOk, Recorded

\* The assistant is told nothing that is not on record: whatever pages answer,
\* fail and send, an answer that it goes on from has its event, and a review
\* that it was told of was requested (recordAiChoiceResponse and the human
\* tools), for any number of pages and questions and any choices.
THEOREM Told ==
  Talk!Spec => []Talk!ToldIsOnRecord
<1>1. Talk!Init => TalkInv
  BY TalkInitially
<1>2. TalkInv /\ [Talk!Next]_Talk!vars => TalkInv'
  BY TalkPreserved
<1>3. TalkInv => Talk!ToldIsOnRecord
  BY TalkIsTold
<1> QED
  BY <1>1, <1>2, <1>3, PTL DEF Talk!Spec

-----------------------------------------------------------------------------
(* Artifacts of experiences.                                                *)
(* What tool calls of any number of pages and experiences create and link.  *)

CONSTANTS Experiences, Names, Texts, MaxArtifacts, MaxRevisions, MaxCalls
VARIABLES artifacts, links, at, call, answered, calls

Tools == INSTANCE AiArtifacts

Listed(s) == Len(s) \in Nat /\ s = [n \in 1..Len(s) |-> s[n]]

\* A key names one artifact, and every artifact has a revision.
KeysAreUnique ==
  /\ Listed(artifacts)
  /\ \A a \in 1..Len(artifacts) :
       /\ artifacts[a] = [key |-> artifacts[a].key, role |-> artifacts[a].role, revisions |-> artifacts[a].revisions]
       /\ Listed(artifacts[a].revisions) /\ Len(artifacts[a].revisions) > 0
  /\ \A a, b \in 1..Len(artifacts) : artifacts[a].key = artifacts[b].key => a = b

\* An experience has one main process.
MainsAreSingle ==
  /\ links = [e \in Experiences |-> links[e]]
  /\ \A e \in Experiences :
       /\ Listed(links[e])
       /\ \A n \in 1..Len(links[e]) : links[e][n] \in 1..Len(artifacts)
       /\ \A m, n \in 1..Len(links[e]) :
            artifacts[links[e][m]].role = "MAIN" /\ artifacts[links[e][n]].role = "MAIN" => m = n

Linked(e, a) == a \in 1..Len(artifacts) /\ \E n \in 1..Len(links[e]) : links[e][n] = a

\* The revision holds the source.
Holds(a, number, source) ==
  number \in 1..Len(artifacts[a].revisions) /\ artifacts[a].revisions[number] = source

\* What a call has found or made, until its result is given.
CallOk(e, c) ==
  /\ c = [phase |-> c.phase, role |-> c.role, key |-> c.key, source |-> c.source,
          artifact |-> c.artifact, number |-> c.number]
  /\ c.phase \in {"save", "answer"} => Linked(e, c.artifact)
  /\ c.phase = "link" => c.artifact \in 1..Len(artifacts)
  /\ c.phase \in {"save", "link", "answer"} => artifacts[c.artifact].role = c.role
  /\ c.phase \in {"link", "answer"} => Holds(c.artifact, c.number, c.source)

ResultOk(r) ==
  /\ r.experience \in Experiences
  /\ Linked(r.experience, r.artifact)
  /\ artifacts[r.artifact].role = r.role /\ artifacts[r.artifact].key = r.key
  /\ Holds(r.artifact, r.number, r.source)

ToolsInv ==
  /\ KeysAreUnique
  /\ MainsAreSingle
  /\ at \in [Pages -> Experiences]
  /\ call = [p \in Pages |-> call[p]]
  /\ \A p \in Pages : CallOk(at[p], call[p])
  /\ \A r \in answered : ResultOk(r)

LEMMA Appended ==
  ASSUME NEW s, Listed(s), NEW x
  PROVE  /\ Listed(Append(s, x)) /\ Len(Append(s, x)) = Len(s) + 1
         /\ Append(s, x)[Len(s) + 1] = x
         /\ \A n \in 1..Len(s) : Append(s, x)[n] = s[n]
<1> DEFINE S == {s[n] : n \in 1..Len(s)} \cup {x}
<1>1. s \in Seq(S) /\ x \in S
  BY DEF Listed
<1>2. Append(s, x) \in Seq(S)
  <2> HIDE DEF S
  <2> QED
    BY <1>1
<1>3. /\ Len(Append(s, x)) = Len(s) + 1
      /\ Append(s, x)[Len(s) + 1] = x
      /\ \A n \in 1..Len(s) : Append(s, x)[n] = s[n]
  <2> HIDE DEF S
  <2> QED
    BY <1>1
<1>4. Listed(Append(s, x))
  <2>1. ASSUME NEW T, NEW f \in Seq(T)
        PROVE  Listed(f)
    BY DEF Listed
  <2> HIDE DEF S
  <2> QED
    BY <1>2, <2>1
<1> QED
  BY <1>3, <1>4

LEMMA ToolsInitially == Tools!Init => ToolsInv
<1> SUFFICES ASSUME Tools!Init
             PROVE  ToolsInv
  OBVIOUS
<1>1. KeysAreUnique
  <2>1. CASE artifacts = <<>>
    BY <2>1 DEF KeysAreUnique, Listed
  <2>2. ASSUME NEW name \in Names,
               artifacts = <<[key |-> Tools!Plain(name), role |-> "FORM", revisions |-> << 1 >>]>>
        PROVE  KeysAreUnique
    <3>1. PICK key, revisions : key = Tools!Plain(name) /\ revisions = << 1 >>
      OBVIOUS
    <3>2. Listed(revisions) /\ Len(revisions) > 0
      BY <3>1 DEF Listed
    <3>3. artifacts = <<[key |-> key, role |-> "FORM", revisions |-> revisions]>>
      BY <2>2, <3>1
    <3>4. Listed(artifacts) /\ Len(artifacts) = 1
      BY <3>3 DEF Listed
    <3>5. artifacts[1] = [key |-> key, role |-> "FORM", revisions |-> revisions]
      BY <3>3
    <3> QED
      BY <3>2, <3>4, <3>5 DEF KeysAreUnique
  <2> QED
    BY <2>1, <2>2 DEF Tools!Init
<1>2. MainsAreSingle
  BY DEF Tools!Init, MainsAreSingle, Listed
<1> QED
  BY <1>1, <1>2 DEF Tools!Init, ToolsInv, CallOk, Tools!Idle

\* What every step keeps of artifacts and links: no key, role, revision or link
\* is lost.
Grown ==
  /\ Len(artifacts) \in Nat /\ Len(artifacts') \in Nat /\ Len(artifacts) <= Len(artifacts')
  /\ \A a \in 1..Len(artifacts) :
       /\ artifacts'[a].key = artifacts[a].key /\ artifacts'[a].role = artifacts[a].role
       /\ \A n \in 1..Len(artifacts[a].revisions) :
            n \in 1..Len(artifacts'[a].revisions) /\ artifacts'[a].revisions[n] = artifacts[a].revisions[n]
  /\ \A e \in Experiences : \A n \in 1..Len(links[e]) : n \in 1..Len(links'[e]) /\ links'[e][n] = links[e][n]

\* What was right of a call and of a result stays right.
LEMMA ToolsGrow ==
  ASSUME Grown, NEW e \in Experiences
  PROVE  /\ \A c : CallOk(e, c) => CallOk(e, c)'
         /\ \A r : ResultOk(r) => ResultOk(r)'
<1>1. \A a \in 1..Len(artifacts) :
        /\ a \in 1..Len(artifacts')
        /\ artifacts'[a].key = artifacts[a].key /\ artifacts'[a].role = artifacts[a].role
  BY DEF Grown
<1>2. \A f \in Experiences : \A a : Linked(f, a) => Linked(f, a)'
  BY <1>1 DEF Grown, Linked
<1>3. \A a \in 1..Len(artifacts) : \A n, s : Holds(a, n, s) => Holds(a, n, s)'
  BY DEF Grown, Holds
<1>4. \A f \in Experiences : \A a : Linked(f, a) => a \in 1..Len(artifacts)
  BY DEF Linked
<1>5. ASSUME NEW c, CallOk(e, c)
      PROVE  CallOk(e, c)'
  <2>1. c.phase \in {"save", "link", "answer"} => c.artifact \in 1..Len(artifacts)
    BY <1>4, <1>5 DEF CallOk
  <2> QED
    BY <1>1, <1>2, <1>3, <1>5, <2>1 DEF CallOk
<1>6. ASSUME NEW r, ResultOk(r)
      PROVE  ResultOk(r)'
  <2>1. r.artifact \in 1..Len(artifacts)
    BY <1>4, <1>6 DEF ResultOk
  <2> QED
    BY <1>1, <1>2, <1>3, <1>6, <2>1 DEF ResultOk
<1> QED
  BY <1>5, <1>6

\* A step of the call of one page.
LEMMA ToolMoves ==
  ASSUME ToolsInv, Grown, KeysAreUnique', MainsAreSingle', at' = at,
         \/ call' = call
         \/ \E p \in Pages : \E c : call' = [call EXCEPT ![p] = c] /\ CallOk(at[p], c)',
         \A r \in answered' : r \in answered \/ ResultOk(r)'
  PROVE  ToolsInv'
<1>1. \A p \in Pages : at[p] \in Experiences
  BY DEF ToolsInv
<1>2. \A p \in Pages : CallOk(at[p], call[p])'
  <2> SUFFICES ASSUME NEW p \in Pages
               PROVE  CallOk(at[p], call[p])'
    OBVIOUS
  <2>1. PICK e, d, f : e = at[p] /\ d = call[p] /\ f = call'[p]
    OBVIOUS
  <2>2. CallOk(e, d) /\ e \in Experiences
    BY <1>1, <2>1 DEF ToolsInv
  <2>3. CallOk(e, d)'
    BY <2>2, ToolsGrow
  <2>4. CallOk(e, f)'
    <3>1. CASE call' = call
      <4>1. f = d
        BY <2>1, <3>1
      <4> QED
        BY <2>3, <4>1
    <3>2. ASSUME NEW q \in Pages, NEW c, call' = [call EXCEPT ![q] = c], CallOk(at[q], c)'
          PROVE  CallOk(e, f)'
      <4>1. CASE p = q
        <5>1. f = c
          BY <2>1, <3>2, <4>1 DEF ToolsInv
        <5> QED
          BY <2>1, <3>2, <4>1, <5>1 DEF CallOk, Linked
      <4>2. CASE p # q
        <5>1. f = d
          BY <2>1, <3>2, <4>2 DEF ToolsInv
        <5> QED
          BY <2>3, <5>1
      <4> QED
        BY <4>1, <4>2
    <3> QED
      BY <3>1, <3>2
  <2>5. at'[p] = e /\ call'[p] = f
    BY <2>1
  <2> QED
    BY <2>4, <2>5 DEF CallOk, Linked, Holds
<1>3. ASSUME NEW r \in answered'
      PROVE  ResultOk(r)'
  <2>1. CASE r \in answered
    <3>1. ResultOk(r) /\ r.experience \in Experiences
      BY <2>1 DEF ToolsInv, ResultOk
    <3> QED
      BY <3>1, ToolsGrow
  <2> QED
    BY <1>3, <2>1
<1>4. call' = [p \in Pages |-> call'[p]]
  BY DEF ToolsInv
<1>5. at' \in [Pages -> Experiences]
  BY DEF ToolsInv
<1> QED
  BY <1>2, <1>3, <1>4, <1>5 DEF ToolsInv

LEMMA NothingIsSaved ==
  ASSUME ToolsInv, UNCHANGED <<artifacts, links>>
  PROVE  Grown /\ KeysAreUnique' /\ MainsAreSingle'
BY DEF ToolsInv, KeysAreUnique, MainsAreSingle, Grown, Listed

\* The links lead to the same roles as before.
LEMMA MainsStay ==
  ASSUME ToolsInv, links' = links, Len(artifacts) \in Nat, Len(artifacts') \in Nat, Len(artifacts) <= Len(artifacts'),
         \A a \in 1..Len(artifacts) : artifacts'[a].role = artifacts[a].role
  PROVE  MainsAreSingle'
<1>1. MainsAreSingle
  BY DEF ToolsInv
<1>2. ASSUME NEW e \in Experiences, NEW n \in 1..Len(links[e])
      PROVE  /\ links[e][n] \in 1..Len(artifacts')
             /\ artifacts'[links[e][n]].role = artifacts[links[e][n]].role
  BY <1>1 DEF MainsAreSingle
<1> QED
  BY <1>1, <1>2 DEF MainsAreSingle, Listed

LEMMA RevisionIsSaved ==
  ASSUME ToolsInv, NEW a \in 1..Len(artifacts), NEW base, NEW source, Tools!SaveRevision(a, base, source), links' = links,
         NEW number, number = Len(artifacts'[a].revisions)
  PROVE  /\ Grown /\ KeysAreUnique' /\ MainsAreSingle'
         /\ Tools!Outcome(a, base, source) # "refused" => Holds(a, number, source)'
<1>1. PICK old, revisions : old = artifacts[a].revisions /\ revisions = Append(old, source)
  OBVIOUS
<1>2. /\ Listed(old) /\ Len(old) \in Nat /\ Len(old) > 0
      /\ Listed(revisions) /\ Len(revisions) = Len(old) + 1
      /\ revisions[Len(old) + 1] = source
      /\ \A n \in 1..Len(old) : revisions[n] = old[n]
  <2>1. Listed(old) /\ Len(old) > 0
    BY <1>1 DEF ToolsInv, KeysAreUnique
  <2> QED
    BY <1>1, <2>1, Appended DEF Listed
<1>3. \/ artifacts' = artifacts /\ Tools!Outcome(a, base, source) # "new"
      \/ artifacts' = [artifacts EXCEPT ![a].revisions = revisions]
  BY <1>1 DEF Tools!SaveRevision
<1>4. CASE artifacts' = artifacts /\ Tools!Outcome(a, base, source) # "new"
  <2>1. ASSUME Tools!Outcome(a, base, source) # "refused"
        PROVE  old[Len(old)] = source
    BY <1>1, <1>4, <2>1 DEF Tools!Outcome, Tools!Source, Tools!Number
  <2>2. artifacts'[a].revisions = old /\ Len(old) \in 1..Len(old)
    BY <1>1, <1>2, <1>4
  <2>3. Grown /\ KeysAreUnique' /\ MainsAreSingle'
    BY <1>4, NothingIsSaved
  <2>4. Tools!Outcome(a, base, source) # "refused" => Holds(a, number, source)'
    BY <2>1, <2>2 DEF Holds
  <2> QED
    BY <2>3, <2>4
<1>5. CASE artifacts' = [artifacts EXCEPT ![a].revisions = revisions]
  <2>1. Listed(artifacts)
    BY DEF ToolsInv, KeysAreUnique
  <2>2. Len(artifacts') = Len(artifacts) /\ Listed(artifacts)'
    <3>1. PICK f : f = artifacts'
      OBVIOUS
    <3>2. f = [n \in 1..Len(artifacts) |-> f[n]] /\ Len(artifacts) \in Nat
      BY <1>5, <2>1, <3>1 DEF Listed
    <3>3. Len(f) = Len(artifacts)
      BY <3>2
    <3> QED
      BY <3>1, <3>2, <3>3 DEF Listed
  <2>3. PICK new : new = [key |-> artifacts[a].key, role |-> artifacts[a].role, revisions |-> revisions]
    OBVIOUS
  <2>4. artifacts'[a] = new /\ \A b \in 1..Len(artifacts) : b # a => artifacts'[b] = artifacts[b]
    <3>1. artifacts[a] = [key |-> artifacts[a].key, role |-> artifacts[a].role, revisions |-> artifacts[a].revisions]
      BY DEF ToolsInv, KeysAreUnique
    <3>2. [artifacts[a] EXCEPT !.revisions = revisions] = new
      BY <2>3, <3>1
    <3>3. a \in DOMAIN artifacts /\ DOMAIN artifacts = 1..Len(artifacts)
      BY <2>1 DEF Listed
    <3> QED
      BY <1>5, <3>2, <3>3
  <2>5. ASSUME NEW b \in 1..Len(artifacts)
        PROVE  /\ artifacts'[b].key = artifacts[b].key /\ artifacts'[b].role = artifacts[b].role
               /\ artifacts'[b] = [key |-> artifacts'[b].key, role |-> artifacts'[b].role, revisions |-> artifacts'[b].revisions]
               /\ Listed(artifacts'[b].revisions) /\ Len(artifacts'[b].revisions) > 0
               /\ \A n \in 1..Len(artifacts[b].revisions) :
                    n \in 1..Len(artifacts'[b].revisions) /\ artifacts'[b].revisions[n] = artifacts[b].revisions[n]
    <3>1. CASE b = a
      <4>1. artifacts'[b] = new /\ artifacts[b].revisions = old
        BY <1>1, <2>4, <3>1
      <4>2. new = [key |-> new.key, role |-> new.role, revisions |-> new.revisions]
        BY <2>3
      <4>3. new.key = artifacts[b].key /\ new.role = artifacts[b].role /\ new.revisions = revisions
        BY <2>3, <3>1
      <4>4. Len(revisions) > 0 /\ \A n \in 1..Len(old) : n \in 1..Len(revisions) /\ revisions[n] = old[n]
        BY <1>2
      <4> QED
        BY <1>2, <4>1, <4>2, <4>3, <4>4
    <3>2. CASE b # a
      BY <2>4, <3>2 DEF ToolsInv, KeysAreUnique
    <3> QED
      BY <3>1, <3>2
  <2>6. Grown
    <3>1. Len(artifacts) \in Nat /\ Len(artifacts') \in Nat /\ Len(artifacts) <= Len(artifacts')
      BY <2>1, <2>2 DEF Listed
    <3>2. \A e \in Experiences : \A n \in 1..Len(links[e]) : n \in 1..Len(links'[e]) /\ links'[e][n] = links[e][n]
      OBVIOUS
    <3> QED
      BY <2>5, <3>1, <3>2 DEF Grown
  <2>7. KeysAreUnique'
    <3>1. \A b, d \in 1..Len(artifacts) : artifacts[b].key = artifacts[d].key => b = d
      BY DEF ToolsInv, KeysAreUnique
    <3>2. \A b, d \in 1..Len(artifacts) : artifacts'[b].key = artifacts'[d].key => b = d
      BY <2>5, <3>1
    <3> QED
      BY <2>2, <2>5, <3>2 DEF KeysAreUnique, Listed
  <2>8. MainsAreSingle'
    <3>1. Len(artifacts) \in Nat /\ Len(artifacts') \in Nat /\ Len(artifacts) <= Len(artifacts')
      BY <2>1, <2>2 DEF Listed
    <3>2. \A b \in 1..Len(artifacts) : artifacts'[b].role = artifacts[b].role
      BY <2>5
    <3> QED
      BY <3>1, <3>2, MainsStay
  <2>9. Holds(a, number, source)'
    <3>1. artifacts'[a].revisions = revisions /\ number = Len(old) + 1
      BY <1>2, <2>3, <2>4
    <3>2. number \in 1..Len(revisions) /\ revisions[number] = source
      BY <1>2, <3>1
    <3> QED
      BY <3>1, <3>2 DEF Holds
  <2> QED
    BY <2>6, <2>7, <2>8, <2>9
<1> QED
  BY <1>3, <1>4, <1>5

\* What the route finds is linked, and is of the kind and the key that it looks
\* for.
LEMMA FoundFits ==
  ASSUME ToolsInv, NEW e \in Experiences, NEW role, NEW key, Tools!Fitting(e, role, key) # {}
  PROVE  \E n \in Tools!Fitting(e, role, key) : Tools!Found(e, role, key) = links[e][n]
<1> DEFINE fits == Tools!Fitting(e, role, key)
<1>1. Len(links[e]) \in Nat /\ DOMAIN links[e] = 1..Len(links[e])
  BY DEF ToolsInv, MainsAreSingle, Listed
<1>2. fits \in SUBSET Nat /\ fits # {}
  BY <1>1 DEF Tools!Fitting
<1>3. PICK m \in fits : \A k \in fits : m <= k
  <2> HIDE DEF fits
  <2> QED
    BY <1>2, Least
<1>4. Tools!Min(fits) \in fits
  <2> HIDE DEF fits
  <2> QED
    BY <1>3 DEF Tools!Min
<1> QED
  BY <1>2, <1>4 DEF Tools!Found

LEMMA FoundIsLinked ==
  ASSUME ToolsInv, NEW e \in Experiences, NEW role, NEW key, Tools!Found(e, role, key) # None
  PROVE  Linked(e, Tools!Found(e, role, key)) /\ artifacts[Tools!Found(e, role, key)].role = role
<1>1. Tools!Fitting(e, role, key) # {}
  BY DEF Tools!Found
<1>2. PICK n \in Tools!Fitting(e, role, key) : Tools!Found(e, role, key) = links[e][n]
  BY <1>1, FoundFits
<1>3. n \in 1..Len(links[e]) /\ artifacts[links[e][n]].role = role /\ links[e][n] \in 1..Len(artifacts)
  BY <1>2 DEF Tools!Fitting, ToolsInv, MainsAreSingle, Listed
<1> QED
  BY <1>2, <1>3 DEF Linked

\* A call begins, reads, is answered or fails.
LEMMA Asks ==
  ASSUME ToolsInv, NEW p \in Pages,
         \/ \E role \in Tools!Roles, key \in Tools!Askable : Tools!Shape(p, role, key)
         \/ \E source \in Texts : Tools!Read(p, source)
         \/ Tools!Answer(p) \/ Tools!Fail(p)
  PROVE  ToolsInv'
<1>1. PICK e, c : e = at[p] /\ c = call[p]
  OBVIOUS
<1>2. e \in Experiences /\ CallOk(e, c)
  BY <1>1 DEF ToolsInv
<1>3. UNCHANGED <<artifacts, links, at>> /\ Grown /\ KeysAreUnique' /\ MainsAreSingle'
  BY NothingIsSaved DEF Tools!Shape, Tools!Read, Tools!Answer, Tools!Fail
<1>4. ASSUME NEW d, CallOk(e, d), call' = [call EXCEPT ![p] = d], \A r \in answered' : r \in answered \/ ResultOk(r)'
      PROVE  ToolsInv'
  <2>1. CallOk(e, d)'
    BY <1>2, <1>3, <1>4, ToolsGrow
  <2>2. CallOk(at[p], d)'
    BY <1>1, <1>3, <2>1 DEF CallOk, Linked
  <2> QED
    BY <1>3, <1>4, <2>2, ToolMoves
<1>5. CallOk(e, Tools!Idle)
  BY DEF CallOk, Tools!Idle
<1>6. ASSUME NEW role \in Tools!Roles, NEW key \in Tools!Askable, Tools!Shape(p, role, key)
      PROVE  ToolsInv'
  <2>1. PICK d : d = [Tools!Idle EXCEPT !.phase = "sent", !.role = role, !.key = key]
    OBVIOUS
  <2>2. CallOk(e, d)
    BY <2>1 DEF CallOk, Tools!Idle
  <2> QED
    BY <1>4, <1>6, <2>1, <2>2 DEF Tools!Shape, Tools!Become
<1>7. ASSUME NEW source \in Texts, Tools!Read(p, source)
      PROVE  ToolsInv'
  <2>1. PICK a : a = Tools!Found(e, c.role, c.key)
    OBVIOUS
  <2>2. PICK d : d = IF a = None THEN [c EXCEPT !.phase = "create", !.source = source]
                     ELSE [c EXCEPT !.phase = "save", !.source = source, !.artifact = a, !.number = Tools!Number(a)]
    OBVIOUS
  <2>3. call' = [call EXCEPT ![p] = d] /\ answered' = answered
    BY <1>1, <1>7, <2>1, <2>2 DEF Tools!Read, Tools!Become
  <2>4. c = [phase |-> c.phase, role |-> c.role, key |-> c.key, source |-> c.source,
             artifact |-> c.artifact, number |-> c.number]
    BY <1>2 DEF CallOk
  <2>5. CASE a = None
    <3>1. d = [phase |-> "create", role |-> c.role, key |-> c.key, source |-> source,
               artifact |-> c.artifact, number |-> c.number]
      BY <2>2, <2>4, <2>5
    <3>2. CallOk(e, d)
      BY <3>1 DEF CallOk
    <3> QED
      BY <1>4, <2>3, <3>2
  <2>6. CASE a # None
    <3>1. d = [phase |-> "save", role |-> c.role, key |-> c.key, source |-> source,
               artifact |-> a, number |-> Tools!Number(a)]
      BY <2>2, <2>4, <2>6
    <3>2. Linked(e, a) /\ artifacts[a].role = c.role
      BY <1>2, <2>1, <2>6, FoundIsLinked
    <3>3. CallOk(e, d)
      BY <3>1, <3>2 DEF CallOk
    <3> QED
      BY <1>4, <2>3, <3>3
  <2> QED
    BY <2>5, <2>6
<1>8. CASE Tools!Answer(p)
  <2>1. PICK r : r = [experience |-> e, role |-> c.role, key |-> Tools!Named(c), artifact |-> c.artifact,
                      number |-> c.number, source |-> c.source]
    OBVIOUS
  <2>2. answered' = answered \cup {r} /\ call' = [call EXCEPT ![p] = Tools!Idle] /\ c.phase = "answer"
    BY <1>1, <1>8, <2>1 DEF Tools!Answer, Tools!Become
  <2>3. ResultOk(r)
    BY <1>2, <2>1, <2>2 DEF ResultOk, CallOk, Tools!Named
  <2>4. ResultOk(r)'
    BY <1>2, <1>3, <2>3, ToolsGrow
  <2> QED
    BY <1>4, <1>5, <2>2, <2>4
<1>9. CASE Tools!Fail(p)
  BY <1>4, <1>5, <1>9 DEF Tools!Fail, Tools!Become
<1> QED
  BY <1>6, <1>7, <1>8, <1>9

\* A revision that is saved by a call or a person.
LEMMA Revises ==
  ASSUME ToolsInv,
         \/ \E p \in Pages : Tools!Save(p)
         \/ \E a \in Tools!Artifacts : Tools!Edit(a)
  PROVE  ToolsInv'
<1>1. ASSUME NEW p \in Pages, Tools!Save(p)
      PROVE  ToolsInv'
  <2>1. PICK e, c : e = at[p] /\ c = call[p]
    OBVIOUS
  <2>2. /\ e \in Experiences /\ CallOk(e, c) /\ c.phase = "save"
        /\ Tools!SaveRevision(c.artifact, c.number, c.source)
        /\ UNCHANGED <<links, at, answered>>
    BY <1>1, <2>1 DEF ToolsInv, Tools!Save
  <2>3. Linked(e, c.artifact) /\ c.artifact \in 1..Len(artifacts)
    BY <2>2 DEF CallOk, Linked
  <2>4. PICK a, number : a = c.artifact /\ number = Len(artifacts'[c.artifact].revisions)
    OBVIOUS
  <2>5. /\ Grown /\ KeysAreUnique' /\ MainsAreSingle'
        /\ Tools!Outcome(a, c.number, c.source) # "refused" => Holds(a, number, c.source)'
    <3>1. Tools!SaveRevision(a, c.number, c.source) /\ a \in 1..Len(artifacts)
      BY <2>2, <2>3, <2>4
    <3>2. number = Len(artifacts'[a].revisions)
      BY <2>4
    <3> QED
      BY <2>2, <3>1, <3>2, RevisionIsSaved
  <2>6. PICK d : d = IF Tools!Outcome(a, c.number, c.source) = "refused" THEN Tools!Idle
                     ELSE [c EXCEPT !.phase = "answer", !.number = number]
    OBVIOUS
  <2>7. call' = [call EXCEPT ![p] = d]
    BY <1>1, <2>1, <2>4, <2>6 DEF Tools!Save, Tools!Become
  <2>8. CallOk(e, d)'
    <3>1. CASE Tools!Outcome(a, c.number, c.source) = "refused"
      BY <2>6, <3>1 DEF CallOk, Tools!Idle
    <3>2. CASE Tools!Outcome(a, c.number, c.source) # "refused"
      <4>1. d = [phase |-> "answer", role |-> c.role, key |-> c.key, source |-> c.source,
                 artifact |-> a, number |-> number]
        BY <2>2, <2>4, <2>6, <3>2 DEF CallOk
      <4>2. CallOk(e, c)'
        BY <2>2, <2>5, ToolsGrow
      <4>3. Linked(e, a)' /\ artifacts'[a].role = c.role
        BY <2>2, <2>4, <4>2 DEF CallOk
      <4>4. Holds(a, number, c.source)'
        BY <2>5, <3>2
      <4> QED
        BY <4>1, <4>3, <4>4 DEF CallOk
    <3> QED
      BY <3>1, <3>2
  <2>9. CallOk(at[p], d)'
    BY <2>1, <2>2, <2>8 DEF CallOk, Linked
  <2> QED
    BY <2>2, <2>5, <2>7, <2>9, ToolMoves
<1>2. ASSUME NEW a \in Tools!Artifacts, Tools!Edit(a)
      PROVE  ToolsInv'
  <2>1. a \in 1..Len(artifacts) /\ UNCHANGED <<links, at, call, answered>>
    BY <1>2 DEF Tools!Edit, ToolsInv, KeysAreUnique, Listed
  <2>2. Grown /\ KeysAreUnique' /\ MainsAreSingle'
    BY <1>2, <2>1, RevisionIsSaved DEF Tools!Edit
  <2> QED
    BY <2>1, <2>2, ToolMoves
<1> QED
  BY <1>1, <1>2

\* A new artifact has a key that no other has.
LEMMA ArtifactIsAdded ==
  ASSUME ToolsInv, NEW key, NEW role, NEW source, ~Tools!Taken(key), links' = links,
         artifacts' = Append(artifacts, [key |-> key, role |-> role, revisions |-> <<source>>]),
         NEW made, made = Len(artifacts')
  PROVE  /\ Grown /\ KeysAreUnique' /\ MainsAreSingle'
         /\ made \in 1..Len(artifacts') /\ artifacts'[made].role = role
         /\ Holds(made, 1, source)'
<1>1. PICK new : new = [key |-> key, role |-> role, revisions |-> <<source>>]
  OBVIOUS
<1>2. /\ Listed(artifacts)' /\ Len(artifacts') = Len(artifacts) + 1 /\ Len(artifacts) \in Nat
      /\ artifacts'[Len(artifacts) + 1] = new
      /\ \A a \in 1..Len(artifacts) : artifacts'[a] = artifacts[a]
  <2>1. Listed(artifacts)
    BY DEF ToolsInv, KeysAreUnique
  <2> QED
    BY <1>1, <2>1, Appended DEF Listed
<1>3. \A a \in 1..Len(artifacts) : artifacts[a].key # key
  BY DEF Tools!Taken, ToolsInv, KeysAreUnique, Listed
<1>4. Listed(new.revisions) /\ Len(new.revisions) = 1 /\ new.revisions[1] = source
  BY <1>1 DEF Listed
<1>5. KeysAreUnique'
  <2>1. ASSUME NEW a \in 1..(Len(artifacts) + 1)
        PROVE  /\ artifacts'[a] = [key |-> artifacts'[a].key, role |-> artifacts'[a].role,
                                   revisions |-> artifacts'[a].revisions]
               /\ Listed(artifacts'[a].revisions) /\ Len(artifacts'[a].revisions) > 0
    <3>1. CASE a = Len(artifacts) + 1
      BY <1>1, <1>2, <1>4, <3>1
    <3>2. CASE a # Len(artifacts) + 1
      BY <1>2, <3>2 DEF ToolsInv, KeysAreUnique
    <3> QED
      BY <3>1, <3>2
  <2>2. ASSUME NEW a \in 1..(Len(artifacts) + 1), NEW b \in 1..(Len(artifacts) + 1),
               artifacts'[a].key = artifacts'[b].key
        PROVE  a = b
    BY <1>1, <1>2, <1>3, <2>2 DEF ToolsInv, KeysAreUnique
  <2> QED
    BY <1>2, <2>1, <2>2 DEF KeysAreUnique, Listed
<1>6. MainsAreSingle'
  BY <1>2, MainsStay
<1>7. Grown
  <2>1. \A e \in Experiences : Len(links[e]) \in Nat
    BY DEF ToolsInv, MainsAreSingle, Listed
  <2> QED
    BY <1>2, <2>1 DEF Grown
<1>8. Holds(made, 1, source)' /\ artifacts'[made].role = role
  BY <1>1, <1>2, <1>4 DEF Holds
<1> QED
  BY <1>2, <1>5, <1>6, <1>7, <1>8

LEMMA KeyIsTried ==
  ASSUME ToolsInv, NEW p \in Pages, Tools!Create(p)
  PROVE  ToolsInv'
<1>1. PICK e, c : e = at[p] /\ c = call[p]
  OBVIOUS
<1>2. /\ e \in Experiences /\ CallOk(e, c)
      /\ c.phase \in {"create", "scoped"}
      /\ c = [phase |-> c.phase, role |-> c.role, key |-> c.key, source |-> c.source,
              artifact |-> c.artifact, number |-> c.number]
      /\ UNCHANGED <<links, at, answered>>
  BY <1>1 DEF Tools!Create, ToolsInv, CallOk
<1>3. PICK key : key = IF c.phase = "create" THEN c.key ELSE Tools!Scoped(c.key, at[p])
  OBVIOUS
<1>4. ASSUME NEW d, CallOk(e, d)', call' = [call EXCEPT ![p] = d], Grown, KeysAreUnique', MainsAreSingle'
      PROVE  ToolsInv'
  <2>1. CallOk(at[p], d)'
    BY <1>1, <1>2, <1>4 DEF CallOk, Linked
  <2> QED
    BY <1>2, <1>4, <2>1, ToolMoves
<1>5. CASE /\ Tools!Taken(key)
           /\ Tools!Become(p, IF c.phase = "create" THEN [c EXCEPT !.phase = "scoped"] ELSE Tools!Idle)
           /\ UNCHANGED artifacts
  <2>1. PICK d : d = IF c.phase = "create" THEN [c EXCEPT !.phase = "scoped"] ELSE Tools!Idle
    OBVIOUS
  <2>2. CallOk(e, d)'
    <3>1. CASE c.phase = "create"
      <4>1. d = [phase |-> "scoped", role |-> c.role, key |-> c.key, source |-> c.source,
                 artifact |-> c.artifact, number |-> c.number]
        BY <1>2, <2>1, <3>1
      <4> QED
        BY <4>1 DEF CallOk
    <3>2. CASE c.phase # "create"
      BY <2>1, <3>2 DEF CallOk, Tools!Idle
    <3> QED
      BY <3>1, <3>2
  <2>3. Grown /\ KeysAreUnique' /\ MainsAreSingle'
    BY <1>2, <1>5, NothingIsSaved
  <2> QED
    BY <1>4, <1>5, <2>1, <2>2, <2>3 DEF Tools!Become
<1>6. CASE /\ ~Tools!Taken(key)
           /\ artifacts' = Append(artifacts, [key |-> key, role |-> c.role, revisions |-> <<c.source>>])
           /\ Tools!Become(p, [c EXCEPT !.phase = "link", !.artifact = Len(artifacts'), !.number = 1])
  <2>1. PICK a : a = Len(artifacts')
    OBVIOUS
  <2>2. PICK d : d = [phase |-> "link", role |-> c.role, key |-> c.key, source |-> c.source,
                      artifact |-> a, number |-> 1]
    OBVIOUS
  <2>3. [c EXCEPT !.phase = "link", !.artifact = a, !.number = 1] = d
    <3>1. PICK one, f : one = 1 /\ f = [c EXCEPT !.phase = "link", !.artifact = a, !.number = one]
      OBVIOUS
    <3>2. f = [phase |-> "link", role |-> c.role, key |-> c.key, source |-> c.source, artifact |-> a, number |-> one]
      BY <1>2, <3>1
    <3> QED
      BY <2>2, <3>1, <3>2
  <2>4. /\ Grown /\ KeysAreUnique' /\ MainsAreSingle'
        /\ a \in 1..Len(artifacts') /\ artifacts'[a].role = c.role
        /\ Holds(a, 1, c.source)'
    BY <1>2, <1>6, <2>1, ArtifactIsAdded
  <2>5. CallOk(e, d)'
    BY <2>2, <2>4 DEF CallOk
  <2>6. call' = [call EXCEPT ![p] = d]
    BY <1>6, <2>1, <2>3 DEF Tools!Become
  <2> QED
    BY <1>4, <2>4, <2>5, <2>6
<1> QED
  BY <1>1, <1>3, <1>5, <1>6 DEF Tools!Create

\* A link is made to the artifact that was created, and to a main process only
\* if there is none.
LEMMA Links ==
  ASSUME ToolsInv, NEW p \in Pages, Tools!Link(p)
  PROVE  ToolsInv'
<1>1. PICK c, e : c = call[p] /\ e = at[p]
  OBVIOUS
<1>2. /\ c.phase = "link" /\ c.artifact \in 1..Len(artifacts) /\ artifacts[c.artifact].role = c.role
      /\ Holds(c.artifact, c.number, c.source)
      /\ c = [phase |-> c.phase, role |-> c.role, key |-> c.key, source |-> c.source,
              artifact |-> c.artifact, number |-> c.number]
      /\ e \in Experiences
      /\ UNCHANGED <<artifacts, at, answered>>
  BY <1>1 DEF Tools!Link, ToolsInv, CallOk
<1>3. CASE ~Tools!MayLink(e, c.role)
  <2>1. CallOk(at[p], Tools!Idle)'
    BY DEF CallOk, Tools!Idle
  <2>2. /\ call' = [call EXCEPT ![p] = Tools!Idle] /\ links' = links
        /\ Grown /\ KeysAreUnique' /\ MainsAreSingle'
    BY <1>1, <1>2, <1>3, NothingIsSaved DEF Tools!Link, Tools!Become
  <2> QED
    BY <1>2, <2>1, <2>2, ToolMoves
<1>4. CASE Tools!MayLink(e, c.role)
  <2>1. PICK d : d = [phase |-> "answer", role |-> c.role, key |-> c.key, source |-> c.source,
                      artifact |-> c.artifact, number |-> c.number]
    OBVIOUS
  <2>2. /\ links' = [links EXCEPT ![e] = Append(links[e], c.artifact)]
        /\ call' = [call EXCEPT ![p] = d]
    <3>1. [c EXCEPT !.phase = "answer"] = d
      BY <1>2, <2>1
    <3> QED
      BY <1>1, <1>4, <3>1 DEF Tools!Link, Tools!Become
  <2>3. PICK old, new : old = links[e] /\ new = Append(old, c.artifact)
    OBVIOUS
  <2>4. /\ Listed(old) /\ Len(old) \in Nat
        /\ links'[e] = new /\ \A f \in Experiences \ {e} : links'[f] = links[f]
        /\ links' = [f \in Experiences |-> links'[f]]
    BY <1>2, <2>2, <2>3 DEF ToolsInv, MainsAreSingle, Listed
  <2>5. /\ Listed(new) /\ Len(new) = Len(old) + 1 /\ new[Len(old) + 1] = c.artifact
        /\ \A n \in 1..Len(old) : new[n] = old[n]
    BY <2>3, <2>4, Appended
  <2>6. /\ \A n \in 1..Len(old) : old[n] \in 1..Len(artifacts)
        /\ \A m, n \in 1..Len(old) : artifacts[old[m]].role = "MAIN" /\ artifacts[old[n]].role = "MAIN" => m = n
    BY <1>2, <2>3 DEF ToolsInv, MainsAreSingle
  <2>7. c.role = "MAIN" => \A n \in 1..Len(old) : artifacts[old[n]].role # "MAIN"
    BY <1>4, <2>3, <2>4 DEF Tools!MayLink, Listed
  <2>8. ASSUME NEW m \in 1..(Len(old) + 1), NEW n \in 1..(Len(old) + 1),
               artifacts[new[m]].role = "MAIN", artifacts[new[n]].role = "MAIN"
        PROVE  m = n
    <3>1. \A n0 \in 1..(Len(old) + 1) : n0 # Len(old) + 1 => n0 \in 1..Len(old)
      BY <2>4
    <3>2. ASSUME NEW l \in 1..Len(old), artifacts[new[l]].role = "MAIN"
          PROVE  artifacts[new[Len(old) + 1]].role # "MAIN"
      BY <1>2, <2>5, <2>7, <3>2
    <3>3. CASE m = Len(old) + 1
      BY <2>8, <3>1, <3>2, <3>3
    <3>4. CASE n = Len(old) + 1
      BY <2>8, <3>1, <3>2, <3>4
    <3>5. CASE m # Len(old) + 1 /\ n # Len(old) + 1
      BY <2>5, <2>6, <2>8, <3>1, <3>5
    <3> QED
      BY <3>3, <3>4, <3>5
  <2>9. \A n \in 1..(Len(old) + 1) : new[n] \in 1..Len(artifacts)
    BY <1>2, <2>4, <2>5, <2>6
  <2>10. MainsAreSingle'
    <3>1. ASSUME NEW f \in Experiences
          PROVE  /\ Listed(links'[f])
                 /\ \A n \in 1..Len(links'[f]) : links'[f][n] \in 1..Len(artifacts)
                 /\ \A m, n \in 1..Len(links'[f]) :
                      artifacts[links'[f][m]].role = "MAIN" /\ artifacts[links'[f][n]].role = "MAIN" => m = n
      <4>1. CASE f = e
        BY <2>4, <2>5, <2>8, <2>9, <4>1
      <4>2. CASE f # e
        BY <2>4, <4>2 DEF ToolsInv, MainsAreSingle
      <4> QED
        BY <4>1, <4>2
    <3> QED
      BY <1>2, <2>4, <3>1 DEF MainsAreSingle, Listed
  <2>11. Grown
    <3>1. \A f \in Experiences : \A n \in 1..Len(links[f]) : n \in 1..Len(links'[f]) /\ links'[f][n] = links[f][n]
      <4> SUFFICES ASSUME NEW f \in Experiences, NEW n \in 1..Len(links[f])
                   PROVE  n \in 1..Len(links'[f]) /\ links'[f][n] = links[f][n]
        OBVIOUS
      <4>1. CASE f = e
        BY <2>3, <2>4, <2>5, <4>1
      <4>2. CASE f # e
        BY <2>4, <4>2
      <4> QED
        BY <4>1, <4>2
    <3>2. Len(artifacts) \in Nat
      BY DEF ToolsInv, KeysAreUnique, Listed
    <3> QED
      BY <1>2, <3>1, <3>2 DEF Grown
  <2>12. CallOk(at[p], d)'
    <3>1. Len(new) \in 1..Len(new) /\ new[Len(new)] = c.artifact
      BY <2>4, <2>5
    <3>2. Linked(e, c.artifact)'
      BY <1>2, <2>4, <3>1 DEF Linked
    <3>3. CallOk(e, d)'
      BY <1>2, <2>1, <3>2 DEF CallOk, Holds
    <3> QED
      BY <1>1, <1>2, <3>3 DEF CallOk, Linked
  <2>13. KeysAreUnique'
    BY <1>2 DEF ToolsInv, KeysAreUnique, Listed
  <2> QED
    BY <1>2, <2>2, <2>10, <2>11, <2>12, <2>13, ToolMoves
<1> QED
  BY <1>3, <1>4

LEMMA ToolsPreserved ==
  ASSUME ToolsInv, [Tools!Next]_Tools!vars
  PROVE  ToolsInv'
<1>1. CASE UNCHANGED Tools!vars
  BY <1>1, NothingIsSaved, ToolMoves DEF Tools!vars
<1> QED
  BY <1>1, Asks, Revises, KeyIsTried, Links DEF Tools!Next

\* Of the links that fit, the oldest is the link itself, or its artifact's.
LEMMA LinkedIsFound ==
  ASSUME ToolsInv, NEW e \in Experiences, NEW a, Linked(e, a)
  PROVE  Tools!Found(e, artifacts[a].role, artifacts[a].key) = a
<1>1. PICK role, key : role = artifacts[a].role /\ key = artifacts[a].key
  OBVIOUS
<1>2. PICK n \in 1..Len(links[e]) : links[e][n] = a
  BY DEF Linked
<1>3. a \in 1..Len(artifacts) /\ DOMAIN links[e] = 1..Len(links[e])
  BY DEF Linked, ToolsInv, MainsAreSingle, Listed
<1>4. n \in Tools!Fitting(e, role, key)
  BY <1>1, <1>2, <1>3 DEF Tools!Fitting
<1>5. PICK k \in Tools!Fitting(e, role, key) : Tools!Found(e, role, key) = links[e][k]
  <2>1. Tools!Fitting(e, role, key) # {}
    BY <1>4
  <2> QED
    BY <2>1, FoundFits
<1>6. /\ k \in 1..Len(links[e]) /\ links[e][k] \in 1..Len(artifacts)
      /\ artifacts[links[e][k]].role = role
      /\ role = "MAIN" \/ artifacts[links[e][k]].key = key
  BY <1>3, <1>5 DEF Tools!Fitting, ToolsInv, MainsAreSingle
<1>7. links[e][k] = a
  <2>1. CASE role = "MAIN"
    BY <1>1, <1>2, <1>6, <2>1 DEF ToolsInv, MainsAreSingle
  <2>2. CASE role # "MAIN"
    BY <1>1, <1>3, <1>6, <2>2 DEF ToolsInv, KeysAreUnique
  <2> QED
    BY <2>1, <2>2
<1> QED
  BY <1>1, <1>5, <1>7

LEMMA ToolsLeadBack ==
  ASSUME ToolsInv
  PROVE  Tools!KeysLeadBack
<1>1. Tools!ShownIsRevised
  <2> SUFFICES ASSUME NEW e \in Experiences, NEW a \in Tools!Shown(e)
               PROVE  Tools!Found(e, artifacts[a].role, artifacts[a].key) = a
    BY DEF Tools!ShownIsRevised
  <2>1. Linked(e, a)
    BY DEF Tools!Shown, Linked, ToolsInv, MainsAreSingle, Listed
  <2> QED
    BY <2>1, LinkedIsFound
<1>2. Tools!ResultsStand
  <2> SUFFICES ASSUME NEW r \in answered
               PROVE  /\ Tools!Found(r.experience, r.role, r.key) = r.artifact
                      /\ Tools!Source(r.artifact, r.number) = r.source
    BY DEF Tools!ResultsStand
  <2>1. ResultOk(r)
    BY DEF ToolsInv
  <2>2. PICK e, a : e = r.experience /\ a = r.artifact
    OBVIOUS
  <2>3. Tools!Found(e, artifacts[a].role, artifacts[a].key) = a
    BY <2>1, <2>2, LinkedIsFound DEF ResultOk
  <2> QED
    BY <2>1, <2>2, <2>3 DEF ResultOk, Holds, Tools!Source
<1> QED
  BY <1>1, <1>2 DEF Tools!KeysLeadBack

\* Whatever tool calls of pages race, break off and are made again, the keys
\* that an assistant is shown or answered, fallback keys among them, lead back to
\* the artifacts they were given for, and the revision of a result holds what its
\* call generated (the artifacts route, ai_experience_one_main_idx), for any
\* number of pages, experiences, keys and artifacts.
THEOREM Revisable ==
  Tools!Spec => []Tools!KeysLeadBack
<1>1. Tools!Init => ToolsInv
  BY ToolsInitially
<1>2. ToolsInv /\ [Tools!Next]_Tools!vars => ToolsInv'
  BY ToolsPreserved
<1>3. ToolsInv => Tools!KeysLeadBack
  BY ToolsLeadBack
<1> QED
  BY <1>1, <1>2, <1>3, PTL DEF Tools!Spec

=============================================================================
