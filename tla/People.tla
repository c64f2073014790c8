--------------------------------- MODULE People ---------------------------------
(***************************************************************************)
(* Invitations to the workspaces of an organization, the accounts and      *)
(* memberships they end in, and the context that a member's request gets.  *)
(* The accept route reads, creates an account and accepts in steps of      *)
(* their own, and takes the account back if the last one fails.            *)
(* Memberships are never removed.                                          *)
(***************************************************************************)
EXTENDS Naturals, FiniteSets, FiniteSetsExt

CONSTANTS
  Emails,
  Workspaces,       \* numbers, in the order of their ids
  Founders,         \* memberships to begin with: <<account, email, scope, role>>
  Requests,         \* requests to accept that are served at a time
  MaxInvitations,   \* bound: invitations
  MaxAccounts,      \* bound: accounts ever created
  None

\* Other roles than these have no membership:manage.
Managers == {"organization-owner", "workspace-admin"}
Roles == Managers \cup {"task-worker"}

\* The scope of the organization: workspace_id NULL, which sorts first.
Organization == 0
Scopes == Workspaces \cup {Organization}

Ids == 1..MaxInvitations
Accounts == 1..MaxAccounts
Invitations == [email : Emails, workspace : Workspaces, role : Roles \ {"organization-owner"},
                by : Accounts, state : {"PENDING", "ACCEPTED", "REVOKED"}, expired : BOOLEAN]

Idle == [phase |-> "idle"]

VARIABLES
  account,          \* "user": the account of an email
  accounts,         \* accounts created so far
  memberships,      \* of principals: the account, a scope and a role
  invitation,       \* the invitations made
  request           \* the accept requests

vars == <<account, accounts, memberships, invitation, request>>

TypeOK ==
  /\ account \in [Emails -> Accounts \cup {None}]
  /\ accounts \in 0..MaxAccounts
  /\ memberships \subseteq [account : Accounts, scope : Scopes, role : Roles]
  /\ invitation \in [Ids -> Invitations \cup {None}]
  /\ \A r \in Requests : request[r].phase \in {"idle", "create", "accept", "clean"}

-----------------------------------------------------------------------------
Existing == {e \in Emails : account[e] # None}
Made == {i \in Ids : invitation[i] # None}

\* A token that getInvitationPreview and acceptInvitation take.
Usable(i) == i \in Made /\ invitation[i].state = "PENDING" /\ ~invitation[i].expired

\* A principal is there as soon as there is a membership: accepting makes both.
Rows(a) == {m \in memberships : m.account = a}

\* Mutant: the role of one membership with the scope of another.
BestOf(a) == [scope |-> Min({m.scope : m \in Rows(a)}),
              role |-> IF \E m \in Rows(a) : m.role \in Managers THEN "workspace-admin" ELSE "task-worker"]

\* resolvePrincipalContext: the first row, ordered by workspace; the other
\* memberships of a person give no access.
Context(a) == CHOOSE m \in Rows(a) : \A n \in Rows(a) : m.scope <= n.scope

\* assertPermission(membership:manage) and assertWorkspaceAccess.
Manages(a, w) ==
  /\ Rows(a) # {}
  /\ Context(a).role \in Managers
  /\ Context(a).scope \in {Organization, w}

Init ==
  /\ account = [e \in Emails |-> IF \E m \in Founders : m[2] = e
                                 THEN (CHOOSE m \in Founders : m[2] = e)[1] ELSE None]
  /\ accounts = Max({m[1] : m \in Founders})
  /\ memberships = {[account |-> m[1], scope |-> m[3], role |-> m[4]] : m \in Founders}
  /\ invitation = [i \in Ids |-> None]
  /\ request = [r \in Requests |-> Idle]

\* createInvitation.  organization_invitations_pending_email_idx: an email has
\* one pending invitation to a workspace, also when it has expired.
Invite(a, w, e, role) ==
  /\ Manages(a, w) /\ role # "organization-owner"
  /\ ~\E i \in Made : invitation[i].workspace = w /\ invitation[i].email = e /\ invitation[i].state = "PENDING"
  /\ Ids \ Made # {}
  /\ invitation' = [invitation EXCEPT ![Min(Ids \ Made)] =
       [email |-> e, workspace |-> w, role |-> role, by |-> a, state |-> "PENDING", expired |-> FALSE]]
  /\ UNCHANGED <<account, accounts, memberships, request>>

\* revokeInvitation
Revoke(a, i) ==
  /\ i \in Made /\ invitation[i].state = "PENDING" /\ Manages(a, invitation[i].workspace)
  /\ invitation' = [invitation EXCEPT ![i].state = "REVOKED"]
  /\ UNCHANGED <<account, accounts, memberships, request>>

\* Seven days are over.
Expire(i) ==
  /\ Usable(i)
  /\ invitation' = [invitation EXCEPT ![i].expired = TRUE]
  /\ UNCHANGED <<account, accounts, memberships, request>>

Become(r, record) == request' = [request EXCEPT ![r] = record]

\* POST accept: the preview, and the account that has its email.  The password
\* of an account that is there must be right.
Open(r, i) ==
  /\ request[r] = Idle /\ Usable(i)
  /\ LET a == account[invitation[i].email]
     IN Become(r, IF a = None THEN [phase |-> "create", invitation |-> i]
                  ELSE [phase |-> "accept", invitation |-> i, account |-> a, created |-> FALSE])
  /\ UNCHANGED <<account, accounts, memberships, invitation>>

\* A new account.  If another request was first, the email is taken, and the
\* request fails.
CreateAccount(r) ==
  /\ request[r].phase = "create"
  /\ LET e == invitation[request[r].invitation].email
     IN IF e \in Existing THEN Become(r, Idle) /\ UNCHANGED <<account, accounts>>
        ELSE /\ accounts < MaxAccounts
             /\ accounts' = accounts + 1
             /\ account' = [account EXCEPT ![e] = accounts + 1]
             /\ Become(r, [phase |-> "accept", invitation |-> request[r].invitation,
                           account |-> accounts + 1, created |-> TRUE])
  /\ UNCHANGED <<memberships, invitation>>

\* ON CONFLICT DO NOTHING: who is a member of the workspace keeps the role.
Joined(a, w, role) ==
  IF \E m \in Rows(a) : m.scope = w THEN memberships
  ELSE memberships \cup {[account |-> a, scope |-> w, role |-> role]}

\* acceptInvitation: the invitation is locked and must still be usable, and the
\* account still be there with its email.  The answer to the commit may be lost.
Accept(r) ==
  /\ request[r].phase = "accept"
  /\ LET i == request[r].invitation
         a == request[r].account
         failed == IF request[r].created THEN [phase |-> "clean", account |-> a] ELSE Idle
     IN IF Usable(i) /\ account[invitation[i].email] = a
        THEN /\ memberships' = Joined(a, invitation[i].workspace, invitation[i].role)
             /\ invitation' = [invitation EXCEPT ![i].state = "ACCEPTED"]
             /\ \E next \in {Idle, failed} : Become(r, next)
        ELSE Become(r, failed) /\ UNCHANGED <<memberships, invitation>>
  /\ UNCHANGED <<account, accounts>>

\* Mutant: principals.auth_user_id does not hold the account.
Discarded(a) == TRUE

\* ON DELETE RESTRICT: the account of a principal cannot be deleted.
Removable(a) == Rows(a) = {}

\* The account that the request created is deleted, if that is possible.
CleanUp(r) ==
  /\ request[r].phase = "clean"
  /\ account' = [e \in Emails |-> IF account[e] = request[r].account /\ Removable(request[r].account)
                                  THEN None ELSE account[e]]
  /\ Become(r, Idle)
  /\ UNCHANGED <<accounts, memberships, invitation>>

\* The server stops: an account that was created is left.
Stop(r) ==
  /\ request[r] # Idle
  /\ Become(r, Idle)
  /\ UNCHANGED <<account, accounts, memberships, invitation>>

Next ==
  \/ \E a \in Accounts :
       \/ \E w \in Workspaces, e \in Emails, role \in Roles : Invite(a, w, e, role)
       \/ \E i \in Ids : Revoke(a, i)
  \/ \E i \in Ids : Expire(i)
  \/ \E r \in Requests :
       \/ \E i \in Ids : Open(r, i)
       \/ CreateAccount(r) \/ Accept(r) \/ CleanUp(r) \/ Stop(r)

Spec == Init /\ [][Next]_vars

-----------------------------------------------------------------------------
\* Who has accepted an invitation can sign in and is a member of its workspace,
\* whichever other request for the same email failed and took its account back.
AcceptedCanSignIn ==
  \A i \in Made : invitation[i].state = "ACCEPTED" =>
    /\ account[invitation[i].email] # None
    /\ \E m \in Rows(account[invitation[i].email]) : m.scope = invitation[i].workspace

\* Nobody but an owner, or an administrator of that workspace, has invited
\* anybody to it, and nobody became a member without an invitation with that
\* role: authority over a workspace is never handed on from another one.
AuthorityIsHandedOn ==
  /\ \A i \in Made : \E m \in Rows(invitation[i].by) :
       m.role \in Managers /\ m.scope \in {Organization, invitation[i].workspace}
  /\ \A m \in memberships :
       \/ \E f \in Founders : f[1] = m.account /\ f[3] = m.scope /\ f[4] = m.role
       \/ \E i \in Made : /\ invitation[i].state = "ACCEPTED" /\ account[invitation[i].email] = m.account
                          /\ invitation[i].workspace = m.scope /\ invitation[i].role = m.role

=============================================================================
