------------------------------- MODULE Workspace -------------------------------
(***************************************************************************)
(* The components that share no state with each other, as one system that  *)
(* is one of them: part tells which.  The execution profile has variables  *)
(* of its own; the other components take v1 to v7 in the order in which    *)
(* they declare their variables.  A component with theorems is instanced   *)
(* through the module of its proofs, which adds facts and no behaviour.    *)
(***************************************************************************)
EXTENDS ExecutionProfile

CONSTANTS
  \* Studio panel
  Files, FieldTexts, MaxCommands, Error,
  \* decisions
  Tables, InputNames, InputValues, Outputs, Failing,
  \* pages of AI experiences: their artifacts, their questions
  Pages, Experiences, ArtifactNames, Generated, MaxArtifacts, MaxRevisions, MaxCalls,
  MaxQuestions, Options,
  \* people
  Emails, Workspaces, Founders, AcceptRequests, MaxInvitations, MaxAccounts,
  \* previews
  Drafts, Waits, UsesDecision, MaxDrafts, MaxDecisions,
  \* requests with an Idempotency-Key, and what is asked by them: <<body, key, scope>>
  Calls, CallerScopes, Contents, BusinessKeys, IdempotencyKeys, Asked

VARIABLES part, v1, v2, v3, v4, v5, v6, v7

-----------------------------------------------------------------------------
Bindings == INSTANCE ModelBindings WITH Models <- Files, JobValues <- FieldTexts,
  element <- v1, companion <- v2, messages <- v3, kind <- v4, stack <- v5, applied <- v6

\* People; of AI experiences, Team!Talk is the conversation and Team!Tools are
\* the calls that make artifacts.
Team == INSTANCE CollaborationProofs WITH Requests <- AcceptRequests, Names <- ArtifactNames, Texts <- Generated,
  account <- v1, accounts <- v2, memberships <- v3, invitation <- v4, request <- v5,
  kind <- v1, transcript <- v2, sent <- v3, responses <- v4, events <- v5, reviews <- v6, page <- v7,
  artifacts <- v1, links <- v2, at <- v3, call <- v4, answered <- v5, calls <- v6

\* Requests with a key; Repeats!Table is the evaluation of a decision, and
\* Repeats!Preview the simulation of a draft.
Repeats == INSTANCE RequestsProofs WITH Scopes <- CallerScopes, Keys <- IdempotencyKeys,
  Names <- InputNames, Values <- InputValues, Texts <- Drafts, MaxRevisions <- MaxDrafts,
  rows <- v1, call <- v2,
  table <- v1, variables <- v2, result <- v3, phase <- v4, rule <- v5, matching <- v6, outcome <- v7,
  revisions <- v1, decision <- v2, page <- v3, standing <- v4, journey <- v5, step <- v6

ASSUME BindingsAssumption == Bindings!ContractsApart /\ Bindings!Typed
ASSUME PeopleAssumption == Team!Founded
ASSUME AnswersAssumption == Repeats!AnswersApart
ASSUME TablesAssumption == Repeats!Deployable
ASSUME DraftsAssumption == Repeats!Enveloped

-----------------------------------------------------------------------------
\* Before its first step the execution profile holds no verdict.
NoProfile == model = (CHOOSE m \in Models : TRUE) /\ stage = "process" /\ visited = <<>> /\ cursor = None

WorkspaceInit ==
  \/ part = "profile" /\ Init /\ v1 = None /\ v2 = None /\ v3 = None /\ v4 = None /\ v5 = None /\ v6 = None /\ v7 = None
  \/ /\ NoProfile
     /\ \/ part = "bindings" /\ Bindings!Init /\ v7 = None
        \/ part = "decision" /\ Repeats!Table!Init
        \/ part = "tools" /\ Team!Tools!Init /\ v7 = None
        \/ part = "talk" /\ Team!Talk!Init
        \/ part = "team" /\ Team!Init /\ v6 = None /\ v7 = None
        \/ part = "preview" /\ Repeats!Preview!Init /\ v7 = None
        \/ part = "repeats" /\ Repeats!Init /\ v3 = None /\ v4 = None /\ v5 = None /\ v6 = None /\ v7 = None

Only(name, unused) == part = name /\ UNCHANGED <<part, vars>> /\ UNCHANGED unused

InProfile == part = "profile" /\ UNCHANGED <<part, v1, v2, v3, v4, v5, v6, v7>>
InBindings == Only("bindings", v7)
InDecision == Only("decision", <<>>)
InTools == Only("tools", v7)
InTalk == Only("talk", <<>>)
InTeam == Only("team", <<v6, v7>>)
InPreview == Only("preview", v7)
InRepeats == Only("repeats", <<v3, v4, v5, v6, v7>>)

WorkspaceNext ==
  \/ InProfile /\ CheckProcess
  \/ InProfile /\ CheckElements
  \/ InProfile /\ CheckShape
  \/ InProfile /\ CheckFlows
  \/ InProfile /\ CheckDegrees
  \/ InProfile /\ Walk
  \/ InProfile /\ EndWalk
  \/ InProfile /\ CheckBindings
  \/ InProfile /\ Done
  \/ \E key \in {"none", "good", "other"}, mapping \in {"none", "good", "bad"} :
       \/ InBindings /\ Bindings!ApplyForm(key, mapping)
       \/ InBindings /\ Bindings!ApplyDecision(key, mapping)
  \/ \E owner \in {<<"STARTER">>, <<"PERSON", "good">>, <<"GROUP", "good">>} : InBindings /\ Bindings!ApplyOwner(owner)
  \/ \E key, mapping, limits \in FieldTexts, attempts \in (FieldTexts \ {"none"}) \cup {"zero"} :
       InBindings /\ Bindings!ApplyJob(key, mapping, limits, attempts)
  \/ \E type \in {"DURATION", "DATE"}, expression \in {"good", "other", "bad"} :
       InBindings /\ Bindings!ApplyTimer(type, expression)
  \/ \E name, correlation \in {"good", "other"} :
       \/ InBindings /\ Bindings!ApplyMessage(name, correlation)
       \/ \E mapping \in {"none", "good", "bad"} : InBindings /\ Bindings!ApplyMessageThrow(name, correlation, mapping)
  \/ \E event \in {"TIMER", "MESSAGE"} : InBindings /\ Bindings!Morph(event)
  \/ InBindings /\ Bindings!Undo
  \/ InBindings /\ Bindings!Select
  \/ InBindings /\ Bindings!Reload
  \/ InDecision /\ Repeats!Table!Parse
  \/ InDecision /\ Repeats!Table!Require
  \/ InDecision /\ Repeats!Table!Test
  \/ InDecision /\ Repeats!Table!Conclude
  \/ \E p \in Pages :
       \/ \E role \in Team!Tools!Roles : InTools /\ \E key \in Team!Tools!Askable : Team!Tools!Shape(p, role, key)
       \/ \E source \in Generated : InTools /\ Team!Tools!Read(p, source)
       \/ InTools /\ Team!Tools!Save(p)
       \/ InTools /\ Team!Tools!Create(p)
       \/ InTools /\ Team!Tools!Link(p)
       \/ InTools /\ Team!Tools!Answer(p)
       \/ InTools /\ Team!Tools!Fail(p)
       \/ InTalk /\ Team!Talk!OpenPage(p)
       \/ InTalk /\ Team!Talk!ClosePage(p)
       \/ InTalk /\ Team!Talk!SendTranscript(p)
       \/ \E q \in Team!Talk!Questions :
            \/ InTalk /\ Team!Talk!Ask(p, q)
            \/ InTalk /\ Team!Talk!RecordChoice(p, q)
            \/ InTalk /\ Team!Talk!RequestReview(p, q)
            \/ InTalk /\ Team!Talk!RequestFails(p, q)
            \/ InTalk /\ Team!Talk!Tell(p, q)
            \/ InTalk /\ Team!Talk!Cancel(p, q)
            \/ \E answer \in Options : InTalk /\ Team!Talk!Submit(p, q, answer)
  \/ \E i \in Team!Tools!Artifacts : InTools /\ Team!Tools!Edit(i)
  \/ \E t \in Team!Talk!Transcripts :
       \/ InTalk /\ Team!Talk!Arrive(t)
       \/ InTalk /\ Team!Talk!Lose(t)
  \/ \E r \in AcceptRequests :
       \/ \E i \in Team!Ids : InTeam /\ Team!Open(r, i)
       \/ InTeam /\ Team!CreateAccount(r)
       \/ InTeam /\ Team!Accept(r)
       \/ InTeam /\ Team!CleanUp(r)
       \/ InTeam /\ Team!Stop(r)
  \/ \E i \in Team!Ids :
       \/ InTeam /\ Team!Expire(i)
       \/ \E a \in Team!Accounts : InTeam /\ Team!Revoke(a, i)
  \/ \E a \in Team!Accounts, w \in Workspaces, e \in Emails, role \in Team!Roles :
       InTeam /\ Team!Invite(a, w, e, role)
  \/ \E t \in Drafts :
       \/ InPreview /\ Repeats!Preview!SaveDraft(t)
       \/ InPreview /\ Repeats!Preview!SaveHere(t)
  \/ InPreview /\ Repeats!Preview!Follow
  \/ InPreview /\ Repeats!Preview!SaveDecision
  \/ InPreview /\ Repeats!Preview!Run
  \/ InPreview /\ Repeats!Preview!Restart
  \/ InPreview /\ Repeats!Preview!ReadDraft
  \/ InPreview /\ Repeats!Preview!ReadDecision
  \/ InPreview /\ Repeats!Preview!Start
  \/ InPreview /\ Repeats!Preview!Resume
  \/ \E c \in Calls :
       \/ \E body \in Repeats!Bodies, key \in IdempotencyKeys \cup {None}, scope \in CallerScopes :
            InRepeats /\ <<body, key, scope>> \in Asked /\ Repeats!Begin(c, body, key, scope)
       \/ InRepeats /\ Repeats!FindDeployment(c)
       \/ InRepeats /\ Repeats!FindDecision(c)
       \/ InRepeats /\ Repeats!LookUp(c)
       \/ InRepeats /\ Repeats!Insert(c)
       \/ InRepeats /\ Repeats!Reload(c)
       \/ InRepeats /\ Repeats!Read(c)

workspaceVars == <<part, vars, v1, v2, v3, v4, v5, v6, v7>>

WorkspaceSpec == WorkspaceInit /\ [][WorkspaceNext]_workspaceVars

-----------------------------------------------------------------------------
\* The Studio panel shows of an accepted element what the runtime will do
\* (selectedElement against listBpmn*).
ShownIsRun == part = "bindings" => Bindings!ShownIsRun

\* What was applied in the panel is what the runtime reads from the file.
AppliedIsRun == part = "bindings" => Bindings!AppliedIsRun

\* A model that the profile starts meets no wait without a binding.
WaitsAreBound == part = "bindings" => Bindings!WaitsAreBound

\* Rule by rule evaluation ends in what the whole table says
\* (evaluateParsedDmnDecision).
DecidedByTheTable == part = "decision" => Repeats!Table!DecidedByTheTable

\* The keys that an assistant is shown or answered lead back to the artifacts
\* they were given for (the artifacts route and its unique main link).
KeysLeadBack == part = "tools" => Team!Tools!KeysLeadBack

\* The assistant is told nothing that is not on record (the human tools).
ToldIsOnRecord == part = "talk" => Team!Talk!ToldIsOnRecord

\* Who has accepted an invitation has an account and the membership (the
\* accept route, which takes accounts back).
AcceptedCanSignIn == part = "team" => Team!AcceptedCanSignIn

\* Authority over a workspace is not handed on from another one
\* (resolvePrincipalContext, createInvitation, acceptInvitation).
AuthorityIsHandedOn == part = "team" => Team!AuthorityIsHandedOn

\* The path that a preview shows is a path of one saved source
\* (simulateArtifactDraft, the envelope's deploymentHash).
JourneyIsOnePath == part = "preview" => Repeats!Preview!JourneyIsOnePath

\* All who send one idempotency key get the one answer to their request, and
\* nobody is refused because of an equal one (evaluateDecision,
\* startProcessInstance).
RetriesAgree == part = "repeats" => Repeats!RetriesAgree

=============================================================================
