----------------------------- MODULE ReviewRelease -----------------------------
(***************************************************************************)
(* Governance of artifacts: revisions saved on a draft, reviews that pin   *)
(* revisions, the decision of an independent reviewer, the publication     *)
(* that numbers the versions of the reviewed manifest, its deployment.     *)
(*                                                                         *)
(* Operations that lock one row and then read are one step.  Requesting a  *)
(* review and publishing lock several rows, and the statement that locks   *)
(* also joins rows it does not lock: what it joined is what its snapshot   *)
(* saw, and a row whose locked version no longer satisfies the join is     *)
(* not returned.  The snapshot is a step of its own (Begin...), and so is  *)
(* each lock.  Artifacts are numbers, in the order of their ids.           *)
(***************************************************************************)
EXTENDS Naturals, Sequences, FiniteSets, FiniteSetsExt

CONSTANTS
  Artifacts,      \* ids of the artifacts of one project
  Forms,          \* those of type FORM, never the root of a review
  Sources,        \* possible contents of a revision
  Valid,          \* sources the validator of their type accepts
  References,     \* source -> artifacts whose keys it references
  Fits,           \* <<source, referenced source>> with every mapped field there
  People,
  Authors,        \* principals with artifact:update and review:create
  Reviewers,      \* principals with review:decide
  Admins,         \* organization owners and workspace administrators
  Calls,          \* concurrent review requests and publications
  Drafts,         \* revisions the artifacts are created with
  Edits,          \* saves people try: artifact, author, source
  Requests,       \* reviews people ask for: requester, root, its revision, reviewers
  MaxRevisions, MaxReviews, MaxComments, MaxDeployments,   \* bounds
  Null

ASSUME ArtifactsAssumption == Artifacts \subseteq Nat /\ Forms \subseteq Artifacts
ASSUME SourcesAssumption == Valid \subseteq Sources /\ References \in [Sources -> SUBSET Artifacts]
ASSUME PeopleAssumption == Authors \cup Reviewers \cup Admins \subseteq People /\ Null \notin People \cup Artifacts
ASSUME InputsAssumption ==
  /\ Drafts \subseteq [Artifacts -> [source : Sources, author : Authors]]
  /\ Edits \subseteq [artifact : Artifacts, author : Authors, source : Sources]
  /\ Requests \subseteq [by : Authors, artifact : Artifacts, revision : 1..MaxRevisions,
                         reviewers : (SUBSET People) \ {{}}]
ASSUME CallsAssumption == IsFiniteSet(Calls)
ASSUME BoundsAssumption ==
  {MaxRevisions, MaxReviews, MaxComments, MaxDeployments} \subseteq Nat /\ MaxRevisions # 0

VARIABLES
  revisions,      \* artifact_revisions by artifact; the last is the draft head
  reviews,        \* reviews, assignments, dependencies, comments and decision
  publications,   \* publications and artifact_versions
  deployments,    \* deployments of one environment, in sequence
  call,           \* what each review request or publication is doing
  errors          \* history: answers that no policy of the product gives

vars == <<revisions, reviews, publications, deployments, call, errors>>

Revision == [source : Sources, author : People]
\* The revision of each artifact; 0 when the artifact is not in the manifest.
Manifest == [Artifacts -> 0..MaxRevisions]
Review == [artifact : Artifacts, manifest : Manifest, by : People, reviewers : SUBSET People,
           status : {"OPEN", "APPROVED", "CHANGES_REQUESTED", "CANCELLED"},
           posted : 0..MaxComments, open : SUBSET (1..MaxComments), decidedBy : People \cup {Null}]
Publication == [review : 1..MaxReviews, manifest : Manifest, approvedBy : People \cup {Null},
                version : [Artifacts -> Nat]]
\* seen, decider: what the snapshot of the first statement saw.
Call == [stage : {"idle", "requesting", "pinning", "publishing", "locking", "inserting"},
         by : People \cup {Null}, artifact : Artifacts \cup {Null}, revision : 0..MaxRevisions,
         reviewers : SUBSET People, seen : Manifest, review : 0..MaxReviews,
         decider : People \cup {Null}, held : SUBSET Artifacts, version : [Artifacts -> Nat]]
Error == {"artifact not found", "reference not found", "duplicate source", "deadlock"}

\* One invariant of types and references between the tables.
TypeOK ==
  /\ revisions \in [Artifacts -> Seq(Revision)]
  /\ reviews \in Seq(Review)
  /\ publications \in Seq(Publication)
  /\ deployments \in Seq(1..Len(publications))
  /\ call \in [Calls -> Call]
  /\ errors \subseteq Error
  /\ \A r \in DOMAIN reviews, a \in Artifacts : reviews[r].manifest[a] <= Len(revisions[a])
  /\ \A i \in DOMAIN publications : publications[i].review \in DOMAIN reviews

Nothing == [a \in Artifacts |-> 0]
Idle == [stage |-> "idle", by |-> Null, artifact |-> Null, revision |-> 0, reviewers |-> {},
         seen |-> Nothing, review |-> 0, decider |-> Null, held |-> {}, version |-> Nothing]

\* Every artifact has been created with its first revision.
Init ==
  /\ \E d \in Drafts : revisions = [a \in Artifacts |-> <<d[a]>>]
  /\ reviews = <<>>
  /\ publications = <<>>
  /\ deployments = <<>>
  /\ call = [c \in Calls |-> Idle]
  /\ errors = {}

Head_(a) == Len(revisions[a])
At(a, n) == revisions[a][n]
Heads == [a \in Artifacts |-> Head_(a)]

\* Row locks on artifacts, kept until the transaction ends.
Held(c) ==
  CASE call[c].stage = "pinning" -> {call[c].artifact}
    [] call[c].stage \in {"locking", "inserting"} -> call[c].held
    [] OTHER -> {}
Unlocked(a, c) == \A d \in Calls \ {c} : a \notin Held(d)
ReviewUnlocked(r) ==
  \A c \in Calls : call[c].stage \in {"locking", "inserting"} => call[c].review # r

-----------------------------------------------------------------------------
(* Saving a revision. *)

Recorded(a, source) == \E n \in 1..Head_(a) : At(a, n).source = source
\* Mutant: the unique constraint on the content of a revision is missing.
RecordedAsHead(a, source) == At(a, Head_(a)).source = source
\* artifact_revisions UNIQUE (artifact_id, content_sha256).
Duplicate(a, source) == Recorded(a, source)

\* A save whose base is the draft head.  Saving the head again changes
\* nothing; the source of an earlier revision violates the constraint, and
\* the error is not translated.  A save with another base is refused.
SaveRevision(e) ==
  LET a == e.artifact
      source == e.source
  IN
  /\ \A c \in Calls : a \notin Held(c)
  /\ source # At(a, Head_(a)).source
  /\ IF Duplicate(a, source)
       THEN /\ errors' = errors \cup {"duplicate source"}
            /\ UNCHANGED revisions
       ELSE /\ Head_(a) < MaxRevisions
            /\ revisions' = [revisions EXCEPT ![a] = Append(@, [source |-> source, author |-> e.author])]
            /\ UNCHANGED errors
  /\ UNCHANGED <<reviews, publications, deployments, call>>

-----------------------------------------------------------------------------
(* Requesting a review. *)

\* The snapshot of the statement that locks the root.
BeginReview(c, q) ==
  /\ call[c].stage = "idle"
  /\ Len(reviews) + Cardinality({d \in Calls : call[d].stage \in {"requesting", "pinning"}}) < MaxReviews
  /\ q.revision <= Head_(q.artifact)
  /\ call' = [call EXCEPT ![c] = [Idle EXCEPT !.stage = "requesting", !.by = q.by,
                !.artifact = q.artifact, !.revision = q.revision,
                !.reviewers = q.reviewers, !.seen = Heads]]
  /\ UNCHANGED <<revisions, reviews, publications, deployments, errors>>

MayReview(k) ==
  /\ k.artifact \notin Forms
  /\ k.revision = Head_(k.artifact)
  /\ k.by \notin k.reviewers
  /\ At(k.artifact, k.revision).author \notin k.reviewers
  /\ k.reviewers \subseteq Reviewers \cup Admins
  /\ \A r \in DOMAIN reviews :
       ~(reviews[r].artifact = k.artifact /\ reviews[r].manifest[k.artifact] = k.revision)

End(c) == call' = [call EXCEPT ![c] = Idle]

\* The root is locked.  When the head moved after the snapshot, the join on
\* the draft head returns no row: the artifact is reported missing.
LockRoot(c) ==
  LET k == call[c] IN
  /\ k.stage = "requesting"
  /\ Unlocked(k.artifact, c)
  /\ CASE k.seen[k.artifact] # Head_(k.artifact) ->
            End(c) /\ errors' = errors \cup {"artifact not found"}
       [] k.seen[k.artifact] = Head_(k.artifact) /\ ~MayReview(k) ->
            End(c) /\ UNCHANGED errors
       [] OTHER ->
            /\ call' = [call EXCEPT ![c].stage = "pinning", ![c].seen = Heads]
            /\ UNCHANGED errors
  /\ UNCHANGED <<revisions, reviews, publications, deployments>>

Referenced(k) == References[At(k.artifact, k.revision).source] \ {k.artifact}
Pins(k) == [a \in Artifacts |-> IF a = k.artifact \/ a \in Referenced(k) THEN k.seen[a] ELSE 0]
Resolves(k) ==
  \A a \in Referenced(k) :
    LET source == At(a, k.seen[a]).source IN
    source \in Valid /\ <<At(k.artifact, k.revision).source, source>> \in Fits

\* Mutant: the heads of the referenced artifacts are not read under a lock.
NothingMoved(k) == FALSE
\* A referenced artifact whose head moved after the snapshot is not found.
Moved(k) == \E a \in Referenced(k) : k.seen[a] # Head_(a)

\* The references are locked FOR SHARE and pinned, and the review commits.
CreateReview(c) ==
  LET k == call[c] IN
  /\ k.stage = "pinning"
  /\ \A a \in Referenced(k) : Unlocked(a, c)
  /\ IF Moved(k) \/ ~Resolves(k)
       THEN /\ errors' = IF Moved(k) THEN errors \cup {"reference not found"} ELSE errors
            /\ UNCHANGED reviews
       ELSE /\ reviews' = Append(reviews,
                 [artifact |-> k.artifact, manifest |-> Pins(k), by |-> k.by,
                  reviewers |-> k.reviewers, status |-> "OPEN",
                  posted |-> 0, open |-> {}, decidedBy |-> Null])
            /\ UNCHANGED errors
  /\ End(c)
  /\ UNCHANGED <<revisions, publications, deployments>>

-----------------------------------------------------------------------------
(* The review.  Every operation locks the review and reads it again. *)

Open(r) == ReviewUnlocked(r) /\ reviews[r].status = "OPEN"

AddComment(r) ==
  /\ Open(r)
  /\ reviews[r].posted < MaxComments
  /\ reviews' = [reviews EXCEPT ![r].posted = @ + 1, ![r].open = @ \cup {reviews[r].posted + 1}]
  /\ UNCHANGED <<revisions, publications, deployments, call, errors>>

ResolveComment(r, m) ==
  /\ Open(r)
  /\ m \in 1..reviews[r].posted
  /\ reviews' = [reviews EXCEPT ![r].open = @ \ {m}]
  /\ UNCHANGED <<revisions, publications, deployments, call, errors>>

RootAuthor(r) == At(reviews[r].artifact, reviews[r].manifest[reviews[r].artifact]).author
\* Mutant: open discussion does not stop an approval.
ApprovableDespiteComments(r) ==
  At(reviews[r].artifact, reviews[r].manifest[reviews[r].artifact]).source \in Valid
Approvable(r) ==
  /\ At(reviews[r].artifact, reviews[r].manifest[reviews[r].artifact]).source \in Valid
  /\ reviews[r].open = {}

DecideReview(r, p, outcome) ==
  /\ Open(r)
  /\ p \in reviews[r].reviewers
  /\ p # reviews[r].by /\ p # RootAuthor(r)
  /\ outcome = "APPROVED" => Approvable(r)
  /\ reviews' = [reviews EXCEPT ![r].status = outcome, ![r].decidedBy = p]
  /\ UNCHANGED <<revisions, publications, deployments, call, errors>>

Cancellable(r) == Open(r)
CancelReview(r, p) ==
  /\ p = reviews[r].by \/ p \in Admins
  /\ Cancellable(r)
  /\ reviews' = [reviews EXCEPT ![r].status = "CANCELLED"]
  /\ UNCHANGED <<revisions, publications, deployments, call, errors>>

-----------------------------------------------------------------------------
(* Publication and deployment. *)

\* The snapshot of the statement that locks the review and joins its decision.
BeginPublish(c, r) ==
  /\ call[c].stage = "idle"
  /\ call' = [call EXCEPT ![c] = [Idle EXCEPT !.stage = "publishing", !.review = r,
                                              !.decider = reviews[r].decidedBy]]
  /\ UNCHANGED <<revisions, reviews, publications, deployments, errors>>

Published(r) == \E i \in DOMAIN publications : publications[i].review = r

ManifestValid(r) ==
  \A a \in Artifacts : reviews[r].manifest[a] # 0 => At(a, reviews[r].manifest[a]).source \in Valid
\* The status is that of the locked row, the decision that of the snapshot.
Eligible(k) ==
  /\ reviews[k.review].status = "APPROVED"
  /\ k.decider # Null
  /\ ManifestValid(k.review)

\* A review that has a publication answers with it.
LockReview(c) ==
  LET k == call[c] IN
  /\ k.stage = "publishing"
  /\ ReviewUnlocked(k.review)
  /\ IF Published(k.review) \/ ~Eligible(k)
       THEN End(c)
       ELSE call' = [call EXCEPT ![c].stage = "locking"]
  /\ UNCHANGED <<revisions, reviews, publications, deployments, errors>>

\* Mutant: only the root is locked, not what the manifest depends on.
RootOnly(r) == {reviews[r].artifact}
Subjects(r) == {a \in Artifacts : reviews[r].manifest[a] # 0}
NextLock(k) == Min(Subjects(k.review) \ k.held)

\* SELECT id FROM artifacts ... ORDER BY id FOR UPDATE, one row at a time.
LockArtifact(c) ==
  LET k == call[c] IN
  /\ k.stage = "locking"
  /\ Subjects(k.review) \ k.held # {}
  /\ Unlocked(NextLock(k), c)
  /\ call' = [call EXCEPT ![c].held = @ \cup {NextLock(k)}]
  /\ UNCHANGED <<revisions, reviews, publications, deployments, errors>>

VersionsOf(a) == {publications[i].version[a] : i \in DOMAIN publications} \ {0}

NumberVersions(c) ==
  LET k == call[c] IN
  /\ k.stage = "locking"
  /\ Subjects(k.review) \subseteq k.held
  /\ call' = [call EXCEPT ![c].stage = "inserting", ![c].version =
       [a \in Artifacts |-> IF reviews[k.review].manifest[a] = 0 THEN 0
                            ELSE Max(VersionsOf(a) \cup {0}) + 1]]
  /\ UNCHANGED <<revisions, reviews, publications, deployments, errors>>

CreatePublication(c) ==
  LET k == call[c] IN
  /\ k.stage = "inserting"
  /\ publications' = Append(publications,
       [review |-> k.review, manifest |-> reviews[k.review].manifest,
        approvedBy |-> k.decider, version |-> k.version])
  /\ End(c)
  /\ UNCHANGED <<revisions, reviews, deployments, errors>>

DeployPublication(i) ==
  /\ Len(deployments) < MaxDeployments
  /\ deployments' = Append(deployments, i)
  /\ UNCHANGED <<revisions, reviews, publications, call, errors>>

\* The database ends one of two transactions that wait for each other.
WaitsFor(c) ==
  CASE call[c].stage = "pinning" -> Referenced(call[c])
    [] call[c].stage = "locking" /\ Subjects(call[c].review) \ call[c].held # {} -> {NextLock(call[c])}
    [] OTHER -> {}
DeadlockAbort(c) ==
  /\ \E d \in Calls \ {c} : WaitsFor(c) \cap Held(d) # {} /\ WaitsFor(d) \cap Held(c) # {}
  /\ End(c)
  /\ errors' = errors \cup {"deadlock"}
  /\ UNCHANGED <<revisions, reviews, publications, deployments>>

Next ==
  \/ \E e \in Edits : SaveRevision(e)
  \/ \E c \in Calls :
       \/ \E q \in Requests : BeginReview(c, q)
       \/ LockRoot(c)
       \/ CreateReview(c)
       \/ \E r \in DOMAIN reviews : BeginPublish(c, r)
       \/ LockReview(c)
       \/ LockArtifact(c)
       \/ NumberVersions(c)
       \/ CreatePublication(c)
       \/ DeadlockAbort(c)
  \/ \E r \in DOMAIN reviews :
       \/ AddComment(r)
       \/ \E m \in 1..MaxComments : ResolveComment(r, m)
       \/ \E p \in Reviewers \cup Admins, outcome \in {"APPROVED", "CHANGES_REQUESTED"} :
            DecideReview(r, p, outcome)
       \/ \E p \in People : CancelReview(r, p)
  \/ \E i \in DOMAIN publications : DeployPublication(i)

Spec == Init /\ [][Next]_vars

-----------------------------------------------------------------------------
(* What governance promises. *)

\* An approval is by an assigned person who neither asked for the review nor
\* wrote the reviewed revision, of a valid manifest whose references fit, with
\* no discussion left open, however comments, decision and cancellation race
\* (decideReview, addReviewComment).
ApprovalIsIndependent ==
  \A r \in DOMAIN reviews : reviews[r].status = "APPROVED" =>
    /\ reviews[r].decidedBy \in reviews[r].reviewers \ {reviews[r].by, RootAuthor(r)}
    /\ reviews[r].open = {}
    /\ ManifestValid(r)

\* What is published, and so what is deployed, is the manifest of an approved
\* review and names who approved it, although the statement that locks the
\* review reads the decision from an older snapshot (createPublication).
PublishedWasApproved ==
  \A i \in DOMAIN publications :
    LET pub == publications[i] IN
    /\ reviews[pub.review].status = "APPROVED"
    /\ pub.approvedBy = reviews[pub.review].decidedBy
    /\ pub.approvedBy # Null
    /\ pub.manifest = reviews[pub.review].manifest

\* The publish command is idempotent by review (createPublication).
OnePublicationPerReview ==
  \A i, j \in DOMAIN publications :
    publications[i].review = publications[j].review => i = j

\* The versions of an artifact are numbered 1, 2, ... without gap or
\* repetition, also when publications that share a dependency race.
VersionsAreNumbered ==
  \A a \in Artifacts :
    LET numbered == {i \in DOMAIN publications : publications[i].version[a] # 0} IN
    {publications[i].version[a] : i \in numbered} = 1..Cardinality(numbered)

\* A publication is what was approved, once, and numbers its versions.
PublicationsAreEarned == PublishedWasApproved /\ OnePublicationPerReview /\ VersionsAreNumbered

\* No source of an artifact is reviewed twice: a verdict cannot be avoided by
\* saving the rejected source again as a new revision.
SourceReviewedOnce ==
  \A r, s \in DOMAIN reviews :
    LET Source(q) == At(reviews[q].artifact, reviews[q].manifest[reviews[q].artifact]).source IN
    (reviews[r].artifact = reviews[s].artifact /\ Source(r) = Source(s)) => r = s

\* A review pins, for its root and for everything the root references, the
\* draft heads at the moment it is created (createReview).
PinsTheHeads ==
  [][\A r \in DOMAIN reviews' \ DOMAIN reviews : \A a \in Artifacts :
       reviews'[r].manifest[a] \in {0, Head_(a)}]_vars

-----------------------------------------------------------------------------
(* Statements of the repository that the code does not keep. *)

\* "The default policy requires one approver other than any author represented
\* in the reviewed manifest."
ApproverWroteNoneOfIt ==
  \A r \in DOMAIN reviews : reviews[r].status = "APPROVED" =>
    \A a \in Artifacts : reviews[r].manifest[a] # 0 =>
      At(a, reviews[r].manifest[a]).author # reviews[r].decidedBy

\* "Every save creates an immutable draft revision and advances the artifact's
\* editable draft-head pointer."
EverySaveIsKept == "duplicate source" \notin errors

=============================================================================
