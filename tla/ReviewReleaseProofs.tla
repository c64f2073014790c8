------------------------- MODULE ReviewReleaseProofs -------------------------
(***************************************************************************)
(* What is published was approved by somebody independent, for any number  *)
(* of artifacts, people, reviews and concurrent requests.                  *)
(***************************************************************************)
EXTENDS ReviewRelease, SequenceTheorems, FiniteSetTheorems, WellFoundedInduction, TLAPS

\* No revision of an artifact repeats the source of an earlier one.
RevisionsOK ==
  /\ revisions \in [Artifacts -> Seq(Revision)]
  /\ \A a \in Artifacts : Head_(a) \in 1..MaxRevisions
  /\ \A a \in Artifacts : \A m, n \in 1..Head_(a) : At(a, m).source = At(a, n).source => m = n

\* A review pins saved revisions, valid ones but for its root, and a decision is
\* not made as long as the review is open.
ReviewOK(r) ==
  LET x == reviews[r] IN
  /\ x.artifact \in Artifacts /\ x.manifest[x.artifact] # 0
  /\ \A a \in Artifacts : x.manifest[a] <= Head_(a)
  /\ \A a \in Artifacts \ {x.artifact} : x.manifest[a] # 0 => At(a, x.manifest[a]).source \in Valid
  /\ x.status = "OPEN" => x.decidedBy = Null
  /\ x.status = "APPROVED" => /\ x.decidedBy \in x.reviewers \ {x.by, RootAuthor(r)}
                              /\ x.open = {}
                              /\ ManifestValid(r)

\* No revision is the root of two reviews.
ReviewsOK ==
  /\ reviews \in Seq(Review)
  /\ \A r \in DOMAIN reviews : ReviewOK(r)
  /\ \A r, s \in DOMAIN reviews :
       /\ reviews[r].artifact = reviews[s].artifact
       /\ reviews[r].manifest[reviews[r].artifact] = reviews[s].manifest[reviews[s].artifact]
       => r = s

\* The publications that gave an artifact a version.
Numbered(a) == {i \in DOMAIN publications : publications[i].version[a] # 0}

PublicationsOK ==
  /\ publications \in Seq(Publication)
  /\ \A i \in DOMAIN publications : publications[i].review \in DOMAIN reviews
  /\ PublicationsAreEarned

\* A review request saw revisions that exist, and once it holds its root what it
\* checked stays true.
RequestOK(k) ==
  k.stage \in {"requesting", "pinning"} =>
    /\ k.by \in People /\ k.artifact \in Artifacts /\ k.revision \in 1..Head_(k.artifact)
    /\ \A a \in Artifacts : k.seen[a] \in 1..Head_(a)
    /\ k.stage = "pinning" => k.seen[k.artifact] = Head_(k.artifact) /\ MayReview(k)

\* A publication that holds its review publishes what was approved; one that
\* holds its artifacts has the next version of each.
PublishOK(k) ==
  k.stage \in {"publishing", "locking", "inserting"} =>
    /\ k.review \in DOMAIN reviews
    /\ k.decider # Null => k.decider = reviews[k.review].decidedBy
    /\ k.stage = "publishing" => k.held = {}
    /\ k.stage \in {"locking", "inserting"} => Eligible(k) /\ ~Published(k.review)
    /\ k.stage = "inserting" =>
         /\ Subjects(k.review) \subseteq k.held
         /\ \A a \in Artifacts : k.version[a] = IF reviews[k.review].manifest[a] = 0
                                                 THEN 0 ELSE Cardinality(Numbered(a)) + 1

Publishing(c) == call[c].stage \in {"locking", "inserting"}

\* Row locks exclude each other.
LocksExclude ==
  \A c, d \in Calls : c # d =>
    /\ Held(c) \cap Held(d) = {}
    /\ Publishing(c) /\ Publishing(d) => call[c].review # call[d].review

CallsOK ==
  /\ call \in [Calls -> Call]
  /\ \A c \in Calls : RequestOK(call[c]) /\ PublishOK(call[c])
  /\ LocksExclude

\* Requests under way leave room for the review they create.
Requesting == {c \in Calls : call[c].stage \in {"requesting", "pinning"}}
RoomForReviews == Len(reviews) + Cardinality(Requesting) <= MaxReviews

IInv ==
  /\ RevisionsOK /\ ReviewsOK /\ PublicationsOK /\ CallsOK /\ RoomForReviews
  /\ deployments \in Seq(1..Len(publications))
  /\ errors \subseteq Error

-----------------------------------------------------------------------------
(* Rows of the tables.                                                      *)

LEMMA Numbers ==
  /\ MaxRevisions \in Nat /\ MaxRevisions >= 1
  /\ MaxReviews \in Nat /\ MaxComments \in Nat /\ MaxDeployments \in Nat
  /\ Null \notin People /\ Null \notin Artifacts
  /\ Authors \subseteq People /\ Reviewers \subseteq People /\ Admins \subseteq People
  /\ Artifacts \subseteq Nat
  /\ Nothing \in Manifest /\ Nothing \in [Artifacts -> Nat]
BY BoundsAssumption, PeopleAssumption, ArtifactsAssumption DEF Nothing, Manifest

LEMMA Rows ==
  ASSUME RevisionsOK, NEW a \in Artifacts
  PROVE  /\ Head_(a) \in Nat /\ Head_(a) >= 1 /\ Head_(a) <= MaxRevisions
         /\ \A n \in 1..Head_(a) : At(a, n) \in Revision /\ At(a, n).author \in People
<1>1. revisions[a] \in Seq(Revision) /\ Head_(a) \in 1..MaxRevisions
  BY DEF RevisionsOK
<1>2. \A n \in 1..Head_(a) : At(a, n) \in Revision
  BY <1>1, ElementOfSeq DEF Head_, At
<1>3. \A n \in 1..Head_(a) : At(a, n).author \in People
  BY <1>2 DEF Revision
<1> QED
  BY <1>1, <1>2, <1>3, Numbers

\* Revisions are added, never changed.
Grown ==
  \A a \in Artifacts :
    /\ Head_(a)' \in Nat /\ Head_(a) <= Head_(a)'
    /\ \A n \in 1..Head_(a) : At(a, n)' = At(a, n)

LEMMA NoneSaved ==
  ASSUME RevisionsOK, UNCHANGED revisions
  PROVE  RevisionsOK' /\ Grown
<1>1. \A a \in Artifacts : Head_(a) \in Nat
  BY Rows
<1>2. Grown
  BY <1>1 DEF Grown, Head_, At
<1>3. RevisionsOK'
  BY DEF RevisionsOK, Head_, At
<1> QED
  BY <1>2, <1>3

LEMMA OneSaved ==
  ASSUME RevisionsOK, NEW a \in Artifacts, NEW row \in Revision, Head_(a) < MaxRevisions,
         ~Recorded(a, row.source), revisions' = [revisions EXCEPT ![a] = Append(@, row)]
  PROVE  /\ RevisionsOK' /\ Grown
         /\ \A b \in Artifacts \ {a} : revisions'[b] = revisions[b]
<1> DEFINE s == revisions[a]
           t == Append(s, row)
<1>1. s \in Seq(Revision) /\ Len(s) \in Nat /\ Len(s) >= 1
  BY Rows DEF RevisionsOK, Head_
<1>2. /\ t \in Seq(Revision) /\ Len(t) = Len(s) + 1 /\ t[Len(s) + 1] = row
      /\ \A n \in 1..Len(s) : t[n] = s[n]
  BY <1>1, AppendProperties
<1>3. revisions'[a] = t /\ \A b \in Artifacts \ {a} : revisions'[b] = revisions[b]
  BY DEF RevisionsOK
<1>4. revisions' \in [Artifacts -> Seq(Revision)]
  BY <1>2 DEF RevisionsOK
<1> HIDE DEF t
<1>5. \A b \in Artifacts : Head_(b)' \in 1..MaxRevisions
  BY <1>1, <1>2, <1>3, Numbers DEF RevisionsOK, Head_
<1>6. \A b \in Artifacts : Head_(b) \in Nat
  BY Rows
<1>7. Grown
  <2>1. ASSUME NEW b \in Artifacts, b # a
        PROVE  Head_(b)' \in Nat /\ Head_(b) <= Head_(b)' /\ \A n \in 1..Head_(b) : At(b, n)' = At(b, n)
    BY <2>1, <1>3, <1>6 DEF Head_, At
  <2>2. Head_(a)' \in Nat /\ Head_(a) <= Head_(a)' /\ \A n \in 1..Head_(a) : At(a, n)' = At(a, n)
    BY <1>1, <1>2, <1>3 DEF Head_, At
  <2> QED
    BY <2>1, <2>2 DEF Grown
<1>8. ASSUME NEW b \in Artifacts, NEW m \in 1..Head_(b)', NEW n \in 1..Head_(b)', (At(b, m).source = At(b, n).source)'
      PROVE  m = n
  <2>1. CASE b # a
    BY <2>1, <1>3, <1>8 DEF RevisionsOK, Head_, At
  <2>2. CASE b = a
    <3>1. m \in 1..Len(s) + 1 /\ n \in 1..Len(s) + 1 /\ t[m].source = t[n].source
      BY <2>2, <1>2, <1>3, <1>8 DEF Head_, At
    <3>2. \A i \in 1..Len(s) : t[i].source # row.source
      BY <1>2 DEF Recorded, Head_, At
    <3>3. CASE m \in 1..Len(s) /\ n \in 1..Len(s)
      BY <3>1, <3>3, <1>2 DEF RevisionsOK, Head_, At
    <3> QED
      BY <3>1, <3>2, <3>3, <1>1, <1>2
  <2> QED
    BY <2>1, <2>2
<1> QED
  BY <1>3, <1>4, <1>5, <1>7, <1>8 DEF RevisionsOK

-----------------------------------------------------------------------------
(* What other rows say of a review, and a review of other rows.             *)

LEMMA ReviewRow ==
  ASSUME RevisionsOK, ReviewsOK, NEW r \in DOMAIN reviews
  PROVE  /\ reviews[r] \in Review /\ r \in 1..Len(reviews) /\ Len(reviews) \in Nat
         /\ reviews[r].artifact \in Artifacts
         /\ reviews[r].manifest \in Manifest
         /\ \A a \in Artifacts : /\ reviews[r].manifest[a] \in Nat
                                 /\ reviews[r].manifest[a] # 0 => reviews[r].manifest[a] \in 1..Head_(a)
         /\ reviews[r].manifest[reviews[r].artifact] # 0
<1>1. reviews \in Seq(Review) /\ ReviewOK(r)
  BY DEF ReviewsOK
<1>2. reviews[r] \in Review /\ r \in 1..Len(reviews) /\ Len(reviews) \in Nat
  BY <1>1, ElementOfSeq, LenProperties
<1>3. reviews[r].manifest \in Manifest
  BY <1>2 DEF Review
<1>4. \A a \in Artifacts : reviews[r].manifest[a] \in Nat
  BY <1>3, Numbers DEF Manifest
<1>5. \A a \in Artifacts : Head_(a) \in Nat
  BY Rows
<1>6. /\ reviews[r].artifact \in Artifacts /\ reviews[r].manifest[reviews[r].artifact] # 0
      /\ \A a \in Artifacts : reviews[r].manifest[a] <= Head_(a)
  BY <1>1 DEF ReviewOK
<1> QED
  BY <1>2, <1>3, <1>4, <1>5, <1>6

\* What a review pinned stays what it pinned.
LEMMA PinnedStays ==
  ASSUME RevisionsOK, ReviewsOK, Grown, NEW r \in DOMAIN reviews, reviews'[r] = reviews[r]
  PROVE  /\ RootAuthor(r)' = RootAuthor(r)
         /\ ManifestValid(r)' = ManifestValid(r)
         /\ ReviewOK(r)'
<1>1. /\ reviews[r].artifact \in Artifacts /\ reviews[r].manifest[reviews[r].artifact] # 0
      /\ \A a \in Artifacts : /\ reviews[r].manifest[a] \in Nat
                              /\ reviews[r].manifest[a] # 0 => reviews[r].manifest[a] \in 1..Head_(a)
  BY ReviewRow
<1>2. \A a \in Artifacts : reviews[r].manifest[a] # 0 =>
        At(a, reviews[r].manifest[a])' = At(a, reviews[r].manifest[a])
  <2>1. ASSUME NEW a \in Artifacts, reviews[r].manifest[a] # 0
        PROVE  At(a, reviews[r].manifest[a])' = At(a, reviews[r].manifest[a])
    <3>1. PICK n \in 1..Head_(a) : n = reviews[r].manifest[a]
      BY <1>1, <2>1
    <3>2. revisions'[a][n] = revisions[a][n]
      BY <3>1 DEF Grown, At
    <3> QED
      BY <3>1, <3>2 DEF At
  <2> QED
    BY <2>1
<1>3. RootAuthor(r)' = RootAuthor(r)
  BY <1>1, <1>2 DEF RootAuthor, At
<1>4. ManifestValid(r)' = ManifestValid(r)
  BY <1>2 DEF ManifestValid, At
<1>5. \A a \in Artifacts : Head_(a) \in Nat /\ Head_(a)' \in Nat /\ Head_(a) <= Head_(a)'
  BY Rows DEF Grown
<1>6. \A a \in Artifacts : (reviews[r].manifest[a] <= Head_(a))'
  BY <1>1, <1>5 DEF ReviewsOK, ReviewOK
<1>7. \A a \in Artifacts \ {reviews[r].artifact} :
        reviews[r].manifest[a] # 0 => (At(a, reviews[r].manifest[a]).source \in Valid)'
  BY <1>2 DEF ReviewsOK, ReviewOK, At
<1>8. ReviewOK(r)
  BY DEF ReviewsOK
<1>9. ReviewOK(r)'
  BY <1>1, <1>3, <1>4, <1>6, <1>7, <1>8 DEF ReviewOK
<1> QED
  BY <1>3, <1>4, <1>9

LEMMA NoneReviewed ==
  ASSUME RevisionsOK, ReviewsOK, Grown, UNCHANGED reviews
  PROVE  ReviewsOK'
<1>1. \A r \in DOMAIN reviews : ReviewOK(r)'
  BY PinnedStays
<1> QED
  BY <1>1 DEF ReviewsOK

\* Publications stand as long as the reviews they publish do.
LEMMA PublicationsStand ==
  ASSUME PublicationsOK, UNCHANGED publications,
         \A r \in DOMAIN reviews : r \in DOMAIN reviews' /\
           (reviews[r].status = "APPROVED" => /\ reviews'[r].status = "APPROVED"
                                              /\ reviews'[r].decidedBy = reviews[r].decidedBy
                                              /\ reviews'[r].manifest = reviews[r].manifest)
  PROVE  PublicationsOK'
<1>1. PublishedWasApproved'
  <2> SUFFICES ASSUME NEW i \in DOMAIN publications
               PROVE  /\ reviews'[publications[i].review].status = "APPROVED"
                      /\ publications[i].approvedBy = reviews'[publications[i].review].decidedBy
                      /\ publications[i].approvedBy # Null
                      /\ publications[i].manifest = reviews'[publications[i].review].manifest
    BY DEF PublishedWasApproved
  <2>1. PICK r \in DOMAIN reviews : r = publications[i].review
    BY DEF PublicationsOK
  <2>2. /\ reviews[r].status = "APPROVED" /\ publications[i].approvedBy = reviews[r].decidedBy
        /\ publications[i].approvedBy # Null /\ publications[i].manifest = reviews[r].manifest
    BY <2>1 DEF PublicationsOK, PublicationsAreEarned, PublishedWasApproved
  <2> QED
    BY <2>1, <2>2
<1>2. publications' = publications /\ OnePublicationPerReview /\ VersionsAreNumbered
  BY DEF PublicationsOK, PublicationsAreEarned
<1>3. OnePublicationPerReview'
  BY <1>2 DEF OnePublicationPerReview
<1>4. \A a \in Artifacts : {publications[i].version[a] : i \in Numbered(a)} = 1..Cardinality(Numbered(a))
  BY <1>2 DEF VersionsAreNumbered, Numbered
<1>5. VersionsAreNumbered'
  BY <1>2, <1>4 DEF VersionsAreNumbered, Numbered
<1> QED
  BY <1>1, <1>3, <1>5 DEF PublicationsOK, PublicationsAreEarned

\* A publication under way keeps what it has, as long as its review stands and
\* nothing is published.
LEMMA PublishStays ==
  ASSUME RevisionsOK, ReviewsOK, Grown, UNCHANGED publications, NEW k \in Call, PublishOK(k),
         k.stage \in {"publishing", "locking", "inserting"} =>
           k.review \in DOMAIN reviews' /\ reviews'[k.review] = reviews[k.review]
  PROVE  PublishOK(k)'
<1> SUFFICES ASSUME k.stage \in {"publishing", "locking", "inserting"} PROVE PublishOK(k)'
  BY DEF PublishOK
<1>1. k.review \in DOMAIN reviews /\ k.review \in DOMAIN reviews' /\ reviews'[k.review] = reviews[k.review]
  BY DEF PublishOK
<1>2. ManifestValid(k.review)' = ManifestValid(k.review)
  BY <1>1, PinnedStays
<1>3. Eligible(k)' = Eligible(k)
  BY <1>1, <1>2 DEF Eligible
<1>4. Published(k.review)' = Published(k.review)
  BY DEF Published
<1>5. Subjects(k.review)' = Subjects(k.review)
  BY <1>1 DEF Subjects
<1>6. \A a \in Artifacts : Numbered(a)' = Numbered(a)
  BY DEF Numbered
<1> QED
  BY <1>1, <1>3, <1>4, <1>5, <1>6 DEF PublishOK

\* So does a request that saw what is there, and one that holds its root.
LEMMA RequestStays ==
  ASSUME RevisionsOK, Grown, NEW k \in Call, RequestOK(k),
         k.stage = "pinning" => /\ Head_(k.artifact)' = Head_(k.artifact)
                                /\ MayReview(k)'
  PROVE  RequestOK(k)'
<1> SUFFICES ASSUME k.stage \in {"requesting", "pinning"} PROVE RequestOK(k)'
  BY DEF RequestOK
<1>1. \A a \in Artifacts : Head_(a) \in Nat /\ Head_(a)' \in Nat /\ Head_(a) <= Head_(a)'
  BY Rows DEF Grown
<1>2. /\ k.by \in People /\ k.artifact \in Artifacts /\ k.revision \in 1..Head_(k.artifact)
      /\ \A a \in Artifacts : k.seen[a] \in 1..Head_(a)
      /\ k.stage = "pinning" => k.seen[k.artifact] = Head_(k.artifact)
  BY DEF RequestOK
<1>3. (k.revision \in 1..Head_(k.artifact))' /\ \A a \in Artifacts : (k.seen[a] \in 1..Head_(a))'
  BY <1>1, <1>2
<1>4. k.stage = "pinning" => (k.seen[k.artifact] = Head_(k.artifact))'
  BY <1>2
<1> QED
  BY <1>2, <1>3, <1>4 DEF RequestOK

-----------------------------------------------------------------------------
(* Transactions under way.                                                  *)

HeldBy(k) ==
  CASE k.stage = "pinning" -> {k.artifact}
    [] k.stage \in {"locking", "inserting"} -> k.held
    [] OTHER -> {}

\* Call c becomes k, which fits the tables and locks nothing that others hold.
MovesTo(c, k) ==
  /\ k \in Call
  /\ call' = [call EXCEPT ![c] = k]
  /\ RequestOK(k) /\ PublishOK(k)
  /\ \A d \in Calls \ {c} :
       /\ HeldBy(k) \cap Held(d) = {}
       /\ k.stage \in {"locking", "inserting"} /\ Publishing(d) => k.review # call[d].review

LEMMA CallRow ==
  ASSUME CallsOK, NEW c \in Calls
  PROVE  call[c] \in Call /\ RequestOK(call[c]) /\ PublishOK(call[c]) /\ Held(c) = HeldBy(call[c])
BY DEF CallsOK, Held, HeldBy

LEMMA LocksMove ==
  ASSUME CallsOK, NEW c \in Calls, NEW k, MovesTo(c, k)
  PROVE  LocksExclude'
<1>1. call'[c] = k /\ \A d \in Calls \ {c} : call'[d] = call[d]
  BY DEF CallsOK, MovesTo
<1>2. Held(c)' = HeldBy(k) /\ (Publishing(c)' <=> k.stage \in {"locking", "inserting"})
  BY <1>1 DEF Held, HeldBy, Publishing
<1>3. \A d \in Calls \ {c} : Held(d)' = Held(d) /\ (Publishing(d)' <=> Publishing(d))
  BY <1>1 DEF Held, Publishing
<1>4. \A d \in Calls \ {c} : /\ HeldBy(k) \cap Held(d) = {}
                             /\ k.stage \in {"locking", "inserting"} /\ Publishing(d) => k.review # call[d].review
  BY DEF MovesTo
<1>5. ASSUME NEW d \in Calls, NEW e \in Calls, d # e
      PROVE  (Held(d) \cap Held(e) = {})' /\ (Publishing(d) /\ Publishing(e) => call[d].review # call[e].review)'
  <2>1. CASE d = c
    BY <1>1, <1>2, <1>3, <1>4, <1>5, <2>1
  <2>2. CASE e = c
    BY <1>1, <1>2, <1>3, <1>4, <1>5, <2>2
  <2>3. CASE d # c /\ e # c
    <3>1. Held(d) \cap Held(e) = {} /\ (Publishing(d) /\ Publishing(e) => call[d].review # call[e].review)
      BY <1>5 DEF CallsOK, LocksExclude
    <3> QED
      BY <1>1, <1>3, <2>3, <3>1
  <2> QED
    BY <2>1, <2>2, <2>3
<1> QED
  BY <1>5 DEF LocksExclude

Tables == RevisionsOK /\ ReviewsOK /\ PublicationsOK /\ deployments \in Seq(1..Len(publications))

LEMMA TablesStand ==
  ASSUME Tables, UNCHANGED <<revisions, reviews, publications, deployments>>
  PROVE  Tables' /\ Grown
<1>1. RevisionsOK' /\ Grown
  BY NoneSaved DEF Tables
<1>2. ReviewsOK'
  BY <1>1, NoneReviewed DEF Tables
<1>3. PublicationsOK'
  BY PublicationsStand DEF Tables
<1> QED
  BY <1>1, <1>2, <1>3 DEF Tables

\* Most steps of a call touch no table.
LEMMA CallMoves ==
  ASSUME Tables, CallsOK, UNCHANGED <<revisions, reviews, publications, deployments>>,
         NEW c \in Calls, NEW k, MovesTo(c, k)
  PROVE  CallsOK'
<1>1. call'[c] = k /\ k \in Call /\ RequestOK(k) /\ PublishOK(k)
  BY DEF CallsOK, MovesTo
<1>2. \A d \in Calls \ {c} : call'[d] = call[d] /\ call[d] \in Call /\ RequestOK(call[d]) /\ PublishOK(call[d])
  BY DEF CallsOK, MovesTo
<1>3. \A j \in Call : RequestOK(j) => RequestOK(j)'
  BY DEF RequestOK, MayReview, Head_, At
<1>4. Grown /\ RevisionsOK /\ ReviewsOK
  BY TablesStand DEF Tables
<1>5. \A j \in Call : PublishOK(j) => PublishOK(j)'
  <2> SUFFICES ASSUME NEW j \in Call, PublishOK(j) PROVE PublishOK(j)'
    OBVIOUS
  <2>1. j.stage \in {"publishing", "locking", "inserting"} => j.review \in DOMAIN reviews
    BY DEF PublishOK
  <2> QED
    BY <1>4, <2>1, PublishStays
<1>6. \A d \in Calls : call'[d] \in Call /\ (RequestOK(call[d]) /\ PublishOK(call[d]))'
  <2>1. ASSUME NEW d \in Calls, d # c PROVE call'[d] \in Call /\ (RequestOK(call[d]) /\ PublishOK(call[d]))'
    <3>1. PICK j \in Call : j = call[d] /\ j = call'[d] /\ RequestOK(j) /\ PublishOK(j)
      BY <1>2, <2>1
    <3>2. RequestOK(j)' /\ PublishOK(j)'
      BY <1>3, <1>5, <3>1
    <3> QED
      BY <3>1, <3>2 DEF RequestOK, PublishOK, MayReview, Eligible
  <2>2. call'[c] \in Call /\ (RequestOK(call[c]) /\ PublishOK(call[c]))'
    <3>1. RequestOK(k)' /\ PublishOK(k)'
      BY <1>1, <1>3, <1>5
    <3> QED
      BY <1>1, <3>1 DEF RequestOK, PublishOK, MayReview, Eligible
  <2> QED
    BY <2>1, <2>2
<1>7. call' \in [Calls -> Call]
  BY <1>1 DEF CallsOK, MovesTo
<1>8. LocksExclude'
  BY LocksMove
<1> QED
  BY <1>6, <1>7, <1>8 DEF CallsOK

LEMMA RequestingIsFinite == IsFiniteSet(Requesting) /\ Cardinality(Requesting) \in Nat
<1>1. Requesting \subseteq Calls
  BY DEF Requesting
<1> QED
  BY <1>1, CallsAssumption, FS_Subset, FS_CardinalityType

\* Room stays when no request begins and no review is created.
LEMMA RoomStays ==
  ASSUME ReviewsOK, RoomForReviews, UNCHANGED reviews, Requesting' \subseteq Requesting
  PROVE  RoomForReviews'
<1>1. IsFiniteSet(Requesting) /\ Cardinality(Requesting) \in Nat
  BY RequestingIsFinite
<1>2. Cardinality(Requesting') \in Nat /\ Cardinality(Requesting') <= Cardinality(Requesting)
  BY <1>1, FS_Subset, FS_CardinalityType
<1>3. Cardinality(Requesting)' = Cardinality(Requesting')
  OBVIOUS
<1>4. Len(reviews) \in Nat /\ MaxReviews \in Nat
  BY Numbers, LenProperties DEF ReviewsOK
<1> QED
  BY <1>1, <1>2, <1>3, <1>4 DEF RoomForReviews

LEMMA RoomWhenMoved ==
  ASSUME ReviewsOK, CallsOK, RoomForReviews, UNCHANGED reviews, NEW c \in Calls, NEW k, MovesTo(c, k),
         k.stage \in {"requesting", "pinning"} => call[c].stage \in {"requesting", "pinning"}
  PROVE  RoomForReviews'
<1>1. call'[c] = k /\ \A d \in Calls \ {c} : call'[d] = call[d]
  BY DEF CallsOK, MovesTo
<1>2. Requesting' \subseteq Requesting
  BY <1>1 DEF Requesting
<1> QED
  BY <1>2, RoomStays

LEMMA IdleIsCall ==
  /\ Idle \in Call /\ Idle.stage = "idle" /\ RequestOK(Idle) /\ PublishOK(Idle) /\ HeldBy(Idle) = {}
<1>1. Idle \in Call
  BY Numbers DEF Idle, Call, Nothing, Manifest
<1>2. Idle.stage = "idle"
  BY DEF Idle
<1> QED
  BY <1>1, <1>2 DEF RequestOK, PublishOK, HeldBy

\* A call ends: its locks are released.
LEMMA Ends ==
  ASSUME CallsOK, NEW c \in Calls, End(c)
  PROVE  MovesTo(c, Idle)
BY IdleIsCall DEF MovesTo, End

Parts == Tables /\ CallsOK /\ RoomForReviews /\ errors \subseteq Error

LEMMA PartsOfIInv == IInv <=> Parts
BY DEF IInv, Parts, Tables

LEMMA EndKeeps ==
  ASSUME Parts, NEW c \in Calls, End(c), UNCHANGED <<revisions, reviews, publications, deployments>>,
         errors' \subseteq Error
  PROVE  Parts'
<1>1. MovesTo(c, Idle)
  BY Ends DEF Parts
<1>2. Tables' /\ CallsOK'
  BY <1>1, TablesStand, CallMoves DEF Parts
<1>3. RoomForReviews'
  BY <1>1, IdleIsCall, RoomWhenMoved DEF Parts, Tables
<1> QED
  BY <1>2, <1>3 DEF Parts

LEMMA MoveKeeps ==
  ASSUME Parts, NEW c \in Calls, NEW k, MovesTo(c, k),
         k.stage \in {"requesting", "pinning"} => call[c].stage \in {"requesting", "pinning"},
         UNCHANGED <<revisions, reviews, publications, deployments, errors>>
  PROVE  Parts'
<1>1. Tables' /\ CallsOK'
  BY TablesStand, CallMoves DEF Parts
<1>2. RoomForReviews'
  BY RoomWhenMoved DEF Parts, Tables
<1> QED
  BY <1>1, <1>2 DEF Parts

-----------------------------------------------------------------------------
(* Steps of a call that change no table.                                    *)

LEMMA HeadsAreManifest ==
  ASSUME RevisionsOK
  PROVE  Heads \in Manifest /\ \A a \in Artifacts : Heads[a] = Head_(a) /\ Heads[a] \in 1..Head_(a)
<1>1. \A a \in Artifacts : Head_(a) \in 0..MaxRevisions /\ Head_(a) \in 1..Head_(a)
  BY Rows, Numbers
<1> QED
  BY <1>1 DEF Heads, Manifest

LEMMA BeginReviewKeeps ==
  ASSUME Parts, NEW c \in Calls, NEW q \in Requests, BeginReview(c, q)
  PROVE  Parts'
<1>1. q \in [by : Authors, artifact : Artifacts, revision : 1..MaxRevisions, reviewers : (SUBSET People) \ {{}}]
  BY InputsAssumption
<1>2. q.by \in People /\ q.artifact \in Artifacts /\ q.revision \in 1..MaxRevisions /\ q.reviewers \in SUBSET People
  BY <1>1, Numbers
<1>3. PICK k : k = [Idle EXCEPT !.stage = "requesting", !.by = q.by, !.artifact = q.artifact,
                      !.revision = q.revision, !.reviewers = q.reviewers, !.seen = Heads]
  OBVIOUS
<1>4. Heads \in Manifest /\ \A a \in Artifacts : Heads[a] \in 1..Head_(a)
  BY HeadsAreManifest DEF Parts, Tables
<1>5. /\ k.stage = "requesting" /\ k.by = q.by /\ k.artifact = q.artifact /\ k.revision = q.revision
      /\ k.seen = Heads
  BY <1>3 DEF Idle
<1>6. k \in Call
  <2>1. k = [stage |-> "requesting", by |-> q.by, artifact |-> q.artifact, revision |-> q.revision,
             reviewers |-> q.reviewers, seen |-> Heads, review |-> 0, decider |-> Null,
             held |-> {}, version |-> Nothing]
    BY <1>3 DEF Idle
  <2>2. q.revision \in 0..MaxRevisions /\ 0 \in 0..MaxReviews
    BY <1>2, Numbers
  <2>3. Nothing \in [Artifacts -> Nat]
    BY Numbers
  <2> QED
    BY <1>2, <1>4, <2>1, <2>2, <2>3 DEF Call
<1>7. call' = [call EXCEPT ![c] = k]
  BY <1>3 DEF BeginReview
<1>8. Head_(q.artifact) \in Nat /\ q.revision \in 1..Head_(q.artifact)
  BY <1>2, Rows DEF BeginReview, Parts, Tables
<1>9. RequestOK(k) /\ PublishOK(k) /\ HeldBy(k) = {}
  BY <1>2, <1>4, <1>5, <1>8 DEF RequestOK, PublishOK, HeldBy
<1>10. MovesTo(c, k)
  BY <1>5, <1>6, <1>7, <1>9 DEF MovesTo
<1>11. Tables' /\ CallsOK'
  BY <1>10, TablesStand, CallMoves DEF Parts, BeginReview
<1>12. Requesting' = Requesting \cup {c} /\ c \notin Requesting
  BY <1>5, <1>7 DEF Requesting, BeginReview, Parts, CallsOK
<1>13. IsFiniteSet(Requesting) /\ Cardinality(Requesting) \in Nat
  BY RequestingIsFinite
<1>14. Cardinality(Requesting)' = Cardinality(Requesting) + 1
  BY <1>12, <1>13, FS_AddElement
<1>15. Len(reviews) + Cardinality(Requesting) < MaxReviews
  BY DEF BeginReview, Requesting
<1>16. Len(reviews) \in Nat /\ MaxReviews \in Nat
  BY Numbers, LenProperties DEF Parts, Tables, ReviewsOK
<1>17. RoomForReviews'
  BY <1>13, <1>14, <1>15, <1>16 DEF RoomForReviews, BeginReview
<1> QED
  BY <1>11, <1>17 DEF Parts, BeginReview

LEMMA ErrorsAdded ==
  ASSUME errors \subseteq Error, NEW e \in Error
  PROVE  errors \cup {e} \subseteq Error
OBVIOUS

\* The root a request locks is the draft head, which nobody reviewed.
LEMMA LockRootKeeps ==
  ASSUME Parts, NEW c \in Calls, LockRoot(c)
  PROVE  Parts'
<1>1. PICK x : x = call[c]
  OBVIOUS
<1>2. x \in Call /\ x.stage = "requesting" /\ RequestOK(x) /\ Unlocked(x.artifact, c)
  BY <1>1 DEF Parts, CallsOK, LockRoot
<1>3. UNCHANGED <<revisions, reviews, publications, deployments>> /\ errors \subseteq Error
  BY DEF LockRoot, Parts
<1>4. \/ End(c) /\ errors' = errors \cup {"artifact not found"}
      \/ End(c) /\ UNCHANGED errors
      \/ /\ x.seen[x.artifact] = Head_(x.artifact) /\ MayReview(x)
         /\ call' = [call EXCEPT ![c].stage = "pinning", ![c].seen = Heads]
         /\ UNCHANGED errors
  BY <1>1 DEF LockRoot
<1>5. CASE End(c) /\ errors' = errors \cup {"artifact not found"}
  <2>1. "artifact not found" \in Error
    BY DEF Error
  <2> QED
    BY <1>3, <1>5, <2>1, EndKeeps
<1>6. CASE End(c) /\ UNCHANGED errors
  BY <1>3, <1>6, EndKeeps
<1>7. CASE /\ x.seen[x.artifact] = Head_(x.artifact) /\ MayReview(x)
           /\ call' = [call EXCEPT ![c].stage = "pinning", ![c].seen = Heads]
           /\ UNCHANGED errors
  <2>1. PICK k : k = [x EXCEPT !.stage = "pinning", !.seen = Heads]
    OBVIOUS
  <2>2. Heads \in Manifest /\ \A a \in Artifacts : Heads[a] = Head_(a) /\ Heads[a] \in 1..Head_(a)
    BY HeadsAreManifest DEF Parts, Tables
  <2>3. k \in Call
    BY <1>2, <2>1, <2>2 DEF Call
  <2>4. /\ k.stage = "pinning" /\ k.by = x.by /\ k.artifact = x.artifact /\ k.revision = x.revision
        /\ k.reviewers = x.reviewers /\ k.seen = Heads
    BY <1>2, <2>1 DEF Call
  <2>5. x.by \in People /\ x.artifact \in Artifacts /\ x.revision \in 1..Head_(x.artifact)
    BY <1>2 DEF RequestOK
  <2>6. MayReview(k)
    BY <1>7, <2>4 DEF MayReview
  <2>7. RequestOK(k) /\ PublishOK(k) /\ HeldBy(k) = {x.artifact}
    BY <2>2, <2>4, <2>5, <2>6 DEF RequestOK, PublishOK, HeldBy
  <2>8. call' = [call EXCEPT ![c] = k]
    BY <1>1, <1>7, <2>1 DEF Parts, CallsOK
  <2>9. MovesTo(c, k)
    BY <1>2, <2>3, <2>4, <2>7, <2>8 DEF MovesTo, Unlocked
  <2> QED
    BY <1>1, <1>2, <1>3, <1>7, <2>9, MoveKeeps
<1> QED
  BY <1>4, <1>5, <1>6, <1>7

\* A decision that the snapshot saw is the decision of the review.
LEMMA BeginPublishKeeps ==
  ASSUME Parts, NEW c \in Calls, NEW r \in DOMAIN reviews, BeginPublish(c, r)
  PROVE  Parts'
<1>1. PICK k : k = [Idle EXCEPT !.stage = "publishing", !.review = r, !.decider = reviews[r].decidedBy]
  OBVIOUS
<1>2. k = [stage |-> "publishing", by |-> Null, artifact |-> Null, revision |-> 0, reviewers |-> {},
           seen |-> Nothing, review |-> r, decider |-> reviews[r].decidedBy, held |-> {}, version |-> Nothing]
  BY <1>1 DEF Idle
<1>3. reviews[r] \in Review /\ r \in 1..Len(reviews) /\ Len(reviews) \in Nat
  BY ReviewRow DEF Parts, Tables
<1>4. reviews[r].decidedBy \in People \cup {Null}
  BY <1>3 DEF Review
<1>5. Len(reviews) <= MaxReviews
  <2>1. Cardinality(Requesting) \in Nat
    BY RequestingIsFinite
  <2> QED
    BY <1>3, <2>1, Numbers DEF Parts, RoomForReviews
<1>6. r \in 0..MaxReviews /\ 0 \in 0..MaxRevisions
  BY <1>3, <1>5, Numbers
<1>7. k \in Call
  BY <1>2, <1>4, <1>6, Numbers DEF Call
<1>8. k.stage = "publishing" /\ k.review = r /\ k.decider = reviews[r].decidedBy /\ k.held = {}
  BY <1>2
<1>9. RequestOK(k) /\ PublishOK(k) /\ HeldBy(k) = {}
  BY <1>8 DEF RequestOK, PublishOK, HeldBy
<1>10. call' = [call EXCEPT ![c] = k]
  BY <1>1 DEF BeginPublish
<1>11. MovesTo(c, k)
  BY <1>7, <1>8, <1>9, <1>10 DEF MovesTo
<1> QED
  BY <1>8, <1>11, MoveKeeps DEF BeginPublish

\* The review is approved when its row is locked, and nobody published it.
LEMMA LockReviewKeeps ==
  ASSUME Parts, NEW c \in Calls, LockReview(c)
  PROVE  Parts'
<1>1. PICK x : x = call[c]
  OBVIOUS
<1>2. x \in Call /\ x.stage = "publishing" /\ PublishOK(x) /\ ReviewUnlocked(x.review)
  BY <1>1 DEF Parts, CallsOK, LockReview
<1>3. UNCHANGED <<revisions, reviews, publications, deployments, errors>> /\ errors \subseteq Error
  BY DEF LockReview, Parts
<1>4. \/ End(c)
      \/ ~Published(x.review) /\ Eligible(x) /\ call' = [call EXCEPT ![c].stage = "locking"]
  BY <1>1 DEF LockReview
<1>5. CASE End(c)
  BY <1>3, <1>5, EndKeeps
<1>6. CASE ~Published(x.review) /\ Eligible(x) /\ call' = [call EXCEPT ![c].stage = "locking"]
  <2>1. PICK k : k = [x EXCEPT !.stage = "locking"]
    OBVIOUS
  <2>2. k \in Call
    BY <1>2, <2>1 DEF Call
  <2>3. k.stage = "locking" /\ k.review = x.review /\ k.decider = x.decider /\ k.held = x.held
    BY <1>2, <2>1 DEF Call
  <2>4. /\ x.review \in DOMAIN reviews /\ x.held = {}
        /\ x.decider # Null => x.decider = reviews[x.review].decidedBy
    BY <1>2 DEF PublishOK
  <2>5. Eligible(k)
    BY <1>6, <2>3 DEF Eligible
  <2>6. RequestOK(k) /\ PublishOK(k) /\ HeldBy(k) = {}
    BY <1>6, <2>3, <2>4, <2>5 DEF RequestOK, PublishOK, HeldBy
  <2>7. call' = [call EXCEPT ![c] = k]
    BY <1>1, <1>6, <2>1 DEF Parts, CallsOK
  <2>8. MovesTo(c, k)
    BY <1>2, <2>2, <2>3, <2>6, <2>7 DEF MovesTo, ReviewUnlocked, Publishing
  <2> QED
    BY <1>3, <2>3, <2>8, MoveKeeps
<1> QED
  BY <1>4, <1>5, <1>6

LEMMA Least ==
  ASSUME NEW S \in SUBSET Nat, S # {}
  PROVE  \E x \in S : \A y \in S : x <= y
<1>1. PICK x \in S : \A y \in S : ~(<<y, x>> \in OpToRel(<, Nat))
  BY NatLessThanWellFounded, WFMin
<1>2. \A y \in S : ~(y < x)
  BY <1>1 DEF OpToRel
<1> QED
  BY <1>2

LEMMA NextLockIsMissing ==
  ASSUME NEW k, Subjects(k.review) \ k.held # {}
  PROVE  NextLock(k) \in Subjects(k.review) \ k.held
<1> DEFINE S == Subjects(k.review) \ k.held
<1>1. S \in SUBSET Nat /\ S # {}
  BY Numbers DEF Subjects
<1>2. \E x \in S : \A y \in S : x <= y
  <2> HIDE DEF S
  <2> QED
    BY <1>1, Least
<1> QED
  BY <1>2 DEF NextLock, Min

\* A publication locks what nobody holds.
LEMMA LockArtifactKeeps ==
  ASSUME Parts, NEW c \in Calls, LockArtifact(c)
  PROVE  Parts'
<1>1. PICK x : x = call[c]
  OBVIOUS
<1>2. x \in Call /\ x.stage = "locking" /\ RequestOK(x) /\ PublishOK(x) /\ Held(c) = HeldBy(x)
  BY <1>1, CallRow DEF Parts, LockArtifact
<1>3. PICK a : a = NextLock(x)
  OBVIOUS
<1>4. a \in Artifacts /\ Unlocked(a, c)
  BY <1>1, <1>3, NextLockIsMissing DEF LockArtifact, Subjects
<1>5. PICK k : k = [x EXCEPT !.held = @ \cup {a}]
  OBVIOUS
<1>6. x.held \in SUBSET Artifacts
  BY <1>2 DEF Call
<1>7. k \in Call
  BY <1>2, <1>4, <1>5, <1>6 DEF Call
<1>8. k.stage = "locking" /\ k.review = x.review /\ k.decider = x.decider /\ k.held = x.held \cup {a}
  BY <1>2, <1>5 DEF Call
<1>9. Eligible(k) <=> Eligible(x)
  BY <1>8 DEF Eligible
<1>10. RequestOK(k) /\ PublishOK(k) /\ HeldBy(k) = x.held \cup {a}
  BY <1>2, <1>8, <1>9 DEF RequestOK, PublishOK, HeldBy
<1>11. call' = [call EXCEPT ![c] = k]
  BY <1>1, <1>3, <1>5 DEF LockArtifact, Parts, CallsOK
<1>12. \A d \in Calls \ {c} : x.held \cap Held(d) = {} /\ a \notin Held(d)
                              /\ (Publishing(d) => x.review # call[d].review)
  <2>1. Held(c) = x.held /\ Publishing(c)
    BY <1>1, <1>2 DEF HeldBy, Publishing
  <2> QED
    BY <1>1, <1>4, <2>1 DEF Parts, CallsOK, LocksExclude, Unlocked
<1>13. MovesTo(c, k)
  BY <1>7, <1>8, <1>10, <1>11, <1>12 DEF MovesTo
<1> QED
  BY <1>8, <1>13, MoveKeeps DEF LockArtifact

LEMMA NumberedIsFinite ==
  ASSUME PublicationsOK, NEW a
  PROVE  IsFiniteSet(Numbered(a)) /\ Cardinality(Numbered(a)) \in Nat
<1>1. publications \in Seq(Publication)
  BY DEF PublicationsOK
<1>2. Len(publications) \in Nat /\ DOMAIN publications = 1..Len(publications)
  BY <1>1, LenProperties
<1>3. IsFiniteSet(DOMAIN publications) /\ Numbered(a) \subseteq DOMAIN publications
  BY <1>2, FS_Interval DEF Numbered
<1> QED
  BY <1>3, FS_Subset, FS_CardinalityType

\* The last version of an artifact is how many it has.
LEMMA LastVersion ==
  ASSUME PublicationsOK, NEW a \in Artifacts
  PROVE  Max(VersionsOf(a) \cup {0}) = Cardinality(Numbered(a))
<1>1. PICK n : n = Cardinality(Numbered(a))
  OBVIOUS
<1>2. n \in Nat
  BY <1>1, NumberedIsFinite
<1>3. {publications[i].version[a] : i \in Numbered(a)} = 1..n
  BY <1>1 DEF PublicationsOK, PublicationsAreEarned, VersionsAreNumbered, Numbered
<1>4. VersionsOf(a) = {publications[i].version[a] : i \in Numbered(a)}
  BY DEF VersionsOf, Numbered
<1>5. VersionsOf(a) \cup {0} = 0..n
  BY <1>2, <1>3, <1>4
<1>6. n \in 0..n /\ \A y \in 0..n : n >= y
  BY <1>2
<1>7. \A x \in 0..n : (\A y \in 0..n : x >= y) => x = n
  BY <1>2
<1>8. Max(0..n) = n
  BY <1>6, <1>7 DEF Max
<1> QED
  BY <1>1, <1>5, <1>8

\* The next versions of what a publication holds.
LEMMA NumberVersionsKeeps ==
  ASSUME Parts, NEW c \in Calls, NumberVersions(c)
  PROVE  Parts'
<1>1. PICK x : x = call[c]
  OBVIOUS
<1>2. x \in Call /\ x.stage = "locking" /\ RequestOK(x) /\ PublishOK(x) /\ Held(c) = HeldBy(x)
  BY <1>1, CallRow DEF Parts, NumberVersions
<1>3. PICK v : v = [a \in Artifacts |-> IF reviews[x.review].manifest[a] = 0 THEN 0
                                        ELSE Max(VersionsOf(a) \cup {0}) + 1]
  OBVIOUS
<1>4. \A a \in Artifacts : v[a] = IF reviews[x.review].manifest[a] = 0 THEN 0
                                  ELSE Cardinality(Numbered(a)) + 1
  BY <1>3, LastVersion DEF Parts, Tables
<1>5. v \in [Artifacts -> Nat]
  <2>1. \A a \in Artifacts : v[a] \in Nat
    BY <1>4, NumberedIsFinite DEF Parts, Tables
  <2> QED
    BY <1>3, <2>1
<1>6. PICK k : k = [x EXCEPT !.stage = "inserting", !.version = v]
  OBVIOUS
<1>7. k \in Call
  BY <1>2, <1>5, <1>6 DEF Call
<1>8. /\ k.stage = "inserting" /\ k.review = x.review /\ k.decider = x.decider
      /\ k.held = x.held /\ k.version = v
  BY <1>2, <1>6 DEF Call
<1>9. Eligible(k) <=> Eligible(x)
  BY <1>8 DEF Eligible
<1>10. Subjects(x.review) \subseteq x.held
  BY <1>1 DEF NumberVersions
<1>11. PublishOK(k)
  BY <1>2, <1>4, <1>8, <1>9, <1>10 DEF PublishOK
<1>12. RequestOK(k) /\ HeldBy(k) = x.held
  BY <1>8 DEF RequestOK, HeldBy
<1>13. call' = [call EXCEPT ![c] = k]
  BY <1>1, <1>3, <1>6 DEF NumberVersions, Parts, CallsOK
<1>14. \A d \in Calls \ {c} : x.held \cap Held(d) = {} /\ (Publishing(d) => x.review # call[d].review)
  <2>1. Held(c) = x.held /\ Publishing(c)
    BY <1>1, <1>2 DEF HeldBy, Publishing
  <2> QED
    BY <1>1, <2>1 DEF Parts, CallsOK, LocksExclude
<1>15. MovesTo(c, k)
  BY <1>7, <1>8, <1>11, <1>12, <1>13, <1>14 DEF MovesTo
<1> QED
  BY <1>8, <1>15, MoveKeeps DEF NumberVersions

LEMMA DeadlockAbortKeeps ==
  ASSUME Parts, NEW c \in Calls, DeadlockAbort(c)
  PROVE  Parts'
<1>1. "deadlock" \in Error
  BY DEF Error
<1>2. errors' \subseteq Error
  BY <1>1 DEF DeadlockAbort, Parts
<1> QED
  BY <1>2, EndKeeps DEF DeadlockAbort

-----------------------------------------------------------------------------
(* Steps that add to a table.                                               *)

\* A revision is saved under no review request that holds its root.
LEMMA SaveRevisionKeeps ==
  ASSUME Parts, NEW e \in Edits, SaveRevision(e)
  PROVE  Parts'
<1>1. PICK a : a = e.artifact
  OBVIOUS
<1>2. PICK row : row = [source |-> e.source, author |-> e.author]
  OBVIOUS
<1>3. e \in [artifact : Artifacts, author : Authors, source : Sources]
  BY InputsAssumption
<1>4. a \in Artifacts /\ row \in Revision /\ row.source = e.source
  BY <1>1, <1>2, <1>3, Numbers DEF Revision
<1>5. UNCHANGED <<reviews, publications, deployments, call>>
  BY DEF SaveRevision
<1>6. \/ errors' = errors \cup {"duplicate source"} /\ UNCHANGED revisions
      \/ /\ ~Recorded(a, row.source) /\ Head_(a) < MaxRevisions
         /\ revisions' = [revisions EXCEPT ![a] = Append(@, row)]
         /\ UNCHANGED errors
  BY <1>1, <1>2, <1>4 DEF SaveRevision, Duplicate
<1>7. RevisionsOK' /\ Grown /\ (UNCHANGED revisions \/ \A b \in Artifacts \ {a} : revisions'[b] = revisions[b])
  <2>1. CASE UNCHANGED revisions
    BY <2>1, NoneSaved DEF Parts, Tables
  <2>2. CASE /\ ~Recorded(a, row.source) /\ Head_(a) < MaxRevisions
             /\ revisions' = [revisions EXCEPT ![a] = Append(@, row)]
    BY <1>4, <2>2, OneSaved DEF Parts, Tables
  <2> QED
    BY <1>6, <2>1, <2>2
<1>8. errors' \subseteq Error
  BY <1>6 DEF Parts, Error
<1>9. Tables'
  BY <1>5, <1>7, NoneReviewed, PublicationsStand DEF Parts, Tables
<1>10. RoomForReviews'
  BY <1>5 DEF Parts, RoomForReviews, Requesting
<1>11. ASSUME NEW c \in Calls PROVE (RequestOK(call[c]) /\ PublishOK(call[c]))'
  <2>1. PICK k : k = call[c]
    OBVIOUS
  <2>2. k \in Call /\ RequestOK(k) /\ PublishOK(k) /\ k = call'[c]
    BY <1>5, <2>1 DEF Parts, CallsOK
  <2>3. PublishOK(k)'
    BY <1>5, <1>7, <2>2, PublishStays DEF Parts, Tables, PublishOK
  <2>4. ASSUME k.stage = "pinning" PROVE Head_(k.artifact)' = Head_(k.artifact) /\ MayReview(k)'
    <3>1. k.artifact \in Artifacts /\ MayReview(k) /\ k.revision \in 1..Head_(k.artifact)
      BY <2>2, <2>4 DEF RequestOK
    <3>2. k.artifact # a
      BY <1>1, <2>1, <2>4 DEF SaveRevision, Held
    <3>3. revisions'[k.artifact] = revisions[k.artifact]
      BY <1>7, <3>1, <3>2
    <3> QED
      BY <1>5, <3>1, <3>3 DEF MayReview, Head_, At
  <2>5. RequestOK(k)'
    BY <1>7, <2>2, <2>4, RequestStays DEF Parts, Tables
  <2> QED
    BY <2>2, <2>3, <2>5 DEF RequestOK, PublishOK, MayReview, Eligible
<1>12. LocksExclude'
  BY <1>5 DEF Parts, CallsOK, LocksExclude, Held, Publishing
<1>13. CallsOK'
  BY <1>5, <1>11, <1>12 DEF Parts, CallsOK
<1> QED
  BY <1>8, <1>9, <1>10, <1>13 DEF Parts

\* Room for the review that a request creates was kept when it began.
LEMMA RoomWhenCreated ==
  ASSUME Parts, NEW c \in Calls, call[c].stage = "pinning", End(c),
         NEW x, reviews' = Append(reviews, x), x \in Review
  PROVE  /\ Len(reviews)' = Len(reviews) + 1 /\ Len(reviews)' <= MaxReviews
         /\ RoomForReviews'
<1>1. IsFiniteSet(Requesting) /\ Cardinality(Requesting) \in Nat
  BY RequestingIsFinite
<1>2. call'[c] = Idle /\ \A d \in Calls \ {c} : call'[d] = call[d]
  BY DEF Parts, CallsOK, End
<1>3. Requesting' = Requesting \ {c} /\ c \in Requesting
  BY <1>2, IdleIsCall DEF Requesting
<1>4. Cardinality(Requesting)' = Cardinality(Requesting) - 1
  BY <1>1, <1>3, FS_RemoveElement
<1>5. Cardinality(Requesting') \in Nat
  BY <1>1, <1>3, FS_Subset, FS_CardinalityType
<1>6. Len(reviews)' = Len(reviews) + 1 /\ Len(reviews) \in Nat
  BY AppendProperties, LenProperties DEF Parts, Tables, ReviewsOK
<1>7. Len(reviews) + Cardinality(Requesting) <= MaxReviews
  BY DEF Parts, RoomForReviews
<1> QED
  BY <1>1, <1>4, <1>5, <1>6, <1>7, Numbers DEF RoomForReviews

NewReview(k) ==
  [artifact |-> k.artifact, manifest |-> Pins(k), by |-> k.by, reviewers |-> k.reviewers,
   status |-> "OPEN", posted |-> 0, open |-> {}, decidedBy |-> Null]

\* The review that a request creates pins draft heads, among them the head of
\* its root, which no review has pinned as its root.
LEMMA PinsAreHeads ==
  ASSUME RevisionsOK, NEW k \in Call, k.stage = "pinning", RequestOK(k), ~Moved(k), Resolves(k)
  PROVE  /\ k.artifact \in Artifacts /\ Pins(k)[k.artifact] = Head_(k.artifact)
         /\ \A a \in Artifacts : Pins(k)[a] \in {0, Head_(a)}
         /\ \A a \in Artifacts \ {k.artifact} : Pins(k)[a] # 0 => At(a, Pins(k)[a]).source \in Valid
         /\ NewReview(k) \in Review
         /\ \A r \in DOMAIN reviews : ~ /\ reviews[r].artifact = k.artifact
                                        /\ reviews[r].manifest[k.artifact] = Head_(k.artifact)
<1>1. /\ k.by \in People /\ k.artifact \in Artifacts /\ k.seen[k.artifact] = Head_(k.artifact)
      /\ MayReview(k)
  BY DEF RequestOK
<1>2. \A a \in Referenced(k) : k.seen[a] = Head_(a)
  BY DEF Moved
<1>3. \A a \in Artifacts : Pins(k)[a] = IF a = k.artifact \/ a \in Referenced(k) THEN k.seen[a] ELSE 0
  BY DEF Pins
<1>4. \A a \in Artifacts : Pins(k)[a] \in {0, Head_(a)}
  BY <1>1, <1>2, <1>3
<1>5. Pins(k)[k.artifact] = Head_(k.artifact)
  BY <1>1, <1>3
<1>6. \A a \in Referenced(k) : At(a, k.seen[a]).source \in Valid
  BY DEF Resolves
<1>7. \A a \in Artifacts \ {k.artifact} : Pins(k)[a] # 0 => At(a, Pins(k)[a]).source \in Valid
  BY <1>3, <1>6
<1>8. Pins(k) \in Manifest
  <2>1. \A a \in Artifacts : 0 \in 0..MaxRevisions /\ Head_(a) \in 0..MaxRevisions
    BY Rows, Numbers
  <2>2. \A a \in Artifacts : Pins(k)[a] \in 0..MaxRevisions
    BY <1>4, <2>1
  <2> QED
    BY <2>2 DEF Pins, Manifest
<1>9. NewReview(k) \in Review
  <2>1. k.reviewers \in SUBSET People
    BY DEF Call
  <2>2. 0 \in 0..MaxComments
    BY Numbers
  <2> QED
    BY <1>1, <1>8, <2>1, <2>2 DEF NewReview, Review
<1>10. \A r \in DOMAIN reviews : ~ /\ reviews[r].artifact = k.artifact
                                   /\ reviews[r].manifest[k.artifact] = Head_(k.artifact)
  BY <1>1 DEF MayReview
<1> QED
  BY <1>1, <1>4, <1>5, <1>7, <1>9, <1>10

LEMMA ReviewAppended ==
  ASSUME ReviewsOK, NEW x \in Review, reviews' = Append(reviews, x)
  PROVE  /\ Len(reviews) \in Nat /\ DOMAIN reviews = 1..Len(reviews)
         /\ reviews' \in Seq(Review) /\ DOMAIN reviews' = 1..(Len(reviews) + 1)
         /\ reviews'[Len(reviews) + 1] = x
         /\ \A r \in DOMAIN reviews : r \in DOMAIN reviews' /\ reviews'[r] = reviews[r]
<1>1. reviews \in Seq(Review)
  BY DEF ReviewsOK
<1>2. Len(reviews) \in Nat /\ DOMAIN reviews = 1..Len(reviews)
  BY <1>1, LenProperties
<1>3. /\ reviews' \in Seq(Review) /\ Len(reviews') = Len(reviews) + 1
      /\ reviews'[Len(reviews) + 1] = x
      /\ \A r \in 1..Len(reviews) : reviews'[r] = reviews[r]
  BY <1>1, AppendProperties
<1>4. DOMAIN reviews' = 1..(Len(reviews) + 1)
  BY <1>3, LenProperties
<1> QED
  BY <1>2, <1>3, <1>4

\* A new review has a root of its own.
LEMMA ReviewCreated ==
  ASSUME RevisionsOK, ReviewsOK, UNCHANGED revisions,
         NEW k \in Call, k.stage = "pinning", RequestOK(k), ~Moved(k), Resolves(k),
         reviews' = Append(reviews, NewReview(k))
  PROVE  ReviewsOK'
<1>1. PICK x : x = NewReview(k)
  OBVIOUS
<1>2. PICK n : n = Len(reviews) + 1
  OBVIOUS
<1>3. /\ x \in Review /\ x.artifact = k.artifact /\ x.manifest = Pins(k)
      /\ x.status = "OPEN" /\ x.decidedBy = Null
  BY <1>1, PinsAreHeads DEF NewReview
<1>4. /\ reviews' \in Seq(Review) /\ DOMAIN reviews' = DOMAIN reviews \cup {n}
      /\ n \notin DOMAIN reviews /\ reviews'[n] = x
      /\ \A r \in DOMAIN reviews : reviews'[r] = reviews[r]
  BY <1>1, <1>2, <1>3, ReviewAppended
<1>5. Grown /\ \A a \in Artifacts : Head_(a) \in Nat /\ Head_(a) >= 1 /\ Head_(a)' = Head_(a)
  BY NoneSaved, Rows DEF Head_
<1>6. \A r \in DOMAIN reviews : ReviewOK(r)'
  BY <1>4, <1>5, PinnedStays
<1>7. /\ x.artifact \in Artifacts /\ x.manifest[x.artifact] = Head_(x.artifact)
      /\ \A a \in Artifacts : x.manifest[a] \in {0, Head_(a)}
      /\ \A a \in Artifacts \ {x.artifact} : x.manifest[a] # 0 => At(a, x.manifest[a]).source \in Valid
      /\ \A r \in DOMAIN reviews : ~ /\ reviews[r].artifact = x.artifact
                                     /\ reviews[r].manifest[x.artifact] = x.manifest[x.artifact]
  BY <1>3, PinsAreHeads
<1>8. ReviewOK(n)'
  <2>1. \A a \in Artifacts : x.manifest[a] <= Head_(a)' /\ x.manifest[x.artifact] # 0
    BY <1>5, <1>7
  <2>2. \A a \in Artifacts \ {x.artifact} : x.manifest[a] # 0 => (At(a, x.manifest[a]).source \in Valid)'
    BY <1>7 DEF At
  <2> QED
    BY <1>3, <1>4, <1>7, <2>1, <2>2 DEF ReviewOK
<1>9. ASSUME NEW r \in DOMAIN reviews', NEW s \in DOMAIN reviews',
             reviews'[r].artifact = reviews'[s].artifact,
             reviews'[r].manifest[reviews'[r].artifact] = reviews'[s].manifest[reviews'[s].artifact]
      PROVE  r = s
  <2>1. CASE r \in DOMAIN reviews /\ s \in DOMAIN reviews
    BY <1>4, <1>9, <2>1 DEF ReviewsOK
  <2>2. CASE r = n /\ s \in DOMAIN reviews
    BY <1>4, <1>7, <1>9, <2>2
  <2>3. CASE s = n /\ r \in DOMAIN reviews
    BY <1>4, <1>7, <1>9, <2>3
  <2> QED
    BY <1>4, <2>1, <2>2, <2>3
<1> QED
  BY <1>4, <1>6, <1>8, <1>9 DEF ReviewsOK

LEMMA CreateReviewKeeps ==
  ASSUME Parts, NEW c \in Calls, CreateReview(c)
  PROVE  Parts'
<1>1. PICK k : k = call[c]
  OBVIOUS
<1>2. k \in Call /\ k.stage = "pinning" /\ RequestOK(k)
  BY <1>1 DEF Parts, CallsOK, CreateReview
<1>3. End(c) /\ UNCHANGED <<revisions, publications, deployments>>
  BY DEF CreateReview
<1>4. \/ /\ errors' = IF Moved(k) THEN errors \cup {"reference not found"} ELSE errors
         /\ UNCHANGED reviews
      \/ /\ ~Moved(k) /\ Resolves(k) /\ reviews' = Append(reviews, NewReview(k))
         /\ UNCHANGED errors
  BY <1>1 DEF CreateReview, NewReview
<1>5. CASE /\ errors' = IF Moved(k) THEN errors \cup {"reference not found"} ELSE errors
           /\ UNCHANGED reviews
  <2>1. errors' \subseteq Error
    BY <1>5 DEF Parts, Error
  <2> QED
    BY <1>3, <1>5, <2>1, EndKeeps
<1>6. CASE /\ ~Moved(k) /\ Resolves(k) /\ reviews' = Append(reviews, NewReview(k))
           /\ UNCHANGED errors
  <2>1. RevisionsOK' /\ Grown
    BY <1>3, NoneSaved DEF Parts, Tables
  <2>2. ReviewsOK'
    BY <1>2, <1>3, <1>6, ReviewCreated DEF Parts, Tables
  <2>3. PICK x : x = NewReview(k)
    OBVIOUS
  <2>4. x \in Review /\ x.artifact = k.artifact /\ reviews' = Append(reviews, x)
    BY <1>2, <1>6, <2>3, PinsAreHeads DEF Parts, Tables, NewReview
  <2>5. /\ DOMAIN reviews' = DOMAIN reviews \cup {Len(reviews) + 1}
        /\ reviews'[Len(reviews) + 1] = x
        /\ \A r \in DOMAIN reviews : r \in DOMAIN reviews' /\ reviews'[r] = reviews[r]
    BY <2>4, ReviewAppended DEF Parts, Tables
  <2>6. PublicationsOK'
    BY <1>3, <2>5, PublicationsStand DEF Parts, Tables
  <2>7. RoomForReviews'
    BY <1>1, <1>2, <1>3, <2>4, RoomWhenCreated
  <2>8. MovesTo(c, Idle)
    BY <1>3, Ends DEF Parts
  <2>9. call'[c] = Idle /\ \A d \in Calls \ {c} : call'[d] = call[d]
    BY <1>3 DEF Parts, CallsOK, End
  <2>10. ASSUME NEW d \in Calls \ {c} PROVE (RequestOK(call[d]) /\ PublishOK(call[d]))'
    <3>1. PICK j : j = call[d]
      OBVIOUS
    <3>2. j \in Call /\ RequestOK(j) /\ PublishOK(j) /\ j = call'[d]
      BY <2>9, <3>1 DEF Parts, CallsOK
    <3>3. PublishOK(j)'
      BY <1>3, <2>1, <2>5, <3>2, PublishStays DEF Parts, Tables, PublishOK
    <3>4. ASSUME j.stage = "pinning" PROVE Head_(j.artifact)' = Head_(j.artifact) /\ MayReview(j)'
      <4>1. MayReview(j)
        BY <3>2, <3>4 DEF RequestOK
      <4>2. j.artifact # x.artifact
        <5>1. Held(c) = {k.artifact} /\ Held(d) = {j.artifact}
          BY <1>1, <1>2, <3>1, <3>4 DEF Held
        <5>2. Held(c) \cap Held(d) = {}
          BY DEF Parts, CallsOK, LocksExclude
        <5> QED
          BY <2>4, <5>1, <5>2
      <4>3. \A r \in DOMAIN reviews' :
              ~(reviews'[r].artifact = j.artifact /\ reviews'[r].manifest[j.artifact] = j.revision)
        BY <2>5, <4>1, <4>2 DEF MayReview
      <4> QED
        BY <1>3, <4>1, <4>3 DEF MayReview, Head_, At
    <3>5. RequestOK(j)'
      BY <2>1, <3>2, <3>4, RequestStays DEF Parts, Tables
    <3> QED
      BY <3>2, <3>3, <3>5 DEF RequestOK, PublishOK, MayReview, Eligible
  <2>11. (RequestOK(call[c]) /\ PublishOK(call[c]))'
    BY <2>9, IdleIsCall DEF RequestOK, PublishOK
  <2>12. LocksExclude'
    BY <2>8, LocksMove DEF Parts
  <2>13. call' \in [Calls -> Call]
    BY <2>8 DEF MovesTo, Parts, CallsOK
  <2>14. CallsOK'
    BY <2>10, <2>11, <2>12, <2>13 DEF CallsOK
  <2> QED
    BY <1>3, <1>6, <2>1, <2>2, <2>6, <2>7, <2>14 DEF Parts, Tables
<1> QED
  BY <1>4, <1>5, <1>6

-----------------------------------------------------------------------------
(* The review.                                                              *)

\* An open review that nobody publishes changes in nothing it pinned.
Changes(r, x) ==
  /\ r \in DOMAIN reviews /\ Open(r)
  /\ x \in Review
  /\ x.artifact = reviews[r].artifact /\ x.manifest = reviews[r].manifest
  /\ x.by = reviews[r].by /\ x.reviewers = reviews[r].reviewers
  /\ x.status = "OPEN" => x.decidedBy = Null
  /\ x.status = "APPROVED" => /\ x.decidedBy \in x.reviewers \ {x.by, RootAuthor(r)}
                              /\ x.open = {}
                              /\ ManifestValid(r)
  /\ reviews' = [reviews EXCEPT ![r] = x]
  /\ UNCHANGED <<revisions, publications, deployments, call, errors>>

LEMMA ReviewReplaced ==
  ASSUME Tables, NEW r, NEW x, Changes(r, x)
  PROVE  /\ reviews' \in Seq(Review) /\ DOMAIN reviews' = DOMAIN reviews
         /\ Len(reviews') = Len(reviews)
         /\ reviews'[r] = x /\ \A s \in DOMAIN reviews \ {r} : reviews'[s] = reviews[s]
         /\ \A s \in DOMAIN reviews : /\ reviews'[s].artifact = reviews[s].artifact
                                      /\ reviews'[s].manifest = reviews[s].manifest
<1>1. reviews \in Seq(Review) /\ r \in DOMAIN reviews /\ x \in Review
      /\ reviews' = [reviews EXCEPT ![r] = x]
  BY DEF Tables, ReviewsOK, Changes
<1>2. /\ Len(reviews) \in Nat /\ DOMAIN reviews = 1..Len(reviews)
      /\ reviews \in [1..Len(reviews) -> Review]
  BY <1>1, LenProperties
<1>3. reviews' \in [1..Len(reviews) -> Review]
  BY <1>1, <1>2
<1>4. reviews' \in Seq(Review)
  BY <1>2, <1>3, SeqDef
<1>5. DOMAIN reviews' = DOMAIN reviews /\ Len(reviews') = Len(reviews)
  BY <1>2, <1>3, <1>4, LenProperties
<1>6. reviews'[r] = x /\ \A s \in DOMAIN reviews \ {r} : reviews'[s] = reviews[s]
  BY <1>1
<1> QED
  BY <1>4, <1>5, <1>6 DEF Changes

LEMMA ChangedIsOK ==
  ASSUME Tables, NEW r, NEW x, Changes(r, x)
  PROVE  ReviewsOK'
<1>1. /\ reviews' \in Seq(Review) /\ DOMAIN reviews' = DOMAIN reviews /\ r \in DOMAIN reviews
      /\ reviews'[r] = x /\ \A s \in DOMAIN reviews \ {r} : reviews'[s] = reviews[s]
      /\ \A s \in DOMAIN reviews : /\ reviews'[s].artifact = reviews[s].artifact
                                   /\ reviews'[s].manifest = reviews[s].manifest
  BY ReviewReplaced DEF Changes
<1>2. Grown /\ RevisionsOK /\ ReviewsOK
  BY NoneSaved DEF Tables, Changes
<1>3. \A s \in DOMAIN reviews \ {r} : ReviewOK(s)'
  BY <1>1, <1>2, PinnedStays
<1>4. ReviewOK(r)'
  <2>1. RootAuthor(r)' = RootAuthor(r) /\ (ManifestValid(r)' <=> ManifestValid(r))
    BY <1>1 DEF RootAuthor, ManifestValid, At, Changes
  <2>2. /\ x.artifact = reviews[r].artifact /\ x.manifest = reviews[r].manifest
        /\ x.status = "OPEN" => x.decidedBy = Null
        /\ x.status = "APPROVED" => /\ x.decidedBy \in x.reviewers \ {x.by, RootAuthor(r)}
                                    /\ x.open = {}
                                    /\ ManifestValid(r)
    BY DEF Changes
  <2>3. /\ x.artifact \in Artifacts /\ x.manifest[x.artifact] # 0
        /\ \A a \in Artifacts : x.manifest[a] <= Head_(a)
        /\ \A a \in Artifacts \ {x.artifact} : x.manifest[a] # 0 => At(a, x.manifest[a]).source \in Valid
    BY <1>1, <1>2, <2>2 DEF ReviewsOK, ReviewOK
  <2>4. /\ \A a \in Artifacts : (x.manifest[a] <= Head_(a))'
        /\ \A a \in Artifacts \ {x.artifact} : x.manifest[a] # 0 => (At(a, x.manifest[a]).source \in Valid)'
    BY <2>3 DEF Head_, At, Changes
  <2> QED
    BY <1>1, <2>1, <2>2, <2>3, <2>4 DEF ReviewOK
<1>5. \A s, t \in DOMAIN reviews' :
        /\ reviews'[s].artifact = reviews'[t].artifact
        /\ reviews'[s].manifest[reviews'[s].artifact] = reviews'[t].manifest[reviews'[t].artifact]
        => s = t
  BY <1>1, <1>2 DEF ReviewsOK
<1> QED
  BY <1>1, <1>3, <1>4, <1>5 DEF ReviewsOK

LEMMA ChangesKeep ==
  ASSUME Parts, NEW r, NEW x, Changes(r, x)
  PROVE  Parts'
<1>1. /\ reviews' \in Seq(Review) /\ DOMAIN reviews' = DOMAIN reviews /\ Len(reviews') = Len(reviews)
      /\ r \in DOMAIN reviews
      /\ reviews'[r] = x /\ \A s \in DOMAIN reviews \ {r} : reviews'[s] = reviews[s]
      /\ \A s \in DOMAIN reviews : /\ reviews'[s].artifact = reviews[s].artifact
                                   /\ reviews'[s].manifest = reviews[s].manifest
  BY ReviewReplaced DEF Changes, Parts
<1>2. UNCHANGED <<revisions, publications, deployments, call, errors>> /\ Open(r)
  BY DEF Changes
<1>3. RevisionsOK' /\ Grown
  BY <1>2, NoneSaved DEF Parts, Tables
<1>4. ReviewsOK'
  BY ChangedIsOK DEF Parts
<1>5. reviews[r].status = "OPEN" /\ reviews[r].decidedBy = Null
  BY <1>1, <1>2 DEF Open, Parts, Tables, ReviewsOK, ReviewOK
<1>6. PublicationsOK'
  BY <1>1, <1>2, <1>5, PublicationsStand DEF Parts, Tables
<1>7. RoomForReviews'
  BY <1>1, <1>2 DEF Parts, RoomForReviews, Requesting
<1>8. LocksExclude'
  BY <1>2 DEF Parts, CallsOK, LocksExclude, Held, Publishing
<1>9. ASSUME NEW d \in Calls PROVE (RequestOK(call[d]) /\ PublishOK(call[d]))'
  <2>1. PICK j : j = call[d]
    OBVIOUS
  <2>2. j \in Call /\ RequestOK(j) /\ PublishOK(j) /\ j = call'[d]
    BY <1>2, <2>1 DEF Parts, CallsOK
  <2>3. ASSUME j.stage = "pinning" PROVE Head_(j.artifact)' = Head_(j.artifact) /\ MayReview(j)'
    <3>1. MayReview(j)
      BY <2>2, <2>3 DEF RequestOK
    <3>2. \A s \in DOMAIN reviews' :
            ~(reviews'[s].artifact = j.artifact /\ reviews'[s].manifest[j.artifact] = j.revision)
      BY <1>1, <3>1 DEF MayReview
    <3> QED
      BY <1>2, <3>1, <3>2 DEF MayReview, Head_, At
  <2>4. RequestOK(j)'
    BY <1>3, <2>2, <2>3, RequestStays DEF Parts, Tables
  <2>5. PublishOK(j)'
    <3>1. CASE j.stage \in {"publishing", "locking", "inserting"} /\ j.review = r
      <4>1. j.stage \notin {"locking", "inserting"}
        BY <1>2, <2>1, <3>1 DEF Open, ReviewUnlocked
      <4>2. j.stage = "publishing" /\ j.decider = Null /\ j.held = {}
        BY <1>5, <2>2, <3>1, <4>1 DEF PublishOK
      <4> QED
        BY <1>1, <3>1, <4>2 DEF PublishOK
    <3>2. CASE ~(j.stage \in {"publishing", "locking", "inserting"} /\ j.review = r)
      <4>1. j.stage \in {"publishing", "locking", "inserting"} =>
              j.review \in DOMAIN reviews' /\ reviews'[j.review] = reviews[j.review]
        BY <1>1, <2>2, <3>2 DEF PublishOK
      <4> QED
        BY <1>2, <1>3, <2>2, <4>1, PublishStays DEF Parts, Tables
    <3> QED
      BY <3>1, <3>2
  <2> QED
    BY <2>2, <2>4, <2>5 DEF RequestOK, PublishOK, MayReview, Eligible
<1>10. CallsOK'
  BY <1>2, <1>8, <1>9 DEF Parts, CallsOK
<1> QED
  BY <1>2, <1>3, <1>4, <1>6, <1>7, <1>10 DEF Parts, Tables

\* What an open review was when it was read under its lock.
LEMMA OpenRow ==
  ASSUME Parts, NEW r \in DOMAIN reviews, Open(r)
  PROVE  /\ reviews[r] \in Review /\ reviews[r].status = "OPEN" /\ reviews[r].decidedBy = Null
         /\ reviews[r].posted \in 0..MaxComments /\ reviews[r].open \in SUBSET (1..MaxComments)
<1>1. reviews[r] \in Review /\ reviews[r].status = "OPEN"
  BY ReviewRow DEF Parts, Tables, Open
<1>2. reviews[r].decidedBy = Null
  BY <1>1 DEF Parts, Tables, ReviewsOK, ReviewOK
<1> QED
  BY <1>1, <1>2 DEF Review

LEMMA AddCommentKeeps ==
  ASSUME Parts, NEW r \in DOMAIN reviews, AddComment(r)
  PROVE  Parts'
<1>1. PICK y : y = reviews[r]
  OBVIOUS
<1>2. /\ y \in Review /\ y.status = "OPEN" /\ y.decidedBy = Null
      /\ y.posted \in 0..MaxComments /\ y.open \in SUBSET (1..MaxComments) /\ y.posted < MaxComments
  BY <1>1, OpenRow DEF AddComment
<1>3. PICK x : x = [y EXCEPT !.posted = @ + 1, !.open = @ \cup {y.posted + 1}]
  OBVIOUS
<1>4. y.posted + 1 \in 0..MaxComments /\ y.posted + 1 \in 1..MaxComments
  BY <1>2, Numbers
<1>5. x \in Review
  BY <1>2, <1>3, <1>4 DEF Review
<1>6. /\ x.artifact = y.artifact /\ x.manifest = y.manifest /\ x.by = y.by /\ x.reviewers = y.reviewers
      /\ x.status = "OPEN" /\ x.decidedBy = Null
  BY <1>2, <1>3 DEF Review
<1>7. reviews' = [reviews EXCEPT ![r] = x]
  BY <1>1, <1>3 DEF AddComment
<1>8. Changes(r, x)
  BY <1>1, <1>5, <1>6, <1>7 DEF Changes, AddComment
<1> QED
  BY <1>8, ChangesKeep

LEMMA ResolveCommentKeeps ==
  ASSUME Parts, NEW r \in DOMAIN reviews, NEW m, ResolveComment(r, m)
  PROVE  Parts'
<1>1. PICK y : y = reviews[r]
  OBVIOUS
<1>2. /\ y \in Review /\ y.status = "OPEN" /\ y.decidedBy = Null
      /\ y.open \in SUBSET (1..MaxComments)
  BY <1>1, OpenRow DEF ResolveComment
<1>3. PICK x : x = [y EXCEPT !.open = @ \ {m}]
  OBVIOUS
<1>4. x \in Review
  BY <1>2, <1>3 DEF Review
<1>5. /\ x.artifact = y.artifact /\ x.manifest = y.manifest /\ x.by = y.by /\ x.reviewers = y.reviewers
      /\ x.status = "OPEN" /\ x.decidedBy = Null
  BY <1>2, <1>3 DEF Review
<1>6. reviews' = [reviews EXCEPT ![r] = x]
  BY <1>1, <1>3 DEF ResolveComment
<1>7. Changes(r, x)
  BY <1>1, <1>4, <1>5, <1>6 DEF Changes, ResolveComment
<1> QED
  BY <1>7, ChangesKeep

\* The dependencies were valid when the review was made, and the root is valid now.
LEMMA DecideReviewKeeps ==
  ASSUME Parts, NEW r \in DOMAIN reviews, NEW p \in Reviewers \cup Admins,
         NEW outcome \in {"APPROVED", "CHANGES_REQUESTED"}, DecideReview(r, p, outcome)
  PROVE  Parts'
<1>1. PICK y : y = reviews[r]
  OBVIOUS
<1>2. y \in Review /\ y.status = "OPEN"
  BY <1>1, OpenRow DEF DecideReview
<1>3. PICK x : x = [y EXCEPT !.status = outcome, !.decidedBy = p]
  OBVIOUS
<1>4. p \in People
  BY Numbers
<1>5. x \in Review
  BY <1>2, <1>3, <1>4 DEF Review
<1>6. /\ x.artifact = y.artifact /\ x.manifest = y.manifest /\ x.by = y.by /\ x.reviewers = y.reviewers
      /\ x.open = y.open /\ x.status = outcome /\ x.decidedBy = p
  BY <1>2, <1>3 DEF Review
<1>7. reviews' = [reviews EXCEPT ![r] = x]
  BY <1>1, <1>3 DEF DecideReview
<1>8. p \in y.reviewers /\ p # y.by /\ p # RootAuthor(r)
  BY <1>1 DEF DecideReview
<1>9. ASSUME outcome = "APPROVED" PROVE y.open = {} /\ ManifestValid(r)
  <2>1. y.open = {} /\ At(y.artifact, y.manifest[y.artifact]).source \in Valid
    BY <1>1, <1>9 DEF DecideReview, Approvable
  <2>2. \A a \in Artifacts \ {y.artifact} : y.manifest[a] # 0 => At(a, y.manifest[a]).source \in Valid
    BY <1>1 DEF Parts, Tables, ReviewsOK, ReviewOK
  <2> QED
    BY <1>1, <2>1, <2>2 DEF ManifestValid
<1>10. Changes(r, x)
  BY <1>1, <1>5, <1>6, <1>7, <1>8, <1>9 DEF Changes, DecideReview
<1> QED
  BY <1>10, ChangesKeep

LEMMA CancelReviewKeeps ==
  ASSUME Parts, NEW r \in DOMAIN reviews, NEW p, CancelReview(r, p)
  PROVE  Parts'
<1>1. PICK y : y = reviews[r]
  OBVIOUS
<1>2. y \in Review
  BY <1>1, OpenRow DEF CancelReview, Cancellable
<1>3. PICK x : x = [y EXCEPT !.status = "CANCELLED"]
  OBVIOUS
<1>4. x \in Review
  BY <1>2, <1>3 DEF Review
<1>5. /\ x.artifact = y.artifact /\ x.manifest = y.manifest /\ x.by = y.by /\ x.reviewers = y.reviewers
      /\ x.status = "CANCELLED"
  BY <1>2, <1>3 DEF Review
<1>6. reviews' = [reviews EXCEPT ![r] = x]
  BY <1>1, <1>3 DEF CancelReview
<1>7. Changes(r, x)
  BY <1>1, <1>4, <1>5, <1>6 DEF Changes, CancelReview, Cancellable
<1> QED
  BY <1>7, ChangesKeep

-----------------------------------------------------------------------------
(* The publication.                                                         *)

LEMMA NumberedNext ==
  ASSUME NEW n \in Nat
  PROVE  (1..n) \cup {n + 1} = 1..(n + 1)
OBVIOUS

\* What call k, which holds its artifacts, publishes.
NewPublication(k) ==
  [review |-> k.review, manifest |-> reviews[k.review].manifest, approvedBy |-> k.decider, version |-> k.version]

\* The version an artifact is given is the next one; what is not published keeps
\* its last version.
LEMMA VersionsGrow ==
  ASSUME PublicationsOK, NEW k \in Call, k.stage = "inserting", PublishOK(k),
         NEW x \in Publication, x.version = k.version, publications' = Append(publications, x)
  PROVE  /\ VersionsAreNumbered'
         /\ \A a \in Artifacts : reviews[k.review].manifest[a] = 0 => Numbered(a)' = Numbered(a)
<1>1. publications \in Seq(Publication)
  BY DEF PublicationsOK
<1>2. Len(publications) \in Nat /\ DOMAIN publications = 1..Len(publications)
  BY <1>1, LenProperties
<1>3. PICK n : n = Len(publications) + 1
  OBVIOUS
<1>4. /\ DOMAIN publications' = DOMAIN publications \cup {n} /\ n \notin DOMAIN publications
      /\ publications'[n] = x
      /\ \A i \in DOMAIN publications : publications'[i] = publications[i]
  <2>1. /\ publications' \in Seq(Publication) /\ Len(publications') = n /\ publications'[n] = x
        /\ \A i \in 1..Len(publications) : publications'[i] = publications[i]
    BY <1>1, <1>3, AppendProperties
  <2>2. DOMAIN publications' = 1..n
    BY <2>1, LenProperties
  <2> QED
    BY <1>2, <1>3, <2>1, <2>2
<1>5. \A a \in Artifacts : x.version[a] = IF reviews[k.review].manifest[a] = 0
                                           THEN 0 ELSE Cardinality(Numbered(a)) + 1
  BY DEF PublishOK
<1>6. \A a \in Artifacts : Numbered(a)' = IF x.version[a] = 0 THEN Numbered(a) ELSE Numbered(a) \cup {n}
  BY <1>4 DEF Numbered
<1>7. ASSUME NEW a \in Artifacts
      PROVE  ({publications[i].version[a] : i \in Numbered(a)} = 1..Cardinality(Numbered(a)))'
  <2>1. PICK z : z = Cardinality(Numbered(a))
    OBVIOUS
  <2>2. z \in Nat /\ IsFiniteSet(Numbered(a))
    BY <2>1, NumberedIsFinite
  <2>3. {publications[i].version[a] : i \in Numbered(a)} = 1..z
    BY <2>1 DEF PublicationsOK, PublicationsAreEarned, VersionsAreNumbered, Numbered
  <2>4. Numbered(a) \subseteq DOMAIN publications
    BY DEF Numbered
  <2>5. CASE x.version[a] = 0
    <3>1. Numbered(a)' = Numbered(a)
      BY <1>6, <2>5
    <3>2. \A i \in Numbered(a) : publications'[i].version[a] = publications[i].version[a]
      BY <1>4, <2>4
    <3>3. {publications'[i].version[a] : i \in Numbered(a)} = {publications[i].version[a] : i \in Numbered(a)}
      BY <3>2
    <3> QED
      BY <2>1, <2>3, <3>1, <3>3
  <2>6. CASE x.version[a] # 0
    <3>1. Numbered(a)' = Numbered(a) \cup {n} /\ n \notin Numbered(a) /\ x.version[a] = z + 1
      BY <1>4, <1>5, <1>6, <2>1, <2>4, <2>6
    <3>2. Cardinality(Numbered(a)') = z + 1
      BY <2>1, <2>2, <3>1, FS_AddElement
    <3>3. {publications'[i].version[a] : i \in Numbered(a) \cup {n}}
            = {publications[i].version[a] : i \in Numbered(a)} \cup {z + 1}
      BY <1>4, <2>4, <3>1
    <3>4. (1..z) \cup {z + 1} = 1..(z + 1)
      BY <2>2, NumberedNext
    <3> QED
      BY <2>3, <3>1, <3>2, <3>3, <3>4
  <2> QED
    BY <2>5, <2>6
<1>8. VersionsAreNumbered'
  BY <1>7 DEF VersionsAreNumbered, Numbered
<1> QED
  BY <1>5, <1>6, <1>8

LEMMA NewPublicationRow ==
  ASSUME Parts, NEW k \in Call, k.stage = "inserting", PublishOK(k)
  PROVE  /\ NewPublication(k) \in Publication
         /\ k.review \in DOMAIN reviews /\ k.decider = reviews[k.review].decidedBy /\ k.decider # Null
         /\ reviews[k.review].status = "APPROVED" /\ ~Published(k.review)
<1>1. /\ k.review \in DOMAIN reviews /\ Eligible(k) /\ ~Published(k.review)
      /\ k.decider # Null => k.decider = reviews[k.review].decidedBy
  BY DEF PublishOK
<1>2. k.review \in 1..Len(reviews) /\ Len(reviews) \in Nat /\ reviews[k.review].manifest \in Manifest
  BY <1>1, ReviewRow DEF Parts, Tables
<1>3. k.review \in 1..MaxReviews
  BY <1>2 DEF Call
<1>4. k.decider \in People \cup {Null} /\ k.version \in [Artifacts -> Nat]
  BY DEF Call
<1>5. NewPublication(k) \in Publication
  BY <1>2, <1>3, <1>4 DEF NewPublication, Publication
<1> QED
  BY <1>1, <1>5 DEF Eligible

\* Publications that share no artifact do not touch each other's versions.
LEMMA CreatePublicationKeeps ==
  ASSUME Parts, NEW c \in Calls, CreatePublication(c)
  PROVE  Parts'
<1>1. PICK k : k = call[c]
  OBVIOUS
<1>2. k \in Call /\ k.stage = "inserting" /\ PublishOK(k) /\ Held(c) = k.held /\ Publishing(c)
  BY <1>1 DEF Parts, CallsOK, CreatePublication, Held, Publishing
<1>3. PICK x : x = NewPublication(k)
  OBVIOUS
<1>4. /\ End(c) /\ UNCHANGED <<revisions, reviews, deployments, errors>>
      /\ publications' = Append(publications, x)
  BY <1>1, <1>3 DEF CreatePublication, NewPublication
<1>5. /\ x \in Publication /\ x.review = k.review /\ x.manifest = reviews[k.review].manifest
      /\ x.approvedBy = k.decider /\ x.version = k.version
  BY <1>2, <1>3, NewPublicationRow DEF NewPublication
<1>6. /\ k.review \in DOMAIN reviews /\ k.decider = reviews[k.review].decidedBy /\ k.decider # Null
      /\ reviews[k.review].status = "APPROVED" /\ ~Published(k.review)
  BY <1>2, NewPublicationRow
<1>7. publications \in Seq(Publication)
  BY DEF Parts, Tables, PublicationsOK
<1>8. PICK n : n = Len(publications) + 1
  OBVIOUS
<1>9. /\ publications' \in Seq(Publication) /\ Len(publications') = n /\ Len(publications) \in Nat
      /\ DOMAIN publications' = DOMAIN publications \cup {n} /\ n \notin DOMAIN publications
      /\ publications'[n] = x
      /\ \A i \in DOMAIN publications : publications'[i] = publications[i]
  <2>1. /\ publications' \in Seq(Publication) /\ Len(publications') = n /\ publications'[n] = x
        /\ \A i \in 1..Len(publications) : publications'[i] = publications[i]
    BY <1>4, <1>5, <1>7, <1>8, AppendProperties
  <2>2. Len(publications) \in Nat /\ DOMAIN publications = 1..Len(publications) /\ DOMAIN publications' = 1..n
    BY <1>7, <2>1, LenProperties
  <2> QED
    BY <1>8, <2>1, <2>2
<1>10. /\ VersionsAreNumbered'
       /\ \A a \in Artifacts : reviews[k.review].manifest[a] = 0 => Numbered(a)' = Numbered(a)
  BY <1>2, <1>4, <1>5, VersionsGrow DEF Parts, Tables
<1>11. PublishedWasApproved'
  <2> SUFFICES ASSUME NEW i \in DOMAIN publications'
               PROVE  /\ reviews[publications'[i].review].status = "APPROVED"
                      /\ publications'[i].approvedBy = reviews[publications'[i].review].decidedBy
                      /\ publications'[i].approvedBy # Null
                      /\ publications'[i].manifest = reviews[publications'[i].review].manifest
    BY <1>4 DEF PublishedWasApproved
  <2>1. CASE i = n
    BY <1>5, <1>6, <1>9, <2>1
  <2>2. CASE i \in DOMAIN publications
    BY <1>9, <2>2 DEF Parts, Tables, PublicationsOK, PublicationsAreEarned, PublishedWasApproved
  <2> QED
    BY <1>9, <2>1, <2>2
<1>12. OnePublicationPerReview'
  <2>1. \A i \in DOMAIN publications : publications'[i].review # x.review
    BY <1>5, <1>6, <1>9 DEF Published
  <2>2. \A i, j \in DOMAIN publications : publications'[i].review = publications'[j].review => i = j
    BY <1>9 DEF Parts, Tables, PublicationsOK, PublicationsAreEarned, OnePublicationPerReview
  <2> QED
    BY <1>9, <2>1, <2>2 DEF OnePublicationPerReview
<1>13. PublicationsOK'
  <2>1. \A i \in DOMAIN publications' : publications'[i].review \in DOMAIN reviews'
    BY <1>4, <1>5, <1>6, <1>9 DEF Parts, Tables, PublicationsOK
  <2> QED
    BY <1>9, <1>10, <1>11, <1>12, <2>1 DEF PublicationsOK, PublicationsAreEarned
<1>14. RevisionsOK' /\ ReviewsOK' /\ Grown
  BY <1>4, NoneSaved, NoneReviewed DEF Parts, Tables
<1>15. deployments' \in Seq(1..Len(publications'))
  <2>1. deployments \in Seq(1..Len(publications))
    BY DEF Parts, Tables
  <2>2. 1..Len(publications) \subseteq 1..Len(publications')
    BY <1>8, <1>9
  <2> QED
    BY <1>4, <2>1, <2>2, SeqMonotonic
<1>16. MovesTo(c, Idle) /\ call'[c] = Idle /\ \A d \in Calls \ {c} : call'[d] = call[d]
  BY <1>4, Ends DEF Parts, CallsOK, End
<1>17. RoomForReviews'
  BY <1>4, <1>16, IdleIsCall, RoomWhenMoved DEF Parts, Tables
<1>18. LocksExclude' /\ call' \in [Calls -> Call]
  BY <1>16, LocksMove DEF Parts, CallsOK, MovesTo
<1>19. (RequestOK(call[c]) /\ PublishOK(call[c]))'
  BY <1>16, IdleIsCall DEF RequestOK, PublishOK
<1>20. ASSUME NEW d \in Calls \ {c} PROVE (RequestOK(call[d]) /\ PublishOK(call[d]))'
  <2>1. PICK j : j = call[d]
    OBVIOUS
  <2>2. j \in Call /\ RequestOK(j) /\ PublishOK(j) /\ j = call'[d]
    BY <1>16, <2>1 DEF Parts, CallsOK
  <2>3. RequestOK(j)'
    BY <1>4, <2>2 DEF RequestOK, MayReview, Head_, At
  <2>4. PublishOK(j)'
    <3> SUFFICES ASSUME j.stage \in {"publishing", "locking", "inserting"} PROVE PublishOK(j)'
      BY DEF PublishOK
    <3>1. j.stage \in {"locking", "inserting"} => j.review # k.review
      BY <1>1, <1>2, <2>1 DEF Parts, CallsOK, LocksExclude, Publishing
    <3>2. j.stage \in {"locking", "inserting"} => ~Published(j.review)'
      BY <1>5, <1>9, <2>2, <3>1 DEF PublishOK, Published
    <3>3. Eligible(j)' = Eligible(j) /\ Subjects(j.review)' = Subjects(j.review)
      BY <1>4 DEF Eligible, ManifestValid, At, Subjects
    <3>4. ASSUME j.stage = "inserting", NEW a \in Artifacts, reviews[j.review].manifest[a] # 0
          PROVE  Numbered(a)' = Numbered(a)
      <4>1. a \in j.held
        BY <2>2, <3>4 DEF PublishOK, Subjects
      <4>2. Held(d) = j.held
        BY <2>1, <3>4 DEF Held
      <4>3. a \notin k.held
        BY <1>2, <4>1, <4>2 DEF Parts, CallsOK, LocksExclude
      <4>4. reviews[k.review].manifest[a] = 0
        BY <1>2, <4>3 DEF PublishOK, Subjects
      <4> QED
        BY <1>10, <4>4
    <3>5. ASSUME j.stage = "inserting", NEW a \in Artifacts
          PROVE  (j.version[a] = IF reviews[j.review].manifest[a] = 0
                                   THEN 0 ELSE Cardinality(Numbered(a)) + 1)'
      <4>1. j.version[a] = IF reviews[j.review].manifest[a] = 0
                             THEN 0 ELSE Cardinality(Numbered(a)) + 1
        BY <2>2, <3>5 DEF PublishOK
      <4> QED
        BY <1>4, <3>4, <3>5, <4>1
    <3> QED
      BY <1>4, <2>2, <3>2, <3>3, <3>5 DEF PublishOK
  <2> QED
    BY <2>2, <2>3, <2>4 DEF RequestOK, PublishOK, MayReview, Eligible
<1>21. CallsOK'
  BY <1>18, <1>19, <1>20 DEF CallsOK
<1> QED
  BY <1>4, <1>13, <1>14, <1>15, <1>17, <1>21 DEF Parts, Tables

LEMMA NoneCalled ==
  ASSUME RevisionsOK, ReviewsOK, CallsOK, UNCHANGED <<revisions, reviews, publications, call>>
  PROVE  CallsOK'
<1>1. ASSUME NEW d \in Calls PROVE (RequestOK(call[d]) /\ PublishOK(call[d]))'
  <2>1. PICK j : j = call[d]
    OBVIOUS
  <2>2. j \in Call /\ RequestOK(j) /\ PublishOK(j) /\ j = call'[d]
    BY <2>1 DEF CallsOK
  <2>3. RequestOK(j)'
    BY <2>2 DEF RequestOK, MayReview, Head_, At
  <2>4. j.stage \in {"publishing", "locking", "inserting"} => j.review \in DOMAIN reviews'
    BY <2>2 DEF PublishOK
  <2>5. PublishOK(j)'
    BY <2>2, <2>4, NoneSaved, PublishStays
  <2> QED
    BY <2>2, <2>3, <2>5 DEF RequestOK, PublishOK, MayReview, Eligible
<1>2. LocksExclude'
  BY DEF CallsOK, LocksExclude, Held, Publishing
<1> QED
  BY <1>1, <1>2 DEF CallsOK

LEMMA DeployPublicationKeeps ==
  ASSUME Parts, NEW i \in DOMAIN publications, DeployPublication(i)
  PROVE  Parts'
<1>1. UNCHANGED <<revisions, reviews, publications, call, errors>> /\ deployments' = Append(deployments, i)
  BY DEF DeployPublication
<1>2. RevisionsOK' /\ ReviewsOK' /\ Grown
  BY <1>1, NoneSaved, NoneReviewed DEF Parts, Tables
<1>3. PublicationsOK'
  BY <1>1, PublicationsStand DEF Parts, Tables
<1>4. deployments' \in Seq(1..Len(publications'))
  <2>1. i \in 1..Len(publications)
    BY LenProperties DEF Parts, Tables, PublicationsOK
  <2> QED
    BY <1>1, <2>1, AppendProperties DEF Parts, Tables
<1>5. RoomForReviews'
  BY <1>1 DEF Parts, RoomForReviews, Requesting
<1>6. CallsOK'
  BY <1>1, NoneCalled DEF Parts, Tables
<1> QED
  BY <1>1, <1>2, <1>3, <1>4, <1>5, <1>6 DEF Parts, Tables

LEMMA NothingHappens ==
  ASSUME Parts, UNCHANGED vars
  PROVE  Parts'
<1>1. UNCHANGED <<revisions, reviews, publications, deployments, call, errors>>
  BY DEF vars
<1>2. Tables' /\ CallsOK'
  BY <1>1, TablesStand, NoneCalled DEF Parts, Tables
<1>3. RoomForReviews' /\ errors' \subseteq Error
  BY <1>1 DEF Parts, RoomForReviews, Requesting
<1> QED
  BY <1>2, <1>3 DEF Parts

-----------------------------------------------------------------------------
(* The theorems.                                                            *)

LEMMA NumberedNone == Cardinality({}) = 0 /\ 1..0 = {}
BY FS_EmptySet

LEMMA InitIsSound ==
  ASSUME Init
  PROVE  IInv
<1>1. PICK d \in Drafts : revisions = [a \in Artifacts |-> <<d[a]>>]
  BY DEF Init
<1>2. \A a \in Artifacts : d[a] \in Revision
  <2>1. d \in [Artifacts -> [source : Sources, author : Authors]]
    BY InputsAssumption
  <2> QED
    BY <2>1, Numbers DEF Revision
<1>3. \A a \in Artifacts : revisions[a] \in Seq(Revision) /\ Head_(a) = 1
  BY <1>1, <1>2 DEF Head_
<1>4. RevisionsOK
  <2>1. revisions \in [Artifacts -> Seq(Revision)]
    BY <1>1, <1>3
  <2>2. \A a \in Artifacts : Head_(a) \in 1..MaxRevisions
    BY <1>3, Numbers
  <2>3. \A a \in Artifacts : \A m, n \in 1..Head_(a) : m = n
    BY <1>3
  <2> QED
    BY <2>1, <2>2, <2>3 DEF RevisionsOK
<1>5. reviews = <<>> /\ publications = <<>> /\ deployments = <<>> /\ errors = {}
  BY DEF Init
<1>6. DOMAIN reviews = {} /\ DOMAIN publications = {}
  BY <1>5
<1>7. ReviewsOK
  BY <1>5, <1>6 DEF ReviewsOK
<1>8. \A a \in Artifacts : Numbered(a) = {}
  BY <1>6 DEF Numbered
<1>9. \A a \in Artifacts : {publications[i].version[a] : i \in Numbered(a)} = 1..Cardinality(Numbered(a))
  BY <1>8, NumberedNone
<1>10. VersionsAreNumbered
  BY <1>9 DEF VersionsAreNumbered, Numbered
<1>11. PublicationsOK
  BY <1>5, <1>6, <1>10 DEF PublicationsOK, PublicationsAreEarned, PublishedWasApproved, OnePublicationPerReview
<1>12. \A c \in Calls : call[c] = Idle
  BY DEF Init
<1>13. CallsOK
  <2>1. call \in [Calls -> Call]
    BY IdleIsCall DEF Init
  <2>2. \A c \in Calls : RequestOK(call[c]) /\ PublishOK(call[c]) /\ Held(c) = {} /\ ~Publishing(c)
    BY <1>12, IdleIsCall DEF Held, Publishing
  <2> QED
    BY <2>1, <2>2 DEF CallsOK, LocksExclude
<1>14. RoomForReviews
  <2>1. Requesting = {}
    BY <1>12, IdleIsCall DEF Requesting
  <2>2. Cardinality(Requesting) = 0 /\ Len(reviews) = 0
    BY <1>5, <2>1, FS_EmptySet
  <2> QED
    BY <2>2, Numbers DEF RoomForReviews
<1> QED
  BY <1>4, <1>5, <1>7, <1>11, <1>13, <1>14 DEF IInv

LEMMA NextIsSound ==
  ASSUME IInv, [Next]_vars
  PROVE  IInv'
<1> USE PartsOfIInv
<1>1. Parts
  OBVIOUS
<1>2. ASSUME NEW e \in Edits, SaveRevision(e) PROVE Parts'
  BY <1>1, <1>2, SaveRevisionKeeps
<1>3. ASSUME NEW c \in Calls,
             \/ \E q \in Requests : BeginReview(c, q)
             \/ LockRoot(c)
             \/ CreateReview(c)
             \/ \E r \in DOMAIN reviews : BeginPublish(c, r)
             \/ LockReview(c)
             \/ LockArtifact(c)
             \/ NumberVersions(c)
             \/ CreatePublication(c)
             \/ DeadlockAbort(c)
      PROVE  Parts'
  BY <1>1, <1>3, BeginReviewKeeps, LockRootKeeps, CreateReviewKeeps, BeginPublishKeeps, LockReviewKeeps,
     LockArtifactKeeps, NumberVersionsKeeps, CreatePublicationKeeps, DeadlockAbortKeeps
<1>4. ASSUME NEW r \in DOMAIN reviews,
             \/ AddComment(r)
             \/ \E m \in 1..MaxComments : ResolveComment(r, m)
             \/ \E p \in Reviewers \cup Admins, outcome \in {"APPROVED", "CHANGES_REQUESTED"} :
                  DecideReview(r, p, outcome)
             \/ \E p \in People : CancelReview(r, p)
      PROVE  Parts'
  BY <1>1, <1>4, AddCommentKeeps, ResolveCommentKeeps, DecideReviewKeeps, CancelReviewKeeps
<1>5. ASSUME NEW i \in DOMAIN publications, DeployPublication(i) PROVE Parts'
  BY <1>1, <1>5, DeployPublicationKeeps
<1>6. ASSUME UNCHANGED vars PROVE Parts'
  BY <1>1, <1>6, NothingHappens
<1>7. Parts'
  BY <1>2, <1>3, <1>4, <1>5, <1>6 DEF Next
<1>8. IInv' <=> Parts'
  BY DEF IInv, Parts, Tables
<1> QED
  BY <1>7, <1>8

\* The step formula of PinsTheHeads.
NewReviewsPinHeads ==
  \A r \in DOMAIN reviews' \ DOMAIN reviews : \A a \in Artifacts :
    reviews'[r].manifest[a] \in {0, Head_(a)}

LEMMA StepsPinHeads ==
  ASSUME IInv, [Next]_vars
  PROVE  NewReviewsPinHeads
<1>1. CASE DOMAIN reviews' = DOMAIN reviews
  BY <1>1 DEF NewReviewsPinHeads
<1>2. CASE \E c \in Calls : CreateReview(c)
  <2>1. PICK c \in Calls : CreateReview(c)
    BY <1>2
  <2>2. PICK k : k = call[c]
    OBVIOUS
  <2>3. k \in Call /\ k.stage = "pinning" /\ RequestOK(k)
    BY <2>1, <2>2 DEF IInv, CallsOK, CreateReview
  <2>4. UNCHANGED reviews \/ (~Moved(k) /\ Resolves(k) /\ reviews' = Append(reviews, NewReview(k)))
    BY <2>1, <2>2 DEF CreateReview, NewReview
  <2>5. CASE ~Moved(k) /\ Resolves(k) /\ reviews' = Append(reviews, NewReview(k))
    <3>1. PICK x : x = NewReview(k)
      OBVIOUS
    <3>2. x \in Review /\ \A a \in Artifacts : x.manifest[a] \in {0, Head_(a)}
      BY <2>3, <2>5, <3>1, PinsAreHeads DEF IInv, NewReview
    <3>3. /\ Len(reviews) \in Nat /\ DOMAIN reviews = 1..Len(reviews)
          /\ DOMAIN reviews' = 1..(Len(reviews) + 1) /\ reviews'[Len(reviews) + 1] = x
      BY <2>5, <3>1, <3>2, ReviewAppended DEF IInv
    <3>4. \A r \in DOMAIN reviews' \ DOMAIN reviews : r = Len(reviews) + 1
      BY <3>3
    <3> QED
      BY <3>2, <3>3, <3>4 DEF NewReviewsPinHeads
  <2> QED
    BY <1>1, <2>4, <2>5
<1>3. ASSUME NEW e \in Edits, SaveRevision(e) PROVE DOMAIN reviews' = DOMAIN reviews
  BY <1>3 DEF SaveRevision
<1>4. ASSUME NEW c \in Calls,
             \/ \E q \in Requests : BeginReview(c, q)
             \/ LockRoot(c)
             \/ \E r \in DOMAIN reviews : BeginPublish(c, r)
             \/ LockReview(c)
             \/ LockArtifact(c)
             \/ NumberVersions(c)
             \/ CreatePublication(c)
             \/ DeadlockAbort(c)
      PROVE  DOMAIN reviews' = DOMAIN reviews
  <2>1. UNCHANGED reviews
    BY <1>4 DEF BeginReview, LockRoot, BeginPublish, LockReview, LockArtifact, NumberVersions,
                CreatePublication, DeadlockAbort
  <2> QED
    BY <2>1
<1>5. ASSUME NEW r \in DOMAIN reviews,
             \/ AddComment(r)
             \/ \E m \in 1..MaxComments : ResolveComment(r, m)
             \/ \E p \in Reviewers \cup Admins, outcome \in {"APPROVED", "CHANGES_REQUESTED"} :
                  DecideReview(r, p, outcome)
             \/ \E p \in People : CancelReview(r, p)
      PROVE  DOMAIN reviews' = DOMAIN reviews
  BY <1>5 DEF AddComment, ResolveComment, DecideReview, CancelReview
<1>6. ASSUME NEW i \in DOMAIN publications, DeployPublication(i) PROVE DOMAIN reviews' = DOMAIN reviews
  BY <1>6 DEF DeployPublication
<1>7. ASSUME UNCHANGED vars PROVE DOMAIN reviews' = DOMAIN reviews
  BY <1>7 DEF vars
<1> QED
  BY <1>1, <1>2, <1>3, <1>4, <1>5, <1>6, <1>7 DEF Next

\* Tables, locks and transactions stay sound whatever runs at once.
THEOREM InductiveInvariant == Spec => []IInv
<1>1. Init => IInv
  BY InitIsSound
<1>2. IInv /\ [Next]_vars => IInv'
  BY NextIsSound
<1> QED
  BY <1>1, <1>2, PTL DEF Spec

\* Every row has its type, reviews pin revisions that exist and publications
\* name reviews that exist (createReview, createPublication).
THEOREM GovernanceIsTyped == Spec => []TypeOK
<1>1. IInv => TypeOK
  <2> SUFFICES ASSUME IInv PROVE TypeOK
    OBVIOUS
  <2>1. \A r \in DOMAIN reviews, a \in Artifacts : reviews[r].manifest[a] <= Len(revisions[a])
    BY DEF IInv, ReviewsOK, ReviewOK, Head_
  <2> QED
    BY <2>1 DEF TypeOK, IInv, RevisionsOK, ReviewsOK, PublicationsOK, CallsOK
<1> QED
  BY <1>1, InductiveInvariant, PTL

\* What is published is what was approved, once, and versions are numbered
\* without gap or repetition, however publications race (createPublication).
THEOREM ReleasesAreEarned == Spec => []PublicationsAreEarned
<1>1. IInv => PublicationsAreEarned
  BY DEF IInv, PublicationsOK
<1> QED
  BY <1>1, InductiveInvariant, PTL

\* An approval is by an assigned and independent person, of a valid manifest
\* with no discussion left open (decideReview).
THEOREM ReviewersAreIndependent == Spec => []ApprovalIsIndependent
<1>1. IInv => ApprovalIsIndependent
  BY DEF IInv, ReviewsOK, ReviewOK, ApprovalIsIndependent
<1> QED
  BY <1>1, InductiveInvariant, PTL

\* A source of an artifact is reviewed once: revisions have different sources,
\* and no revision is the root of two reviews (saveArtifact, createReview).
THEOREM OneVerdictPerSource == Spec => []SourceReviewedOnce
<1>1. IInv => SourceReviewedOnce
  <2> SUFFICES ASSUME IInv, NEW r \in DOMAIN reviews, NEW s \in DOMAIN reviews,
                      reviews[r].artifact = reviews[s].artifact,
                      At(reviews[r].artifact, reviews[r].manifest[reviews[r].artifact]).source
                        = At(reviews[s].artifact, reviews[s].manifest[reviews[s].artifact]).source
               PROVE  r = s
    BY DEF SourceReviewedOnce
  <2>1. PICK a \in Artifacts : a = reviews[r].artifact
    BY ReviewRow DEF IInv
  <2>2. reviews[r].manifest[a] \in 1..Head_(a) /\ reviews[s].manifest[a] \in 1..Head_(a)
    BY <2>1, ReviewRow DEF IInv
  <2>3. reviews[r].manifest[a] = reviews[s].manifest[a]
    BY <2>1, <2>2 DEF IInv, RevisionsOK
  <2> QED
    BY <2>1, <2>3 DEF IInv, ReviewsOK
<1> QED
  BY <1>1, InductiveInvariant, PTL

\* A review pins the draft heads of the moment it is created, of its root and of
\* what its root references (createReview).
THEOREM ReviewsPinHeads == Spec => PinsTheHeads
<1>1. IInv /\ [Next]_vars => NewReviewsPinHeads
  BY StepsPinHeads
<1>2. Spec => [][NewReviewsPinHeads]_vars
  BY <1>1, InductiveInvariant, PTL DEF Spec
<1> QED
  BY <1>2 DEF PinsTheHeads, NewReviewsPinHeads

=============================================================================
