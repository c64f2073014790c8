------------------------------ MODULE AiArtifacts ------------------------------
(***************************************************************************)
(* The artifacts of AI experiences: the tool calls of the assistant in the *)
(* pages (shape_main_process, create_or_update_form) and the route that    *)
(* generates, saves or creates an artifact and links it, beside people who *)
(* save the same artifacts in the editors.  Each transaction of the route  *)
(* is a step, and its reads before them are one.  A decision is shaped as  *)
(* a form is and is left out.                                              *)
(***************************************************************************)
EXTENDS Naturals, Sequences, FiniteSets, SequencesExt

CONSTANTS
  Pages,          \* open pages, each of one experience
  Experiences,
  Names,          \* names that the assistant thinks of
  Texts,          \* sources that are generated
  MaxArtifacts,   \* bound: artifacts of the project
  MaxRevisions,   \* bound: revisions of an artifact
  MaxCalls,       \* bound: tool calls of all pages
  None

Roles == {"MAIN", "FORM"}
Artifacts == 1..MaxArtifacts
Numbers == 1..MaxRevisions

\* What a person writes is never what is generated.
Sources == Texts \cup Numbers

\* normalizeStableKey: the key that a name becomes.  A key that is sent back
\* is normal and stays as it is.
Plain(name) == <<name>>

\* experienceScopedKey: a suffix made of the experience behind whatever key
\* was asked for (names are short enough to be kept whole).
Scoped(key, e) == Append(key, e)

Idle == [phase |-> "idle", role |-> None, key |-> None, source |-> None, artifact |-> None, number |-> None]

VARIABLES
  artifacts,      \* the project's artifacts in the order they were created
  links,          \* ai_experience_artifacts of an experience, by created_at
  at,             \* the experience of a page
  call,           \* the tool call of a page that is under way
  answered,       \* history: the results that assistants were given
  calls           \* tool calls so far

vars == <<artifacts, links, at, call, answered, calls>>

Keys == Seq(Names \cup Experiences)

TypeOK ==
  /\ artifacts \in Seq([key : Keys, role : Roles, revisions : Seq(Sources)])
  /\ links \in [Experiences -> Seq(Artifacts)]
  /\ at \in [Pages -> Experiences]
  /\ call \in [Pages -> [phase : {"idle", "sent", "save", "create", "scoped", "link", "answer"},
                         role : Roles \cup {None}, key : Keys \cup {None}, source : Texts \cup {None},
                         artifact : Artifacts \cup {None}, number : Numbers \cup {None}]]
  /\ answered \subseteq [experience : Experiences, role : Roles, key : Keys, artifact : Artifacts,
                         number : Numbers, source : Texts]
  /\ calls \in 0..MaxCalls

-----------------------------------------------------------------------------
Number(a) == Len(artifacts[a].revisions)
Source(a, number) == artifacts[a].revisions[number]
Taken(key) == \E a \in DOMAIN artifacts : artifacts[a].key = key

\* findAiExperienceArtifact: of the experience's links with the role and, but
\* for the main process, exactly the key that was sent, the oldest.
Fitting(e, role, key) ==
  {n \in DOMAIN links[e] : /\ artifacts[links[e][n]].role = role
                           /\ role = "MAIN" \/ artifacts[links[e][n]].key = key}
Found(e, role, key) ==
  LET fits == Fitting(e, role, key) IN IF fits = {} THEN None ELSE links[e][Min(fits)]

\* hydrateExperience: what the pages, and their assistants, are shown.
Shown(e) == {links[e][n] : n \in DOMAIN links[e]}

\* What an assistant may ask for: a key of its own, or any that there is, be
\* it one it was shown or one it was answered.
Askable == {Plain(name) : name \in Names} \cup {artifacts[a].key : a \in DOMAIN artifacts}

\* saveArtifactRevision: the source of the head is no new revision, another
\* base is a conflict, the source of an earlier revision a unique violation.
Outcome(a, base, source) ==
  IF Source(a, Number(a)) = source THEN "same"
  ELSE IF base = Number(a) /\ \A n \in 1..Number(a) : Source(a, n) # source THEN "new" ELSE "refused"

SaveRevision(a, base, source) ==
  /\ Outcome(a, base, source) = "new" => Number(a) < MaxRevisions
  /\ artifacts' = IF Outcome(a, base, source) = "new"
                  THEN [artifacts EXCEPT ![a].revisions = Append(@, source)]
                  ELSE artifacts

-----------------------------------------------------------------------------
\* A key may be taken by an artifact that no experience has made.
Init ==
  /\ artifacts \in {<<>>} \cup {<<[key |-> Plain(name), role |-> "FORM",
                                   revisions |-> <<1>>]>> : name \in Names}
  /\ links = [e \in Experiences |-> <<>>]
  /\ at \in [Pages -> Experiences]
  /\ call = [p \in Pages |-> Idle]
  /\ answered = {}
  /\ calls = 0

Become(p, record) == call' = [call EXCEPT ![p] = record]

\* The assistant calls a tool.  A page has one call at a time.
Shape(p, role, key) ==
  /\ call[p] = Idle /\ calls < MaxCalls
  /\ Become(p, [Idle EXCEPT !.phase = "sent", !.role = role, !.key = key])
  /\ calls' = calls + 1
  /\ UNCHANGED <<artifacts, links, at, answered>>

\* The source is generated (with the forms and decisions that the experience
\* has now) and the artifact to revise is looked up, with its head.  A source
\* that is not valid is answered with 422: see Fail.
Read(p, source) ==
  /\ call[p].phase = "sent"
  /\ LET c == call[p]
         a == Found(at[p], c.role, c.key)
     IN Become(p, IF a = None THEN [c EXCEPT !.phase = "create", !.source = source]
                  ELSE [c EXCEPT !.phase = "save", !.source = source, !.artifact = a, !.number = Number(a)])
  /\ UNCHANGED <<artifacts, links, at, answered, calls>>

\* The route goes on with the artifact as it was saved.
Save(p) ==
  /\ call[p].phase = "save"
  /\ LET c == call[p]
     IN /\ SaveRevision(c.artifact, c.number, c.source)
        /\ Become(p, IF Outcome(c.artifact, c.number, c.source) = "refused" THEN Idle
                     ELSE [c EXCEPT !.phase = "answer", !.number = Len(artifacts'[c.artifact].revisions)])
  /\ UNCHANGED <<links, at, answered, calls>>

\* createArtifact under the key that was asked for, then under the scoped one.
Create(p) ==
  /\ call[p].phase \in {"create", "scoped"}
  /\ LET c == call[p]
         key == IF c.phase = "create" THEN c.key ELSE Scoped(c.key, at[p])
     IN \/ /\ Taken(key)
           /\ Become(p, IF c.phase = "create" THEN [c EXCEPT !.phase = "scoped"] ELSE Idle)
           /\ UNCHANGED artifacts
        \/ /\ ~Taken(key) /\ Len(artifacts) < MaxArtifacts
           /\ artifacts' = Append(artifacts, [key |-> key, role |-> c.role,
                                              revisions |-> <<c.source>>])
           /\ Become(p, [c EXCEPT !.phase = "link", !.artifact = Len(artifacts'), !.number = 1])
  /\ UNCHANGED <<links, at, answered, calls>>

\* ai_experience_one_main_idx
MayLink(e, role) == role = "MAIN" => \A n \in DOMAIN links[e] : artifacts[links[e][n]].role # "MAIN"

\* A link that is refused leaves the new artifact behind.
Link(p) ==
  /\ call[p].phase = "link"
  /\ LET c == call[p]
     IN IF MayLink(at[p], c.role)
        THEN links' = [links EXCEPT ![at[p]] = Append(@, c.artifact)] /\ Become(p, [c EXCEPT !.phase = "answer"])
        ELSE UNCHANGED links /\ Become(p, Idle)
  /\ UNCHANGED <<artifacts, at, answered, calls>>

\* Mutant: the result repeats the key that was asked for.
AsAsked(c) == c.key

\* artifactKey: the key of the artifact.
Named(c) == artifacts[c.artifact].key

\* The assistant has the result.
Answer(p) ==
  /\ call[p].phase = "answer"
  /\ LET c == call[p]
     IN answered' = answered \cup {[experience |-> at[p], role |-> c.role, key |-> Named(c), artifact |-> c.artifact,
                                    number |-> c.number, source |-> c.source]}
  /\ Become(p, Idle)
  /\ UNCHANGED <<artifacts, links, at, calls>>

\* The source is not valid, the server stops, or the answer is lost: the tool
\* call fails, whatever it has done.
Fail(p) ==
  /\ call[p] # Idle
  /\ Become(p, Idle)
  /\ UNCHANGED <<artifacts, links, at, answered, calls>>

\* Somebody saves in an editor, from the head.
Edit(a) ==
  /\ a \in DOMAIN artifacts
  /\ SaveRevision(a, Number(a), Number(a) + 1)
  /\ UNCHANGED <<links, at, call, answered, calls>>

Next ==
  \/ \E p \in Pages :
       \/ \E role \in Roles, key \in Askable : Shape(p, role, key)
       \/ \E source \in Texts : Read(p, source)
       \/ Save(p) \/ Create(p) \/ Link(p) \/ Answer(p) \/ Fail(p)
  \/ \E a \in Artifacts : Edit(a)

Spec == Init /\ [][Next]_vars

-----------------------------------------------------------------------------
\* What an experience shows, under its own key or one that it fell back to, is
\* what a call with that key revises: no second main process hides behind the
\* first, and no key leads to another artifact.
ShownIsRevised ==
  \A e \in Experiences : \A a \in Shown(e) : Found(e, artifacts[a].role, artifacts[a].key) = a

\* What an assistant was told stands: a call with the key of the result revises
\* the artifact of the result, and the revision of the result holds what that
\* call generated, although others create, link and save between its steps.
ResultsStand ==
  \A r \in answered :
    /\ Found(r.experience, r.role, r.key) = r.artifact
    /\ Source(r.artifact, r.number) = r.source

\* Whatever calls raced or broke off, the keys that an assistant is given lead
\* back to the artifacts they were given for.
KeysLeadBack == ShownIsRevised /\ ResultsStand

=============================================================================
