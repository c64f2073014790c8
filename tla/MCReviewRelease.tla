---------------------------- MODULE MCReviewRelease ----------------------------
\* A process (2) that references a decision or form (1), and three people: a
\* designer, an administrator who also writes, and a reviewer.
EXTENDS ReviewRelease, TLC

CONSTANTS ana, bo, cy, s1, s2, s3

\* s1 and s3 reference artifact 1; s3 is not valid, and s2 does not fit s1.
ProcessReferences == [s \in Sources |-> IF s = s2 THEN {} ELSE {1}]
GoodSources == {s1, s2}
FittingSources == {<<s1, s1>>}
NoForms == {}
OneForm == {1}
BothArtifacts == {1, 2}

Draft(a1, a2) == 1 :> [source |-> s1, author |-> a1] @@ 2 :> [source |-> s1, author |-> a2]
Edit(a, p, s) == [artifact |-> a, author |-> p, source |-> s]
Ask(p, a, n, rs) == [by |-> p, artifact |-> a, revision |-> n, reviewers |-> rs]

\* bo wrote the decision and reviews the process that references it.
FirstDrafts == {Draft(bo, ana)}
\* A new source, the first source again, an invalid source, a moving reference.
SavedEdits == {Edit(2, ana, s2), Edit(2, ana, s1), Edit(2, bo, s3), Edit(1, bo, s2)}
\* Every revision of the process, by two people, and the decision on its own.
AskedReviews == {Ask(ana, 2, n, {bo, cy}) : n \in 1..3} \cup {Ask(bo, 2, 2, {cy}), Ask(ana, 1, 1, {cy})}

SymCalls == Permutations(Calls)

=============================================================================
