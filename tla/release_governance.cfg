\* A process and the decision it references are saved, reviewed and published at once.
SPECIFICATION Spec
CONSTANTS
  ana = ana
  bo = bo
  cy = cy
  s1 = s1
  s2 = s2
  s3 = s3
  Artifacts <- BothArtifacts
  Forms <- NoForms
  Sources = {s1, s2, s3}
  Valid <- GoodSources
  References <- ProcessReferences
  Fits <- FittingSources
  People = {ana, bo, cy}
  Authors = {ana, bo}
  Reviewers = {bo, cy}
  Admins = {bo}
  Calls = {c1, c2}
  Drafts <- FirstDrafts
  Edits <- SavedEdits
  Requests <- AskedReviews
  MaxRevisions = 3
  MaxReviews = 2
  MaxComments = 1
  MaxDeployments = 1
  Null = Null
SYMMETRY SymCalls
CHECK_DEADLOCK FALSE
INVARIANTS PublicationsAreEarned ApprovalIsIndependent SourceReviewedOnce
PROPERTIES PinsTheHeads
