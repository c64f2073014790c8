\* A draft is saved with the source of an earlier revision.
SPECIFICATION Spec
CONSTANTS
  ana = ana
  bo = bo
  cy = cy
  s1 = s1
  s2 = s2
  s3 = s3
  Artifacts <- BothArtifacts
  Forms <- OneForm
  Sources = {s1, s2, s3}
  Valid <- GoodSources
  References <- ProcessReferences
  Fits <- FittingSources
  People = {ana, bo, cy}
  Authors = {ana, bo}
  Reviewers = {bo, cy}
  Admins = {bo}
  Calls = {c1}
  Drafts <- FirstDrafts
  Edits <- SavedEdits
  Requests <- AskedReviews
  MaxRevisions = 3
  MaxReviews = 1
  MaxComments = 0
  MaxDeployments = 0
  Null = Null

CHECK_DEADLOCK FALSE
INVARIANT EverySaveIsKept
