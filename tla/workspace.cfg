\* Eight components, each on an instance of its own.
SPECIFICATION WorkspaceSpec
CONSTANTS
  e1 = e1
  e2 = e2
  e3 = e3
  e4 = e4
  Elements = {e1, e2, e3, e4}
  Models <- SmallModels
  None = None
  Error = Error
  Failing = Failing
  p1 = p1
  p2 = p2
  c1 = c1
  c2 = c2
  c3 = c3
  t1 = t1
  t2 = t2
  t3 = t3
  x = x
  y = y
  Files <- FilesOfOneOrTwo
  FieldTexts = {"none", "good"}
  MaxCommands <- CommandsOfOneApply
  Tables <- SmallTables
  InputNames = {"amount", "risk"}
  InputValues = {"lo", "hi"}
  Outputs = {"yes", "no"}
  Pages = {p1, p2}
  Experiences = {"e1"}
  ArtifactNames = {"k1"}
  Generated = {t1, t2}
  MaxArtifacts = 3
  MaxRevisions = 2
  MaxCalls = 3
  MaxQuestions = 1
  Options = {x, y}
  Emails = {"owner", "admin", "new"}
  Workspaces = {1, 2}
  Founders <- OwnerAndAdmin
  AcceptRequests = {p1, p2}
  MaxInvitations = 2
  MaxAccounts = 4
  Drafts = {t1, t2, t3}
  Waits <- OneOrTwoWaits
  UsesDecision = {t1, t3}
  MaxDrafts = 4
  MaxDecisions = 2
  Calls = {c1, c2, c3}
  CallerScopes = {1, None}
  Contents = {"in"}
  BusinessKeys = {"b"}
  IdempotencyKeys = {"k"}
  Asked <- Asking
SYMMETRY Symmetric
CHECK_DEADLOCK FALSE
INVARIANTS AcceptsExactlyLines ShownIsRun AppliedIsRun WaitsAreBound DecidedByTheTable KeysLeadBack ToldIsOnRecord AcceptedCanSignIn AuthorityIsHandedOn RetriesAgree JourneyIsOnePath
