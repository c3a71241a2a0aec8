SPECIFICATION Spec
CONSTANTS
  f1 = f1
  f2 = f2
  p1 = p1
  p2 = p2
  p3 = p3
  o1 = o1
  c1 = c1
  Fingerprints = {f1}
  Passes = {p1, p2, p3}
  NoPass = NoPass
  OpenContents = {o1}
  ClosedContents = {c1}
  None = None
  Providers = {"github-issues", "jira"}
  PassLimit = 1
  MaxAttempts = 2
  MaxIssues = 2
  MaxMerges = 4
SYMMETRY PassSymmetry
INVARIANTS OneIssuePerFinding IssueShowsTicket ClaimsExclude
PROPERTIES LateResultIsDiscarded
CHECK_DEADLOCK FALSE
