SPECIFICATION Spec
CONSTANTS
  p1 = p1
  p2 = p2
  r1 = r1
  d1 = d1
  d2 = d2
  w1 = w1
  w2 = w2
  None = None
  Pushes = {p1, p2}
  Schedules = {r1}
  Digests = {d1, d2}
  Workers = {w1, w2}
  SastScans = {"semgrep"}
  Blocking = {"critical", "high"}
  RequiredEvidence = {"signature", "image-scan", "sbom"}
  VerifiedOnly = FALSE
  RequireReleaseGate = TRUE
  Scenarios <- FreezeScenario
  MaxTests = 3
SYMMETRY WorkerSymmetry
PROPERTIES FreezeIsNeverHidden
CHECK_DEADLOCK FALSE
