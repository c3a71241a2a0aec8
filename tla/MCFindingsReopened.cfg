SPECIFICATION Spec
CONSTANTS
  f1 = f1
  f2 = f2
  s1 = s1
  s2 = s2
  w1 = w1
  w2 = w2
  Fingerprints = {f1, f2}
  Streams = {s1, s2}
  Workers = {w1, w2}
  NoWorker = NoWorker
  Severe = {f1}
  StreamLimit = 1
  RecordLimit = 1
  Scans <- SmallScans
  Policies <- SmallPolicies
  MaxRun = 2
  MaxMerges = 3
  MaxEvents = 1
SYMMETRY WorkerSymmetry
PROPERTIES DelayedRunReopensNothing
CHECK_DEADLOCK FALSE
