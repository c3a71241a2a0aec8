SPECIFICATION SweepSpec
CONSTANTS
    None = None
    Procs = {p1, p2}
    Repos <- MCRepos
    InitialRecords <- MCInitialRecords
    Generations <- MCGenerations
    Runs <- MCRuns
    Evidence <- MCEvidence
    MaxChanges = 1
    MaxFaults = 1
    IndexWarnAfter = 1
    IndexFailAfter = 2
    ScannerMaxAge = 2
    EvidenceMaxAge = 2
    SmokeMaxAge = 2
    NotifyBefore = 2
INVARIANT AlertsFollowLatestSnapshot
INVARIANT EnforcedMeansProtected
PROPERTY ReportIsOfACompleteSweep
PROPERTY SweepClearsTheDeparted
SYMMETRY Symmetry
