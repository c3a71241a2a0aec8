SPECIFICATION Spec
CONSTANTS
    None = None
    Workers = {w1, w2}
    File <- MCFile
    Start = 2
    End = 2
    Suggestion <- MCSuggestion
    Candidates <- MCCandidates
    Contents <- MCContents
    PageSize = 2
    MaxCommands = 2
    MaxCommits = 2
    MaxPulls = 1
    MaxRuns = 2
    MaxTroubles = 1
SYMMETRY MCSymmetry
INVARIANT RecordedCommitHoldsTheFix
INVARIANT ChecksAreReported
PROPERTY CleanupSparesWriters
CHECK_DEADLOCK FALSE
