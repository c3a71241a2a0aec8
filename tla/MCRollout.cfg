SPECIFICATION RolloutSpec
CONSTANTS
    None = None
    Settings <- MCSettings
    Outcomes <- MCOutcomes
    Pins = {p1}
    Breakages <- MCBreakages
    MinimumDays = 4
    MaxAge = 3
    MaxListed = 3
    SuppressionExpiry = 99
    HasImage = FALSE
    NewestJobFirst = FALSE
    MaxCommits = 4
    MaxAttempts = 3
    MaxWaits = 1
    MaxPulls = 2
INVARIANT EnforcedRowIsVerified
PROPERTY EnforcementIsEarned
PROPERTY DiagnosisIsHonest
PROPERTY DraftIsVerifiable
CHECK_DEADLOCK FALSE
