SPECIFICATION RolloutSpec
CONSTANTS
    None = None
    Settings <- MCUnedited
    Outcomes <- MCOutcomes
    Pins = {p1}
    Breakages <- MCBreakages
    MinimumDays = 4
    MaxAge = 6
    MaxListed = 3
    SuppressionExpiry = 99
    HasImage = FALSE
    NewestJobFirst = TRUE
    MaxCommits = 4
    MaxAttempts = 3
    MaxWaits = 2
    MaxPulls = 1
PROPERTY ObservationIsReportOnly
CHECK_DEADLOCK FALSE
