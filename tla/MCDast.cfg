SPECIFICATION Spec
CONSTANTS
    None = None
    Calls = {c1, c2}
    Requests <- MCRequests
    Jobs <- MCJobs
    Profiles <- MCProfiles
    Deployments <- MCDeployments
    LeaseTime = 1
    CacheTime = 2
    FetchTimeout = 1
    TokenLife = 3
    Margin = 0
    StaticLifetime = 3
    MaxTime = 3
    MaxKeys = 2
    MaxDeployments = 1
SYMMETRY MCSymmetry
INVARIANT OneSessionPerJob
PROPERTY ImplementsOneSession
PROPERTY RetiredKeyIsRefused
CHECK_DEADLOCK FALSE
