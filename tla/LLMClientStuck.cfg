\* As RequestPath.cfg: a probe that fails before it is sent.
SPECIFICATION FairSpec
CONSTANTS
    FailureThreshold = 2
    SuccessThreshold = 2
    Requests = {"r1", "r2"}
    MaxAttempts = 2
    LocalErrors = TRUE
PROPERTIES
    Heals
