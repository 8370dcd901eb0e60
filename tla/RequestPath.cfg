\* Two requests share a breaker that opens after two failures and closes after
\* two successes, every outcome and local errors included; or two requests go
\* through caches whose queue holds one write, the fallback's streams being
\* translated.
SPECIFICATION MCSpec
CONSTANTS
    FailureThreshold = 2
    SuccessThreshold = 2
    Requests = {"r1", "r2"}
    MaxAttempts = 2
    LocalErrors = TRUE
    Jobs = {"q1", "q2"}
    Workers = {"w1"}
    QueueSize = 1
    NoJob = "none"
    Texts = {"t1"}
    Models = {"m1", "m2"}
    Options = {"o1", "o2"}
    Translated = {"m2"}
    FallbackChain <- MCChain
CHECK_DEADLOCK FALSE
INVARIANTS
    OneProbePerOutcome ObservedOnce
    HitsAreGenuine
PROPERTIES
    SwitchesOnStreaks HealsUnlessStuck
    CacheImplementsContract CachesClose
