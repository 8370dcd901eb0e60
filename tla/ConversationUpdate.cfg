\* Three requests on conversations; the oldest of two loses its place.
SPECIFICATION ConversationsSpec
CONSTANTS
    Calls = {"c1", "c2", "c3"}
    TTL = 2
    MaxEntries = 1
    CleanupInterval = 2
    MaxTime = 3
CHECK_DEADLOCK FALSE
INVARIANT ExchangesKept
