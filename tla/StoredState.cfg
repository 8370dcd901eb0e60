\* One component at a time, chosen by the first state, in instances that let
\* its hazards happen; each stays well below the bound of a standalone run.
SPECIFICATION MCSpec
CONSTANTS
    Pollers = {"p1", "p2"}
    Preparers = 2
    Calls = {"c1", "c2", "c3"}
    TTL = 2
    MaxEntries = 1
    CleanupInterval = 2
    MaxTime = 3
    TableKeys = {"k"}
    Writers = {"w1", "w2"}
    MaxEdits = 2
    MaxRefusals = 2
    MaxInflight = 2
CHECK_DEADLOCK FALSE
INVARIANTS
    NothingOrphaned FileKeptWhileRunning
    KeptUnlessOverwritten GoneStaysGone
    InStepAtRest
    DownInOrder
PROPERTIES
    CleanedIfPolled
    TableHeals
    StopsOnSignal
