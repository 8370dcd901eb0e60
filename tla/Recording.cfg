\* Three writers race two Close callers over a buffer of one entry; or an answer
\* of up to three blocks in two pieces is streamed; or eight bytes are scanned
\* for events; or a budget's clock runs from January 2024 to March 2025.
SPECIFICATION MCSpec
CONSTANTS
    Entries = {e1, e2, e3}
    Closers = {c1, c2}
    BufferSize = 1
    BatchFlushThreshold = 2
    MaxBlocks = 3
    MaxPieces = 2
    MaxContentCapture = 1
    maxPendingEventBytes = 5
    MaxStream = 8
    Months = 15
    ResetDays = {1, 15, 28, 29, 30, 31}
    Customs = {3, 20}
INVARIANTS
    LiveLifecycle
    CloseLeavesNothing
    StreamWellFormed
    AnswerArrives
    RecordedOnce
    EventsExact
    PeriodsTile
PROPERTIES
    ImplementsContract
    AcceptedIsSettled
    CloseReturns
\* A process, a stream and the clock end.
CHECK_DEADLOCK FALSE
