\* Two instances share the store; one of them takes the edits, of two requests
\* at a time.
SPECIFICATION WorkflowsSpec
CONSTANTS
    Instances = {"a", "b"}
    Editors = {"a"}
    Handlers = {"h1", "h2"}
    Guards = {"g"}
    Scopes = {"s"}
    Payloads <- MCPayloads
    MaxRows = 2
    MaxEdits = 2
    MaxMishaps = 1
CHECK_DEADLOCK FALSE
INVARIANTS
    ReferencesResolve EditsTakeEffect
PROPERTIES
    EventuallyCurrent
