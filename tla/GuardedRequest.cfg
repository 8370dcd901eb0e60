SPECIFICATION GuardedSpec
CONSTANTS
 Instances={"a","b"}
 Editors={"a"}
 Handlers={"h1","h2"}
 Guards={"g"}
 Scopes={"s"}
 Payloads <- MCPayloads
 MaxRows=2
 MaxEdits=2
 MaxMishaps=1
CHECK_DEADLOCK FALSE
INVARIANT GuardedRequestIsFiltered
