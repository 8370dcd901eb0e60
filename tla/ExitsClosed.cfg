SPECIFICATION LifeSpec
CONSTANT MaxInflight=2
CHECK_DEADLOCK FALSE
INVARIANT ExitsClosed
