\* An answer of one block in one piece.
SPECIFICATION StreamsSpec
CONSTANTS
    MaxBlocks = 1
    MaxPieces = 1
    MaxContentCapture = 1
INVARIANT
    TurnIsWhole
\* A stream ends.
CHECK_DEADLOCK FALSE
