SPECIFICATION Spec
CONSTANTS
    Sessions <- TwoChunked
INVARIANTS
    BodyBuffered
CHECK_DEADLOCK FALSE
