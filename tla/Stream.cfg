SPECIFICATION Spec
CONSTANTS
    Sessions <- Peers
INVARIANTS
    TypeOK
    InOrder
    CaughtUp
    ClosesForClose
    BodyBuffered
CHECK_DEADLOCK FALSE
