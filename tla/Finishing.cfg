SPECIFICATION Spec
CONSTANTS
    Workers  = {w1}
    MaxConns = 2
    MaxReqs  = 2
    Cap      = 1
    Parts    = 1
    IdMod    = 3
    Env      <- Leaving
PROPERTIES
    AnswersFlushed
    RequestsAnswered
    ShutdownCompletes
CHECK_DEADLOCK FALSE
