SPECIFICATION SafeSpec
CONSTANTS
    Workers  = {w1}
    MaxConns = 1
    MaxReqs  = 1
    Cap      = 1
    Parts    = 1
    IdMod    = 2
    Env      <- Patient
INVARIANTS
    AnsweredOnce
