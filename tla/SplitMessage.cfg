SPECIFICATION SafeSpec
CONSTANTS
    Workers  = {w1, w2}
    MaxConns = 3
    MaxReqs  = 3
    Cap      = 3
    Parts    = 2
    IdMod    = 4
    Env      <- Patient
INVARIANTS
    MessagesWhole
CHECK_DEADLOCK FALSE
