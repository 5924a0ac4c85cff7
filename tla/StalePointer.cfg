SPECIFICATION SafeSpec
CONSTANTS
    Workers  = {w1, w2}
    MaxConns = 2
    MaxReqs  = 2
    Cap      = 1
    Parts    = 1
    IdMod    = 3
    Env      <- Finishing
INVARIANTS
    WorkersReadWhatWasSent
CHECK_DEADLOCK FALSE
