SPECIFICATION SafeSpec
CONSTANTS
    Workers  = {w1, w2}
    MaxConns = 1
    MaxReqs  = 3
    Cap      = 4
    Parts    = 3
    IdMod    = 2
    Env      <- Unruly
INVARIANTS
    CtlAccounting
    NoRequestTwice
    NoRequestLost
    
PROPERTIES
    BroadcastSafe
CHECK_DEADLOCK FALSE
