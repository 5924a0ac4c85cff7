SPECIFICATION Spec
CONSTANTS
    Workers  = {w1, w2}
    MaxConns = 2
    MaxReqs  = 4
    Cap      = 2
    Parts    = 1
    IdMod    = 3
    Env      <- Patient
INVARIANTS
    TypeOK
    NoCrossTalk
    WorkersReadWhatWasSent
PROPERTIES
    BroadcastSpec
    BroadcastReturns
