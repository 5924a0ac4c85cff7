SPECIFICATION Spec
CONSTANTS
    Hosts    <- All
    Conns    = {c1, c2}
    MaxBinds = 2
    MaxAsks  = 2
INVARIANTS
    TypeOK
    ClosedOnce
    TlsForGood
    
PROPERTIES
    HarmOnlyByMisuse
    
CHECK_DEADLOCK FALSE
