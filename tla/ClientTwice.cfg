SPECIFICATION SafeSpec
CONSTANTS
    Calls      = 2
    MaxReplies = 1
    Env        <- Nothing
INVARIANTS
    EachCallAnswered
CHECK_DEADLOCK FALSE
