SPECIFICATION LookupSpec
CONSTANTS
    Calls      = 2
    MaxReplies = 1
    Env        <- AnyEnv
    MaxRetries = 2
    Timeout    = 1
    MaxAnswers = 2
    Faults     <- AnyFaults
INVARIANTS
    TypeOK
    LookupTypeOK
    PollsForSomething
    
    
    RepliesWhole
    CallsBackOnce
    LastQueryUnheard
PROPERTIES
    ClientSpec
    AnswerBeforeTimeout
    SendReqReturns
CHECK_DEADLOCK FALSE
