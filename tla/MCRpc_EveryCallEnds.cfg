SPECIFICATION MCFairSpec
CONSTANTS
    c1 = c1
    c2 = c2
    Client = {c1, c2}
    Method <- MCMethod
    Transformed = {"get_tip"}
    Kind = {"r", "e", "unstreamable"}
    Workers = 2
    MaxCalls = 2
    MaxTotal = 2
CHECK_DEADLOCK FALSE
PROPERTY EveryCallEnds
