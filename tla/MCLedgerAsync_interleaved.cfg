SPECIFICATION MCAsyncSpec
CONSTANTS
    a = a
    b = b
    zero = zero
    ff = ff
    p = p
    q = q
    PuzzleHash <- MCPuzzleHash
    Pair <- MCPair
    ZERO_PH = zero
    FF_PH = ff
    REWARD = 2
    MAX_COIN_AMOUNT = 4
    UINT64_LIMIT = 8
    Bundle <- AsyncBundles
    RewardHashes <- AsyncHashes
    Skip = {1}
    CLOCK_LIMIT = 2
    FLOAT_LIMIT = 3
    Worker = {1, 2, 3}
    MaxBlocks = 2
    MaxPending = 2
    MaxNow = 2
INVARIANTS
    AsyncTypeOK
    HolderSeesLedger
    AcceptedNeverLost
    DbMatchesChain
    SomeoneCanGoOn
PROPERTIES
    AnsweredAsInOneStep
    ImplementsLedger
    EveryTurnCounts
    RequestsAnswered
