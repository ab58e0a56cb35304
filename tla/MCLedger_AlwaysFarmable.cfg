SPECIFICATION MCSpec
CONSTANTS
    a = a
    b = b
    zero = zero
    ff = ff
    p = p
    q = q
    PuzzleHash <- MCPuzzleHash
    Pair <- MCPair
    ZERO_PH = zero
    FF_PH = ff
    REWARD = 2
    MAX_COIN_AMOUNT = 4
    UINT64_LIMIT = 8
    Bundle <- SpendBundles
    RewardHashes <- SpendHashes
    Skip = {}
    CLOCK_LIMIT = 1
    FLOAT_LIMIT = 2
    MaxBlocks = 3
    MaxPending = 4
    MaxNow = 0
INVARIANT AlwaysFarmable
