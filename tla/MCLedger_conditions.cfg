SPECIFICATION MCSpec
CONSTANTS
    a = a
    b = b
    zero = zero
    ff = ff
    p = p
    q = q
    PuzzleHash <- MCPuzzleHash
    Pair <- MCPair
    ZERO_PH = zero
    FF_PH = ff
    REWARD = 2
    MAX_COIN_AMOUNT = 4
    UINT64_LIMIT = 8
    Bundle <- ConditionBundles
    RewardHashes <- ConditionHashes
    Skip = {1}
    CLOCK_LIMIT = 2
    FLOAT_LIMIT = 3
    MaxBlocks = 3
    MaxPending = 3
    MaxNow = 3
INVARIANTS
    PushTxJudgesByChain
    MempoolFarmable
