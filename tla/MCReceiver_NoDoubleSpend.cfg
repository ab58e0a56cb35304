SPECIFICATION MCReceiverSpec
CONSTANTS
    a = a
    b = b
    plot = plot
    other = other
    p = p
    PuzzleHash <- MCPuzzleHash
    Pair = {p}
    PLOT_KEY = plot
    OTHER_KEY = other
    REWARD = 2
    MAX_COIN_AMOUNT = 5
    UINT64_LIMIT = 8
    Bundle <- PhantomBundles
    RewardHashes <- MCHashes
    OtherBody = {}
    MaxBlocks = 4
    MaxRefused = 1
    MaxMixed = 1
    MaxNow = 0
INVARIANT NoDoubleSpend
