SPECIFICATION MCOrderlySpec
CONSTANTS
    a = a
    b = b
    plot = plot
    other = other
    p = p
    PuzzleHash <- MCPuzzleHash
    Pair = {p}
    PLOT_KEY = plot
    OTHER_KEY = other
    REWARD = 2
    MAX_COIN_AMOUNT = 5
    UINT64_LIMIT = 8
    Bundle <- PlainBundles
    RewardHashes <- MCHashes
    OtherBody <- MadeUpBodies
    MaxBlocks = 3
    MaxRefused = 2
    MaxMixed = 2
    MaxNow = 1
INVARIANTS
    ReceiverTypeOK
    TemporaryErrorsPass
    NoHarmIfRetried
    OnlyTimeHeals
