SPECIFICATION MCWalletSpec
CONSTANTS
    k1 = k1
    k2 = k2
    h1 = h1
    h2 = h2
    h3 = h3
    zero = zero
    ff = ff
    PuzzleHash <- MCPuzzleHash
    Pair <- MCPair
    Key <- MCKey
    Keychain = {k1}
    Payment <- MCPayment
    puzzle_hash_for_index <- MCIndexHash
    puzzle_hash_for_conditions <- MCConditionsHash
    ZERO_PH = zero
    FF_PH = ff
    REWARD = 2
    MAX_COIN_AMOUNT = 16
    UINT64_LIMIT = 32
    Bundle = {}
    RewardHashes <- MCHashes
    Skip = {}
    CLOCK_LIMIT = 1
    FLOAT_LIMIT = 2
    MaxBlocks = 3
    MaxPending = 2
INVARIANTS
    WalletTypeOK
    AccountMatchesChain
    SpendsAuthorised
    PaymentsAccepted
