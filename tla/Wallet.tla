------------------------------- MODULE Wallet -------------------------------
(***************************************************************************)
(* A wallet beside the ledger: it signs and pushes spends of coins held by *)
(* the puzzles in chiasim/puzzles (chiasim/hack/keys.py,                   *)
(* chiasim/wallet/keychain.py), and keeps its own account of the unspent   *)
(* coins from the bodies that get_all_blocks and get_recent_blocks return  *)
(* (chiasim/wallet/deltas.py).                                             *)
(*                                                                         *)
(* The answers hold bodies and no headers.  The wallet therefore asks for  *)
(* the tip and its header first and for the blocks in a later request,     *)
(* with blocks farmed in between.                                          *)
(***************************************************************************)
EXTENDS Ledger, SequencesExt

CONSTANTS
    Key,                        \* public keys
    Keychain,                   \* those the wallet's keychain can sign for
    Payment,                    \* the lists of CREATE_COIN conditions in use
    puzzle_hash_for_index,      \* p2_delegated_puzzle curried with each key
    puzzle_hash_for_conditions  \* p2_conditions of some of the lists

\* Different programs have different hashes, and none is all zeros or all ones.
ASSUME PuzzleAssumption ==
    /\ Keychain \subseteq Key
    /\ Payment \subseteq Seq([puzzle_hash : PuzzleHash, amount : Int])
    /\ Key \X Payment \subseteq Pair
    /\ IsInjective(puzzle_hash_for_index)
    /\ puzzle_hash_for_index \in [Key -> PuzzleHash]
    /\ IsInjective(puzzle_hash_for_conditions)
    /\ DOMAIN puzzle_hash_for_conditions \subseteq Payment
    /\ Range(puzzle_hash_for_conditions) \subseteq PuzzleHash
    /\ Range(puzzle_hash_for_conditions) \cap Range(puzzle_hash_for_index) = {}
    /\ {ZERO_PH, FF_PH} \cap
        (Range(puzzle_hash_for_conditions) \cup Range(puzzle_hash_for_index)) = {}

VARIABLES
    coins,      \* the unspent coins by the wallet's account
    synced,     \* the block whose header the wallet holds; 0 for none
    asked,      \* the tip of its last get_tip
    seen,       \* history: the last block whose body it has been given
    signed      \* history: the pairs its keychain has signed

walletVars == <<coins, synced, asked, seen, signed>>

WalletInit ==
    /\ Init
    /\ coins = {} /\ signed = {}
    /\ synced = 0 /\ asked = 0 /\ seen = 0

-----------------------------------------------------------------------------
(* Puzzles, solutions and their signatures *)

Conditions(outs, agg_sig) ==
    [create_coin |-> outs, agg_sig |-> agg_sig, coin_consumed |-> {}, my_coin_id |-> {},
     time_exceeds |-> {}, block_index_exceeds |-> {}, block_age_exceeds |-> {}]

\* p2_delegated_puzzle asks for a signature of the delegated puzzle, which is
\* here the p2_conditions puzzle of the payment.
DelegatedSolution(coin, outs, key) ==
    [coin |-> coin, puzzle_hash |-> puzzle_hash_for_index[key],
     conditions |-> Conditions(outs, [ZERO96 EXCEPT ![<<key, outs>>] = 1])]

\* p2_conditions alone returns its conditions and asks for nothing.
FixedSolution(coin, outs) ==
    [coin |-> coin, puzzle_hash |-> puzzle_hash_for_conditions[outs],
     conditions |-> Conditions(outs, ZERO96)]

PairsOf(solution) == {pair \in Pair : solution.conditions.agg_sig[pair] > 0}

\* The keychain raises ValueError for a key it does not hold.
CanSign(solution) == \A pair \in PairsOf(solution) : pair[1] \in Keychain

\* Every pair is signed as often as it is asked for.
signature_for_solution(solution) == solution.conditions.agg_sig

build_spend_bundle(solution) ==
    [coin_solutions |-> <<solution>>,
     aggregated_signature |-> signature_for_solution(solution)]

Solutions(coin) ==
    {DelegatedSolution(coin, outs, key) : outs \in Payment, key \in Key}
        \cup {FixedSolution(coin, outs) : outs \in DOMAIN puzzle_hash_for_conditions}

-----------------------------------------------------------------------------
(* The walks from the tip to older blocks.  Blocks are told by their index *)
(* and the previous hash of block 1 is the genesis hash.                   *)

\* get_recent_blocks, newest first, from block t down to the client's header,
\* which is on the chain.  Arriving at block 1 adds its body, although the walk
\* can only end there and the client has that block.
Walk(header) ==
    LET walk[t \in header .. tip_index] ==
            IF t = header THEN <<>>
            ELSE <<chain[t]>> \o (IF t - 1 = 1 THEN <<chain[1]>> ELSE <<>>) \o walk[t - 1]
    IN  walk[tip_index]

\* Mutated form: the list is not reversed
NewestFirst(header) == Walk(header)

do_get_recent_blocks(header) == Reverse(Walk(header))

do_get_all_blocks == chain

Replay(account, bodies) ==
    FoldLeft(LAMBDA c, body : (c \cup Additions(body)) \ Removals(body), account, bodies)

-----------------------------------------------------------------------------
(* What the wallet does *)

\* do_get_tip, and the header of the tip by its hash
GetTip ==
    /\ asked' = tip_index
    /\ UNCHANGED <<vars, coins, synced, seen, signed>>

Fetch(bodies) ==
    /\ coins' = Replay(coins, bodies)
    /\ synced' = asked
    /\ seen' = tip_index
    /\ UNCHANGED <<vars, asked, signed>>

\* On an empty chain do_get_all_blocks finds no header and raises.
FetchAll == asked > 0 /\ synced = 0 /\ Fetch(do_get_all_blocks)

FetchRecent == asked > synced /\ synced > 0 /\ Fetch(do_get_recent_blocks(synced))

\* A bundle is sent as bytes, the amount of the coin it spends as a uint64.
CanSend(solution) == solution.coin.amount \in 0 .. UINT64_LIMIT - 1

\* A spend of any coin the wallet knows, with any key: what it may not spend
\* is for the ledger to refuse.
Pay ==
    \E coin \in coins : \E solution \in Solutions(coin) :
        /\ CanSign(solution)
        /\ CanSend(solution)
        /\ signed' = signed \cup PairsOf(solution)
        /\ LET tx == build_spend_bundle(solution) IN AcceptTx(tx, now) \/ RefuseTx(tx, now)
        /\ UNCHANGED <<coins, synced, asked, seen>>

\* A bundle whose solution is no longer the one that was signed
PayOther ==
    \E coin \in coins : \E meant, solution \in Solutions(coin) :
        /\ CanSign(meant)
        /\ CanSend(solution)
        /\ solution.puzzle_hash = coin.puzzle_hash
        /\ meant.conditions.agg_sig # solution.conditions.agg_sig
        /\ signed' = signed \cup PairsOf(meant)
        /\ LET tx == [coin_solutions |-> <<solution>>,
                      aggregated_signature |-> signature_for_solution(meant)]
           IN  AcceptTx(tx, now) \/ RefuseTx(tx, now)
        /\ UNCHANGED <<coins, synced, asked, seen>>

WalletNext ==
    \/ GetTip \/ FetchAll \/ FetchRecent \/ Pay \/ PayOther
    \/ /\ \E h \in RewardHashes : FarmBlock(h[1], h[2], now) \/ RefuseBlock(h[1], h[2], now)
       /\ UNCHANGED walletVars

WalletSpec == WalletInit /\ [][WalletNext]_<<vars, walletVars>>

-----------------------------------------------------------------------------
(* Properties *)

WalletTypeOK ==
    /\ TypeOK
    /\ coins \subseteq Coin
    /\ signed \subseteq Keychain \X Payment
    /\ 0 <= synced /\ synced <= asked /\ asked <= tip_index /\ seen <= tip_index

\* After block n, the coins created and not spent
UnspentAfter(n) ==
    (UNION {Additions(chain[i]) : i \in 1 .. n})
        \ (UNION {Removals(chain[i]) : i \in 1 .. n})

\* The account is that of the chain at some block no older than the header the
\* wallet holds, although get_recent_blocks (ledger_api.py:66-82) may give it
\* blocks newer than that header, block 1 again, and the same blocks again.
AccountMatchesChain == synced <= seen /\ coins = UnspentAfter(seen)

\* A block spends a coin only by the program its puzzle hash commits to: either
\* with the fixed conditions of p2_conditions, or with conditions that the
\* keychain signed for the key in the coin's puzzle (p2_delegated_puzzle.clvm).
SpendsAuthorised ==
    \A i \in DOMAIN chain : \A k \in DOMAIN chain[i].coin_solutions :
        LET coin == RemovedAt(i, k)
            outs == chain[i].coin_solutions[k].conditions.create_coin
        IN  \/ \E key \in Keychain :
                /\ coin.puzzle_hash = puzzle_hash_for_index[key]
                /\ <<key, outs>> \in signed
            \/ /\ outs \in DOMAIN puzzle_hash_for_conditions
               /\ coin.puzzle_hash = puzzle_hash_for_conditions[outs]

\* What spend_coin (hack/keys.py:50-60) builds is taken by push_tx when the
\* account is up to date, the key is that of the coin, nothing pending spends
\* it, its amount can be streamed and the payment is within it, no output, nor
\* the fees that then are pending, reach MAX_COIN_AMOUNT and a timestamp can
\* hold the clock, whatever else is pending: equal payments of other coins with
\* the same key, for one.  The exception is a pending bundle that carries a
\* signature nobody asked for: BLSSignature.py:43 lets it in, and no signed
\* bundle after it.
PaymentsAccepted ==
    /\ seen = tip_index
    /\ now < CLOCK_LIMIT
    /\ spend_bundle.aggregated_signature = HashKeyPairs(spend_bundle.coin_solutions)
    =>
        \A coin \in coins \ RemovedCoins(spend_bundle.coin_solutions) :
            \A solution \in Solutions(coin) :
                LET outs == solution.conditions.create_coin
                    tx == build_spend_bundle(solution)
                IN  /\ CanSign(solution)
                    /\ CanSend(solution)
                    /\ solution.puzzle_hash = coin.puzzle_hash
                    /\ IsInjective(outs)
                    /\ \A out \in Range(outs) : out.amount < MAX_COIN_AMOUNT
                    /\ Fees(tx) >= 0
                    /\ Fees(spend_bundle) + Fees(tx) < MAX_COIN_AMOUNT
                    => AllPass(PushTxChecks(tx, now))
=============================================================================
