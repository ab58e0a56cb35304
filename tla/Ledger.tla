------------------------------- MODULE Ledger -------------------------------
(***************************************************************************)
(* LedgerAPI (chiasim/ledger/ledger_api.py): the simulator's one ledger,   *)
(* its pending spend bundles and its clock.  One action per request that   *)
(* changes state.  push_tx and next_block run under _next_block_lock and   *)
(* are one step each here; LedgerAsync has their steps.                    *)
(***************************************************************************)
EXTENDS Farming

CONSTANTS
    ZERO_PH, FF_PH,     \* the puzzle hashes of push_tx's trial block
    Bundle,             \* the spend bundles clients may push
    RewardHashes,       \* the (coinbase, fees) puzzle hashes next_block is asked for
    Skip,               \* the arguments of skip_milliseconds
    CLOCK_LIMIT,        \* the first _now whose seconds no uint64 holds
    FLOAT_LIMIT         \* the first _now whose quotient by 1000 no float holds

\* A bundle is read from a stream: the amounts of the coins it spends are
\* unsigned 64 bit numbers.  Nobody knows a puzzle whose hash is all zeros or
\* all ones, so no solution reveals one.
ASSUME BundleAssumption ==
    /\ Bundle \subseteq SpendBundle
    /\ \A tx \in Bundle : \A i \in DOMAIN tx.coin_solutions :
        /\ tx.coin_solutions[i].coin.amount \in 0 .. UINT64_LIMIT - 1
        /\ tx.coin_solutions[i].puzzle_hash \notin {ZERO_PH, FF_PH}

ASSUME HashAssumption ==
    /\ ZERO_PH \in PuzzleHash /\ FF_PH \in PuzzleHash /\ ZERO_PH # FF_PH
    /\ RewardHashes \subseteq PuzzleHash \X PuzzleHash

\* skip_milliseconds takes a number of any length, so both limits are in reach.
ASSUME ClockAssumption ==
    /\ Skip \subseteq Nat
    /\ CLOCK_LIMIT \in Nat /\ FLOAT_LIMIT \in Nat /\ CLOCK_LIMIT <= FLOAT_LIMIT

VARIABLES
    spend_bundle,   \* SpendBundle.aggregate(_spend_bundles): what is pending
    now,            \* _now, in milliseconds
    reply           \* how the last request ended: "OK" or the error raised

vars == <<chain, unspent_db, preimage_db, spend_bundle, now, reply>>

Reply ==
    {"OK", "ValueError", "OverflowError", "AssertionError", "struct.error"} \cup Err

Init ==
    /\ ViewInit
    /\ spend_bundle = EmptyBundle
    /\ now = 0
    /\ reply = "OK"

-----------------------------------------------------------------------------
(* new_chain_view *)

\* The steps of new_chain_view that can fail, in order: the timestamp's
\* division, the assertion of farm_new_block, streaming a body whose fees, or
\* a header whose timestamp does not fit, accept_new_block.  The header
\* extends the tip and is signed by the plot key, so neither DOES_NOT_EXTEND
\* nor BAD_HEADER_SIGNATURE can be raised.  time is _now at the call.
NewChainView(bundle, coinbase_puzzle_hash, fees_puzzle_hash, time) ==
    <<Raise(time >= FLOAT_LIMIT, "OverflowError"),
      Raise(~ValidSignature(bundle.aggregated_signature, bundle.coin_solutions),
            "AssertionError"),
      Raise(~FeesFit(bundle) \/ time >= CLOCK_LIMIT, "struct.error")>>
    \o AcceptNewBlock(FarmedBody(bundle, coinbase_puzzle_hash, fees_puzzle_hash), time)

-----------------------------------------------------------------------------
(* do_push_tx *)

PushTxChecks(tx, time) ==
    <<Raise(~ValidSignature(tx.aggregated_signature, tx.coin_solutions), "ValueError")>>
    \o NewChainView(Aggregate(spend_bundle, tx), ZERO_PH, FF_PH, time)

\* Mutated form: the bundle is checked and then forgotten
ForgetTx(tx, time) ==
    /\ AllPass(PushTxChecks(tx, time))
    /\ WriteDeltas(FarmedBody(Aggregate(spend_bundle, tx), ZERO_PH, FF_PH))
    /\ reply' = "OK"
    /\ UNCHANGED <<chain, spend_bundle, now>>

\* The trial block is dropped, but augment_chain_view has already applied its
\* deltas to the ledger's own stores.
AcceptTx(tx, time) ==
    /\ AllPass(PushTxChecks(tx, time))
    /\ WriteDeltas(FarmedBody(Aggregate(spend_bundle, tx), ZERO_PH, FF_PH))
    /\ spend_bundle' = Aggregate(spend_bundle, tx)
    /\ reply' = "OK"
    /\ UNCHANGED <<chain, now>>

RefuseTx(tx, time) ==
    /\ ~AllPass(PushTxChecks(tx, time))
    /\ reply' = FirstError(PushTxChecks(tx, time))
    /\ UNCHANGED <<viewVars, spend_bundle, now>>

-----------------------------------------------------------------------------
(* do_next_block *)

FarmBlock(coinbase_puzzle_hash, fees_puzzle_hash, time) ==
    LET body == FarmedBody(spend_bundle, coinbase_puzzle_hash, fees_puzzle_hash)
    IN  /\ AllPass(NewChainView(spend_bundle, coinbase_puzzle_hash, fees_puzzle_hash, time))
        /\ WriteDeltas(body)
        /\ chain' = Append(chain, body)
        /\ spend_bundle' = EmptyBundle
        /\ reply' = "OK"
        /\ UNCHANGED now

RefuseBlock(coinbase_puzzle_hash, fees_puzzle_hash, time) ==
    LET errs == NewChainView(spend_bundle, coinbase_puzzle_hash, fees_puzzle_hash, time)
    IN  /\ ~AllPass(errs)
        /\ reply' = FirstError(errs)
        /\ UNCHANGED <<viewVars, spend_bundle, now>>

-----------------------------------------------------------------------------
(* do_skip_milliseconds *)

SkipMilliseconds(ms) ==
    /\ now' = now + ms
    /\ reply' = "OK"
    /\ UNCHANGED <<viewVars, spend_bundle>>

-----------------------------------------------------------------------------

\* A push_tx or a next_block that has read the clock at the given time
Answered(time) ==
    \/ \E tx \in Bundle : AcceptTx(tx, time) \/ RefuseTx(tx, time)
    \/ \E h \in RewardHashes : FarmBlock(h[1], h[2], time) \/ RefuseBlock(h[1], h[2], time)

Next == Answered(now) \/ \E ms \in Skip : SkipMilliseconds(ms)

Spec == Init /\ [][Next]_vars

TypeOK ==
    /\ ViewTypeOK
    /\ spend_bundle \in SpendBundle
    /\ \A i \in DOMAIN chain : chain[i].fees_coin.amount \in 0 .. UINT64_LIMIT - 1
    /\ now \in Nat
    /\ reply \in Reply
-----------------------------------------------------------------------------
(* Properties *)

\* The coins on the chain that no block has spent are worth one reward for
\* each block: farming, fees and spends create and destroy nothing.
SupplyConserved == Value(ChainAdditions \ ChainRemovals) = REWARD * tip_index

\* A bundle is judged by the chain, not by what trial blocks left behind: what
\* is pending together with it must be spendable on top of the blocks alone.
CreatedIn(c) == {i \in DOMAIN chain : c \in Additions(chain[i])}

CreationIndex(c) ==
    IF CreatedIn(c) = {} THEN tip_index + 1 ELSE CHOOSE i \in CreatedIn(c) : TRUE

LegalConditions(sols, sol) ==
    LET cond == sol.conditions IN
    /\ cond.coin_consumed \subseteq Names(RemovedCoins(sols))
    /\ cond.my_coin_id \subseteq {CoinName(sol.coin)}
    /\ \A t \in cond.time_exceeds : now > t
    /\ \A b \in cond.block_index_exceeds : tip_index + 1 > b
    /\ \A g \in cond.block_age_exceeds : tip_index + 1 - CreationIndex(sol.coin) > g

LegalOnChain(bundle) ==
    LET sols == bundle.coin_solutions
        created == OutputsOf(sols)
    IN  /\ ValidSignature(bundle.aggregated_signature, sols)
        /\ Fees(bundle) \in 0 .. MAX_COIN_AMOUNT - 1
        /\ Cardinality(RemovedCoins(sols)) = Len(sols)
        /\ Cardinality(created) = Cardinality(OutputSlots(sols))
        /\ RemovedCoins(sols) \subseteq (ChainAdditions \ ChainRemovals) \cup created
        /\ \A c \in created : c.amount < MAX_COIN_AMOUNT
        /\ \A i \in DOMAIN sols :
            /\ sols[i].puzzle_hash = sols[i].coin.puzzle_hash
            /\ LegalConditions(sols, sols[i])

\* push_tx accepts exactly the bundles that are legal on top of the chain with
\* what is already pending, however many trial blocks have run before, as long
\* as a timestamp can hold the clock (ledger_api.py:139), and none after that.
PushTxJudgesByChain ==
    \A tx \in Bundle :
        AllPass(PushTxChecks(tx, now)) <=>
            /\ now < CLOCK_LIMIT
            /\ ValidSignature(tx.aggregated_signature, tx.coin_solutions)
            /\ LegalOnChain(Aggregate(spend_bundle, tx))

\* "ensure that we can farm a block even after adding this spend_bundle"
\* (ledger_api.py:42): whatever is pending, next_block succeeds for every pair
\* of puzzle hashes and as long as a timestamp can hold the clock, unless the
\* two hashes are one and the fees equal the reward, so that the two reward
\* coins would be one coin.
MempoolFarmable ==
    \A h \in RewardHashes :
        AllPass(NewChainView(spend_bundle, h[1], h[2], now)) <=>
            /\ now < CLOCK_LIMIT
            /\ h[1] # h[2] \/ Fees(spend_bundle) # REWARD

\* The same sentence of the comment, for every pair of puzzle hashes.
AlwaysFarmable ==
    \A h \in RewardHashes : AllPass(NewChainView(spend_bundle, h[1], h[2], now))

\* A body "contains everything necessary to determine the additions and
\* removals from a block" (Body.py:11-13): the coins the database holds as
\* confirmed at or below the tip are those of the chain's bodies.
ConfirmedCoinsAreInBlocks ==
    \A n \in DOMAIN unspent_db :
        unspent_db[n].confirmed_block_index <= tip_index => n \in Names(ChainAdditions)

\* The coins of no block and of no pending bundle that the database holds are
\* reward coins of trial blocks, which nobody can spend.
StrayCoinsAreTrialRewards ==
    \A c \in preimage_db \ ChainAdditions :
        \/ c \in OutputsOf(spend_bundle.coin_solutions)
        \/ /\ c.parent_coin_info \in {BlockIndexHash(i) : i \in 1 .. tip_index + 1}
           /\ c.puzzle_hash \in {ZERO_PH, FF_PH}
           /\ unspent_db[CoinName(c)].spent_block_index = 0

\* Coin.amount is annotated uint64 (Coin.py:20).
AmountsAreUnsigned == \A c \in ChainAdditions : c.amount \in 0 .. UINT64_LIMIT - 1

\* Once a block has spent a coin its record never changes again, and the record
\* of a coin on the chain never moves to another block of creation, whatever
\* trial blocks write in the same database (chainview.py:94).
SpentRecordsAreFinal ==
    [][/\ \A n \in DOMAIN unspent_db : IsSpent(n) =>
            n \in DOMAIN unspent_db' /\ unspent_db'[n] = unspent_db[n]
       /\ \A n \in Names(ChainAdditions) :
            /\ n \in DOMAIN unspent_db'
            /\ unspent_db'[n].confirmed_block_index = unspent_db[n].confirmed_block_index]_vars

\* Ledger implements UtxoLedger: the chain says which coins exist and the
\* database, as a client reads it, which of them are spent.  Pushing bundles,
\* accepted or refused, is invisible.
SpendableCoins == {c \in ChainAdditions : ~IsSpent(CoinName(c))}
SpentCoins == {c \in ChainAdditions : IsSpent(CoinName(c))}

Utxo == INSTANCE UtxoLedger WITH
    utxo <- SpendableCoins, spent <- SpentCoins, height <- tip_index

ImplementsUtxoLedger == Utxo!UtxoSpec
=============================================================================
