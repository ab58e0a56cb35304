------------------------------- MODULE Farming -------------------------------
(***************************************************************************)
(* The block a farmer makes on top of a chain: farm_new_block              *)
(* (chiasim/farming) and the coinbase coin of chiasim/pool.                *)
(***************************************************************************)
EXTENDS ChainView

CONSTANT UINT64_LIMIT   \* 2^64: streaming a larger or a negative amount fails

ASSUME LimitAssumption == UINT64_LIMIT \in Nat /\ MAX_COIN_AMOUNT <= UINT64_LIMIT

\* Mutated forms: the parent is the tip's index, fees are not range checked
RewardCoinOfTip(puzzle_hash, amount) ==
    [parent_coin_info |-> BlockIndexHash(tip_index),
     puzzle_hash |-> puzzle_hash, amount |-> amount]

AnyFees(bundle) == TRUE

RewardCoin(puzzle_hash, amount) ==
    [parent_coin_info |-> BlockIndexHash(tip_index + 1),
     puzzle_hash |-> puzzle_hash, amount |-> amount]

FarmedBody(bundle, coinbase_puzzle_hash, fees_puzzle_hash) ==
    [coinbase_coin |-> RewardCoin(coinbase_puzzle_hash, REWARD),
     fees_coin |-> RewardCoin(fees_puzzle_hash, Fees(bundle)),
     coin_solutions |-> bundle.coin_solutions,
     aggregated_signature |-> bundle.aggregated_signature]

\* Streaming the body packs the fees as an unsigned 64 bit number.
FeesFit(bundle) == Fees(bundle) \in 0 .. UINT64_LIMIT - 1
=============================================================================
