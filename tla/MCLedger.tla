------------------------------ MODULE MCLedger ------------------------------
(***************************************************************************)
(* Instances of Ledger for TLC: bounds on the unbounded parts and the      *)
(* bundles clients push.                                                   *)
(***************************************************************************)
EXTENDS Ledger

CONSTANTS
    a, b,               \* puzzle hashes of wallets
    zero, ff,           \* the trial puzzle hashes
    p, q,               \* AGG_SIG pairs
    MaxBlocks,          \* blocks farmed
    MaxPending,         \* solutions pending at a time
    MaxNow              \* milliseconds skipped

MCPuzzleHash == {a, b, zero, ff}
MCPair == {p, q}

MCNext ==
    \/ \E tx \in Bundle :
        \/ /\ Len(spend_bundle.coin_solutions) + Len(tx.coin_solutions) <= MaxPending
           /\ AcceptTx(tx, now)
        \/ RefuseTx(tx, now)
    \/ /\ tip_index < MaxBlocks
       /\ \E h \in RewardHashes : FarmBlock(h[1], h[2], now) \/ RefuseBlock(h[1], h[2], now)
    \/ \E ms \in Skip : now + ms <= MaxNow /\ SkipMilliseconds(ms)

MCSpec == Init /\ [][MCNext]_vars

-----------------------------------------------------------------------------
(* Building blocks of bundles *)

Reward(i, ph, amt) ==
    [parent_coin_info |-> BlockIndexHash(i), puzzle_hash |-> ph, amount |-> amt]

Coinbase(i, ph) == Reward(i, ph, REWARD)

Child(coin, ph, amt) ==
    [parent_coin_info |-> CoinName(coin), puzzle_hash |-> ph, amount |-> amt]

Out(ph, amt) == [puzzle_hash |-> ph, amount |-> amt]

NoConditions ==
    [create_coin |-> <<>>, agg_sig |-> ZERO96, coin_consumed |-> {}, my_coin_id |-> {},
     time_exceeds |-> {}, block_index_exceeds |-> {}, block_age_exceeds |-> {}]

Solve(coin, conditions) ==
    [coin |-> coin, puzzle_hash |-> coin.puzzle_hash, conditions |-> conditions]

Spend(coin, outs) == Solve(coin, [NoConditions EXCEPT !.create_coin = outs])

Signed(sols, sig) == [coin_solutions |-> sols, aggregated_signature |-> sig]

Unsigned(sols) == Signed(sols, ZERO96)

-----------------------------------------------------------------------------
(* Spends of reward coins, of their children, of children in the block that *)
(* creates them, conflicting and malformed ones.                            *)

\* With one puzzle hash for both reward coins next_block may fail.
SpendHashes == {<<a, b>>, <<a, a>>}

SpendBundles ==
    LET first == Coinbase(1, a)
        half == Child(first, a, 1)
    IN  {Unsigned(sols) : sols \in {
            <<Spend(first, <<Out(a, 1), Out(b, 1)>>)>>,         \* split, no fees
            <<Spend(first, <<Out(a, 1)>>)>>,                    \* conflicts with the split
            <<Spend(first, <<>>)>>,                             \* all to fees
            <<Spend(first, <<Out(a, 1), Out(a, 1)>>)>>,         \* two equal outputs
            <<Spend(first, <<Out(a, 3)>>)>>,                    \* more than is spent
            <<Spend(half, <<Out(b, 1)>>)>>,                     \* pushed after its parent
            <<Spend(first, <<Out(a, 1), Out(b, 1)>>),
              Spend(half, <<>>)>>,                              \* parent and child at once
            <<Spend(half, <<>>), Spend(half, <<>>)>>,           \* one coin twice
            <<[Spend(Coinbase(2, zero), <<>>)
                    EXCEPT !.puzzle_hash = b]>>,                \* a trial coinbase
            <<Spend(Reward(1, b, 0), <<>>)>>,                   \* an empty fees coin
            <<Spend(Reward(2, b, REWARD), <<Out(a, 2)>>)>>,     \* collected fees
            <<Spend(Coinbase(1, a), <<>>), Spend(Coinbase(2, a), <<Out(b, 4)>>)>>
        }}

\* CREATE_COIN with an amount whose first byte has its top bit set
SignedBundles ==
    {Unsigned(<<Spend(Coinbase(1, a), <<Out(a, 3), Out(b, -1)>>)>>)}

-----------------------------------------------------------------------------
(* Conditions and signatures *)

ConditionHashes == {<<a, b>>}

ConditionBundles ==
    LET first == Coinbase(1, a)
        second == Coinbase(2, a)
        Pay(cond) == [cond EXCEPT !.create_coin = <<Out(b, 2)>>]
        Times(n, pair) == [ZERO96 EXCEPT ![pair] = n]
        Both == AggregateSignature(Times(1, p), Times(1, q))
    IN  {Unsigned(<<Solve(c, Pay([NoConditions EXCEPT !.block_age_exceeds = {1}]))>>)
            : c \in {first, Child(first, b, 2)}}
        \cup
        {Unsigned(<<Solve(first, Pay([NoConditions EXCEPT !.block_index_exceeds = {2}]))>>),
         Unsigned(<<Solve(first, Pay([NoConditions EXCEPT !.time_exceeds = {0}]))>>),
         Unsigned(<<Solve(first, Pay([NoConditions EXCEPT !.coin_consumed = {CoinName(second)}]))>>),
         Unsigned(<<Solve(second, Pay([NoConditions EXCEPT !.my_coin_id = {CoinName(second)}]))>>),
         Unsigned(<<Solve(second, Pay([NoConditions EXCEPT !.my_coin_id = {CoinName(first)}]))>>),
         Signed(<<Solve(first, Pay([NoConditions EXCEPT !.agg_sig = Times(1, p)]))>>, Times(1, p)),
         Signed(<<Solve(first, Pay([NoConditions EXCEPT !.agg_sig = Times(1, p)]))>>, Times(1, q)),
         Signed(<<Solve(second, Pay([NoConditions EXCEPT !.agg_sig = Both]))>>, Both),
         \* signed once for a pair it asks for twice
         Signed(<<Solve(second, Pay([NoConditions EXCEPT !.agg_sig = Times(2, p)]))>>,
                Times(1, p)),
         \* signed for nothing: valid alone, spoils the aggregate
         Signed(<<Solve(second, Pay(NoConditions))>>, Times(1, q))}
=============================================================================
