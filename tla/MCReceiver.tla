----------------------------- MODULE MCReceiver -----------------------------
(***************************************************************************)
(* Instances of BlockReceiver for TLC.                                     *)
(***************************************************************************)
EXTENDS BlockReceiver

CONSTANTS
    a, b,           \* puzzle hashes
    plot, other,    \* keys
    p,              \* an AGG_SIG pair
    MaxBlocks,
    MaxRefused,     \* refusals remembered
    MaxMixed,       \* blocks while a refusal without deltas is remembered beside
                    \* another
    MaxNow

MCPuzzleHash == {a, b}
MCHashes == {<<a, b>>}

First == [parent_coin_info |-> BlockIndexHash(1), puzzle_hash |-> a, amount |-> REWARD]
Half == [parent_coin_info |-> CoinName(First), puzzle_hash |-> b, amount |-> 1]

NoConditions ==
    [create_coin |-> <<>>, agg_sig |-> ZERO96, coin_consumed |-> {}, my_coin_id |-> {},
     time_exceeds |-> {}, block_index_exceeds |-> {}, block_age_exceeds |-> {}]

Solve(coin, conditions) ==
    [coin |-> coin, puzzle_hash |-> coin.puzzle_hash, conditions |-> conditions]

Split == Solve(First, [NoConditions EXCEPT !.create_coin =
                    <<[puzzle_hash |-> b, amount |-> 1], [puzzle_hash |-> a, amount |-> 1]>>])
SpendHalf == Solve(Half, NoConditions)
PassOn == Solve(Half, [NoConditions EXCEPT !.create_coin = <<[puzzle_hash |-> a, amount |-> 1]>>])
Late == Solve(First, [NoConditions EXCEPT !.time_exceeds = {0}])

Bundles(lists) ==
    {[coin_solutions |-> sols, aggregated_signature |-> ZERO96] : sols \in lists}

PlainBundles ==
    Bundles({<<>>, <<Split>>, <<SpendHalf>>, <<Split, SpendHalf>>, <<PassOn>>, <<Late>>})

\* Bodies for index 2 that farm_new_block does not make: one that creates the
\* first coinbase coin again, one with other rewards of the right sum, one with
\* a wrong sum, one without the signature its solution asks for
Second(amount) ==
    [parent_coin_info |-> BlockIndexHash(2), puzzle_hash |-> b, amount |-> amount]

MadeUp(coinbase, fees, sols) ==
    [coinbase_coin |-> coinbase, fees_coin |-> fees, coin_solutions |-> sols,
     aggregated_signature |-> ZERO96]

MadeUpBodies ==
    LET asked == Solve(First, [NoConditions EXCEPT !.agg_sig = [ZERO96 EXCEPT ![p] = 1]])
    IN  {MadeUp(First, Second(0), <<>>),
         MadeUp([Second(1) EXCEPT !.puzzle_hash = a], Second(1), <<>>),
         MadeUp([Second(2) EXCEPT !.puzzle_hash = a], Second(1), <<>>),
         MadeUp([Second(2) EXCEPT !.puzzle_hash = a], Second(2), <<asked>>)}

PhantomBundles == Bundles({<<>>, <<Split>>, <<SpendHalf>>})

TimedBundles == Bundles({<<>>, <<Late>>})

\* A refusal without deltas changes nothing but the history: one at a time is
\* remembered, and beside others only what accept_new_block raised.
Unwritten(rs) == {r \in rs : ~r.written}

Bounded ==
    /\ Cardinality(refused') <= MaxRefused
    /\ Cardinality(Unwritten(refused')) <= 1
    /\ Cardinality(refused') > 1 => \A r \in Unwritten(refused') : r.error \in Err
    /\ Len(chain') <= MaxBlocks
    /\ Cardinality(refused') > 1 /\ Unwritten(refused') # {} => Len(chain') <= MaxMixed

\* A block that does not extend the chain is refused before anything else is
\* looked at: it is offered complete and signed only.
MCReceiverNext ==
    \/ \E block \in Offered :
        \E signature \in HeaderSignatures(block), blobs \in SUBSET Blob :
            /\ signature = Sign({PLOT_KEY}, HeaderHash(block)) \/ blobs = Blob
            /\ \/ Extends(block)
               \/ signature = Sign({PLOT_KEY}, HeaderHash(block)) /\ blobs = Blob
            /\ Offer(block, signature, blobs)
            /\ Bounded
    \/ now < MaxNow /\ Tick

MCReceiverSpec == ReceiverInit /\ [][MCReceiverNext]_receiverVars

\* What is no longer Orderly never is again: such states need no successors
\* where all properties have it as their premise.
MCOrderlyNext ==
    \/ Orderly /\ MCReceiverNext
    \/ ~Orderly /\ UNCHANGED receiverVars

MCOrderlySpec == ReceiverInit /\ [][MCOrderlyNext]_receiverVars
=============================================================================
