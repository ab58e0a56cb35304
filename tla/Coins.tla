------------------------------- MODULE Coins -------------------------------
(***************************************************************************)
(* The data every part of the simulator passes around: coins and their     *)
(* names, solutions and the conditions they evaluate to, spend bundles,    *)
(* block bodies and aggregated signatures (chiasim/hashable,               *)
(* chiasim/validation/consensus.py, chiasim/validation/Conditions.py).     *)
(*                                                                         *)
(* A coin name is sha256 of the parent's name, the puzzle hash and the     *)
(* amount.  The hash is modelled by the history it commits to: the index   *)
(* of the block whose coinbase or fees coin started the line of descent,   *)
(* and the (puzzle hash, amount) of every coin on the way.  Such names are *)
(* injective and never cyclic, which is what the code relies on.           *)
(***************************************************************************)
EXTENDS Integers, Sequences, FiniteSets, FiniteSetsExt, Functions

CONSTANTS
    PuzzleHash,     \* the puzzle hashes in use
    Pair            \* (public key, message hash) pairs of AGG_SIG conditions

-----------------------------------------------------------------------------
(* Coins and coin names *)

Name == [block : Nat, path : Seq(PuzzleHash \X Int)]

\* block_index.to_bytes(32, "big"): the parent of a block's reward coins
BlockIndexHash(index) == [block |-> index, path |-> <<>>]

\* The amount is an Int: created_outputs_for_conditions_dict decodes it as a
\* signed integer, whatever the annotation of Coin.amount says.
Coin == [parent_coin_info : Name, puzzle_hash : PuzzleHash, amount : Int]

CoinName(coin) ==
    [coin.parent_coin_info EXCEPT
        !.path = Append(@, <<coin.puzzle_hash, coin.amount>>)]

Names(coins) == {CoinName(c) : c \in coins}

-----------------------------------------------------------------------------
(* BLS signatures: how often each pair has been signed into the aggregate. *)

Signature == [Pair -> Nat]

ZERO96 == [p \in Pair |-> 0]

\* Mutated form: equal signatures are added once
AggregateOnce(s, t) == [p \in Pair |-> IF s[p] = 0 THEN t[p] ELSE s[p]]

AggregateSignature(s, t) == [p \in Pair |-> s[p] + t[p]]

-----------------------------------------------------------------------------
(* Conditions, grouped by opcode as conditions_by_opcode returns them.  The *)
(* order of CREATE_COIN conditions is the order of the outputs.  Of an      *)
(* AGG_SIG condition matters how often it stands, of the others whether.    *)

Condition ==
    [create_coin : Seq([puzzle_hash : PuzzleHash, amount : Int]),
     agg_sig : [Pair -> Nat],
     coin_consumed : SUBSET Name,
     my_coin_id : SUBSET Name,
     time_exceeds : SUBSET Int,
     block_index_exceeds : SUBSET Int,
     block_age_exceeds : SUBSET Int]

\* A coin, the hash of the puzzle its solution reveals, and the conditions
\* that running the puzzle on the solution yields.
CoinSolution == [coin : Coin, puzzle_hash : PuzzleHash, conditions : Condition]

\* How often each pair is asked for (hash_key_pairs_for_conditions_dict)
HashKeyPairs(sols) ==
    [p \in Pair |-> SumFunction([i \in DOMAIN sols |-> sols[i].conditions.agg_sig[p]])]

\* An empty list of pairs is satisfied by any signature.
ValidSignature(sig, sols) ==
    LET pairs == HashKeyPairs(sols)
    IN  pairs = ZERO96 \/ sig = pairs

-----------------------------------------------------------------------------
(* Spend bundles *)

SpendBundle == [coin_solutions : Seq(CoinSolution), aggregated_signature : Signature]

EmptyBundle == [coin_solutions |-> <<>>, aggregated_signature |-> ZERO96]

\* SpendBundle.aggregate of a list extended by one bundle
Aggregate(bundle, tx) ==
    [coin_solutions |-> bundle.coin_solutions \o tx.coin_solutions,
     aggregated_signature |->
        AggregateSignature(bundle.aggregated_signature, tx.aggregated_signature)]

\* Outputs are identified by slot: <<position of the solution, position of
\* its CREATE_COIN>>, so that two equal outputs stay two outputs.
OutputSlots(sols) ==
    UNION {{i} \X DOMAIN sols[i].conditions.create_coin : i \in DOMAIN sols}

\* created_outputs_for_conditions_dict, one output at a time
Output(sols, s) ==
    LET out == sols[s[1]].conditions.create_coin[s[2]]
    IN  [parent_coin_info |-> CoinName(sols[s[1]].coin),
         puzzle_hash |-> out.puzzle_hash,
         amount |-> out.amount]

OutputsOf(sols) == {Output(sols, s) : s \in OutputSlots(sols)}

AmountIn(sols) == SumFunction([i \in DOMAIN sols |-> sols[i].coin.amount])

AmountOut(sols) ==
    SumFunction([s \in OutputSlots(sols) |-> Output(sols, s).amount])

Fees(bundle) ==
    AmountIn(bundle.coin_solutions) - AmountOut(bundle.coin_solutions)

-----------------------------------------------------------------------------
(* Block bodies.  Slots <<0, 1>> and <<0, 2>> are the reward coins.        *)

Body ==
    [coinbase_coin : Coin, fees_coin : Coin,
     coin_solutions : Seq(CoinSolution), aggregated_signature : Signature]

CoinbaseSlot == <<0, 1>>
FeesSlot == <<0, 2>>

AdditionSlots(body) ==
    {CoinbaseSlot, FeesSlot} \cup OutputSlots(body.coin_solutions)

AdditionAt(body, s) ==
    IF s = CoinbaseSlot THEN body.coinbase_coin
    ELSE IF s = FeesSlot THEN body.fees_coin
    ELSE Output(body.coin_solutions, s)

Additions(body) == {AdditionAt(body, s) : s \in AdditionSlots(body)}

RemovedCoins(sols) == {sols[i].coin : i \in DOMAIN sols}

Removals(body) == RemovedCoins(body.coin_solutions)

Value(coins) == SumFunction([c \in coins |-> c.amount])
=============================================================================
