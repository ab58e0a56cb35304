----------------------------- MODULE ChainView -----------------------------
(***************************************************************************)
(* chiasim/validation/chainview.py and check_conditions.py: how a block    *)
(* body is checked against the chain view and the two stores, and what an  *)
(* accepted block changes in the stores (chiasim/storage/RAM_DB.py).       *)
(*                                                                         *)
(* The module has the state but no actions: the components that call       *)
(* augment_chain_view bring them.                                          *)
(***************************************************************************)
EXTENDS Coins

CONSTANTS
    REWARD,             \* the coinbase reward handed to accept_new_block
    MAX_COIN_AMOUNT     \* 1 << 48 in the code

ASSUME RewardAssumption == REWARD \in Nat /\ REWARD < MAX_COIN_AMOUNT
ASSUME MaxCoinAmountAssumption == MAX_COIN_AMOUNT \in Nat

VARIABLES
    chain,          \* the bodies on the chain that ends in tip_hash, oldest first
    unspent_db,     \* RAM_DB._unspent_db: Unspent records by coin name
    preimage_db     \* the coins RAM_DB._preimage_db holds

viewVars == <<chain, unspent_db, preimage_db>>

tip_index == Len(chain)

Unspent == [confirmed_block_index : Nat, spent_block_index : Nat]

\* A missing record; accept_new_block tests it together with index 0.
NoUnspent == [confirmed_block_index |-> 0, spent_block_index |-> 0]

ViewTypeOK ==
    /\ chain \in Seq(Body)
    /\ DOMAIN unspent_db \subseteq Name
    /\ \A n \in DOMAIN unspent_db : unspent_db[n] \in Unspent
    /\ preimage_db \subseteq Coin

ViewInit ==
    /\ chain = <<>>
    /\ unspent_db = [n \in {} |-> NoUnspent]
    /\ preimage_db = {}

-----------------------------------------------------------------------------
(* Checks are evaluated in order and the first that fails is raised.       *)

\* The codes of ConsensusError.py that these checks raise
Err ==
    {"COIN_AMOUNT_EXCEEDS_MAXIMUM", "DUPLICATE_OUTPUT", "DOUBLE_SPEND", "UNKNOWN",
     "WRONG_PUZZLE_HASH", "UNKNOWN_UNSPENT", "BAD_COINBASE_REWARD",
     "ASSERT_COIN_CONSUMED_FAILED", "ASSERT_MY_COIN_ID_FAILED",
     "ASSERT_TIME_EXCEEDS_FAILED", "ASSERT_BLOCK_INDEX_EXCEEDS_FAILED",
     "ASSERT_BLOCK_AGE_EXCEEDS_FAILED", "BAD_AGGREGATE_SIGNATURE"}

Raise(failed, err) == IF failed THEN err ELSE "OK"

AllPass(errs) == \A i \in DOMAIN errs : errs[i] = "OK"

\* Mutated form: every check overwrites the verdict of those before it
LastVerdict(errs) == IF errs = <<>> THEN "OK" ELSE errs[Len(errs)]

FirstError(errs) ==
    IF AllPass(errs) THEN "OK"
    ELSE errs[Min({i \in DOMAIN errs : errs[i] # "OK"})]

-----------------------------------------------------------------------------
(* The lookups go through overlays: preimages are sought among the new     *)
(* additions first, Unspent records in the live database first.            *)

KnownCoins(body) == Additions(body) \cup preimage_db

UnspentFor(body, name) ==
    IF name \in DOMAIN unspent_db THEN unspent_db[name]
    ELSE IF name \in Names(Additions(body))
         THEN [confirmed_block_index |-> tip_index + 1, spent_block_index |-> 0]
         ELSE NoUnspent

-----------------------------------------------------------------------------
(* One operator per check of accept_new_block *)

\* Mutated form: the outputs are not compared
NoDuplicateOutput(body) == FALSE

DuplicateOutput(body) ==
    \E s, t \in AdditionSlots(body) :
        s # t /\ CoinName(AdditionAt(body, s)) = CoinName(AdditionAt(body, t))

DuplicateRemoval(sols) ==
    \E i, j \in DOMAIN sols : i # j /\ CoinName(sols[i].coin) = CoinName(sols[j].coin)

\* Mutated forms of the tests on a record and of the puzzle test
ConfirmedOrPending(unspent) == unspent.confirmed_block_index # 0
SpentBeforeTip(unspent) == unspent.spent_block_index \in 1 .. tip_index - 1
SpentOrPending(unspent) == unspent.spent_block_index # 0
AnyPuzzle(sol) == TRUE

IsConfirmed(unspent) == unspent.confirmed_block_index \in 1 .. tip_index

\* A record of the next index is the trace of a pending spend and no obstacle.
IsSpentOnChain(unspent) == unspent.spent_block_index \in 1 .. tip_index

PuzzleMatches(sol) == sol.puzzle_hash = sol.coin.puzzle_hash

\* A coin created in the same block is exempt from the database checks.
RemovalError(body, coin) ==
    LET unspent == UnspentFor(body, CoinName(coin))
    IN  IF coin \in Additions(body) THEN "OK"
        ELSE FirstError(<<
            Raise(~IsConfirmed(unspent), "UNKNOWN_UNSPENT"),
            Raise(IsSpentOnChain(unspent), "DOUBLE_SPEND")>>)

\* Additions less removals, counted output by output
BlockSurplus(body) ==
    SumFunction([s \in AdditionSlots(body) |-> AdditionAt(body, s).amount])
        - AmountIn(body.coin_solutions)

\* Mutated forms of two conditions
BlockIndexReached(i) == tip_index + 1 >= i
TimeNotReached(creation_time, t) == creation_time <= t

TimeExceeds(creation_time, t) == creation_time > t

BlockIndexExceeds(i) == tip_index + 1 > i

BlockAgeExceeds(age, unspent) == tip_index + 1 > age + unspent.confirmed_block_index

\* check_conditions_dict, in the order of the sorted opcodes
ConditionsError(body, sol, creation_time) ==
    LET c == sol.conditions
        unspent == UnspentFor(body, CoinName(sol.coin))
    IN  FirstError(<<
            Raise(~(c.coin_consumed \subseteq Names(Removals(body))),
                  "ASSERT_COIN_CONSUMED_FAILED"),
            Raise(~(c.my_coin_id \subseteq {CoinName(sol.coin)}),
                  "ASSERT_MY_COIN_ID_FAILED"),
            Raise(\E t \in c.time_exceeds : ~TimeExceeds(creation_time, t),
                  "ASSERT_TIME_EXCEEDS_FAILED"),
            Raise(\E i \in c.block_index_exceeds : ~BlockIndexExceeds(i),
                  "ASSERT_BLOCK_INDEX_EXCEEDS_FAILED"),
            Raise(\E a \in c.block_age_exceeds : ~BlockAgeExceeds(a, unspent),
                  "ASSERT_BLOCK_AGE_EXCEEDS_FAILED")>>)

\* A removal whose preimage is in neither store makes Coin.from_bytes(None)
\* raise inside CoinPointer.obj: the catch-all turns that into UNKNOWN.
AcceptNewBlock(body, creation_time) ==
    LET sols == body.coin_solutions
    IN  <<Raise(\E c \in Additions(body) : c.amount >= MAX_COIN_AMOUNT,
                "COIN_AMOUNT_EXCEEDS_MAXIMUM"),
          Raise(DuplicateOutput(body), "DUPLICATE_OUTPUT"),
          Raise(DuplicateRemoval(sols), "DOUBLE_SPEND"),
          Raise(~(Removals(body) \subseteq KnownCoins(body)), "UNKNOWN"),
          Raise(\E i \in DOMAIN sols : ~PuzzleMatches(sols[i]),
                "WRONG_PUZZLE_HASH"),
          FirstError([i \in DOMAIN sols |-> RemovalError(body, sols[i].coin)]),
          Raise(BlockSurplus(body) # REWARD, "BAD_COINBASE_REWARD"),
          FirstError([i \in DOMAIN sols |-> ConditionsError(body, sols[i], creation_time)]),
          Raise(~ValidSignature(body.aggregated_signature, sols),
                "BAD_AGGREGATE_SIGNATURE")>>

-----------------------------------------------------------------------------
(* apply_deltas: additions first, then removals, on the live stores.       *)

\* Mutated form: removals first, so that an ephemeral coin ends unspent
ApplyRemovalsFirst(index, additions, removals) ==
    [n \in DOMAIN unspent_db \cup Names(additions) |->
        [confirmed_block_index |->
            IF n \in Names(additions) THEN index ELSE unspent_db[n].confirmed_block_index,
         spent_block_index |->
            IF n \in Names(additions) THEN 0
            ELSE IF n \in Names(removals) THEN index
            ELSE unspent_db[n].spent_block_index]]

ApplyDeltas(index, additions, removals) ==
    [n \in DOMAIN unspent_db \cup Names(additions) |->
        [confirmed_block_index |->
            IF n \in Names(additions) THEN index ELSE unspent_db[n].confirmed_block_index,
         spent_block_index |->
            IF n \in Names(removals) THEN index
            ELSE IF n \in Names(additions) THEN 0
            ELSE unspent_db[n].spent_block_index]]

WriteDeltas(body) ==
    /\ unspent_db' = ApplyDeltas(tip_index + 1, Additions(body), Removals(body))
    /\ preimage_db' = preimage_db \cup Additions(body)

-----------------------------------------------------------------------------
(* What the stores must say of the chain, whoever calls augment_chain_view  *)

\* The coin removed at position k of block i
RemovedAt(i, k) == chain[i].coin_solutions[k].coin

\* No coin is removed twice, in one block or in two, whatever was pushed,
\* retried or left pending in between (chainview.py:185-190 and 232-243).
NoDoubleSpend ==
    \A i, j \in DOMAIN chain :
        \A k \in DOMAIN chain[i].coin_solutions, l \in DOMAIN chain[j].coin_solutions :
            RemovedAt(i, k) = RemovedAt(j, l) => i = j /\ k = l

ChainAdditions == UNION {Additions(chain[i]) : i \in DOMAIN chain}
ChainRemovals == UNION {Removals(chain[i]) : i \in DOMAIN chain}

\* Every coin removed by a block was created by that block or an earlier one,
\* although lookups also find the coins of trial blocks (chainview.py:202-240).
SpentWereCreated ==
    \A i \in DOMAIN chain : Removals(chain[i]) \subseteq
        UNION {Additions(chain[j]) : j \in 1 .. i}

\* What a client may conclude from an Unspent record (get_unspent, all_unspents)
IsSpent(name) ==
    name \in DOMAIN unspent_db /\ unspent_db[name].spent_block_index \in 1 .. tip_index

\* The database, read as accept_new_block reads it, says of every coin on the
\* chain which block created it and which one, if any, spent it.  It survives
\* the trial blocks of push_tx, which write in the same database.
DbMatchesChain ==
    \A i \in DOMAIN chain : \A c \in Additions(chain[i]) :
        /\ CoinName(c) \in DOMAIN unspent_db
        /\ unspent_db[CoinName(c)].confirmed_block_index = i
        /\ \A j \in DOMAIN chain :
                c \in Removals(chain[j]) <=> unspent_db[CoinName(c)].spent_block_index = j
=============================================================================
