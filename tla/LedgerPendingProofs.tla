------------------------ MODULE LedgerPendingProofs ------------------------
(***************************************************************************)
(* What push_tx judges and what next_block can count on: a bundle passes   *)
(* the trial block if and only if the blocks of the chain make it legal,   *)
(* so what is pending can be farmed, while a timestamp can hold the clock. *)
(***************************************************************************)
EXTENDS LedgerProofs

-----------------------------------------------------------------------------
(* The body farmed from a bundle *)

\* The fees are what makes the books balance: the reward check never fails.
LEMMA FarmedSurplus ==
  ASSUME TypeOK, NEW bundle \in SpendBundle, NEW h1 \in PuzzleHash, NEW h2 \in PuzzleHash,
         NEW body, body = FarmedBody(bundle, h1, h2)
  PROVE  BlockSurplus(body) = REWARD
<1> DEFINE sols == bundle.coin_solutions
           slots == OutputSlots(sols)
<1>1. sols \in Seq(CoinSolution) /\ body.coin_solutions = sols
  BY DEF SpendBundle, FarmedBody
<1>2. PICK f, g : f = [s \in AdditionSlots(body) |-> AdditionAt(body, s).amount]
                  /\ g = [s \in slots |-> Output(sols, s).amount]
  <2>1. \E f : f = [s \in AdditionSlots(body) |-> AdditionAt(body, s).amount]
    OBVIOUS
  <2>2. \E g : g = [s \in slots |-> Output(sols, s).amount]
    OBVIOUS
  <2> QED BY <2>1, <2>2
<1>3. AdditionSlots(body) = (slots \cup {CoinbaseSlot}) \cup {FeesSlot}
  BY <1>1 DEF AdditionSlots
<1>4. /\ CoinbaseSlot \notin slots /\ FeesSlot \notin slots \cup {CoinbaseSlot}
      /\ CoinbaseSlot # FeesSlot
  BY <1>1, SlotsOfSolutions DEF CoinbaseSlot, FeesSlot
<1>5. f[CoinbaseSlot] = REWARD /\ f[FeesSlot] = Fees(bundle)
  <2>1. f[CoinbaseSlot] = body.coinbase_coin.amount
    BY <1>2, <1>3 DEF AdditionAt
  <2>2. f[FeesSlot] = body.fees_coin.amount
    BY <1>2, <1>3, <1>4 DEF AdditionAt
  <2> QED BY <2>1, <2>2, FarmedFacts DEF TypeOK
<1>6. \A s \in slots : f[s] = g[s] /\ g[s] \in Int
  <2>1. \A s \in slots : Output(sols, s) \in Coin
    BY <1>1, OutputParent DEF OutputsOf
  <2> QED BY <1>1, <1>2, <1>3, <1>4, <2>1 DEF AdditionAt, Coin
<1>7. IsFiniteSet(slots) /\ IsFiniteSet(slots \cup {CoinbaseSlot})
  BY <1>1, SlotsFinite, FS_AddElement
<1>8. Fees(bundle) \in Int /\ AmountIn(sols) \in Int /\ AmountOut(sols) \in Int
      /\ Fees(bundle) = AmountIn(sols) - AmountOut(sols) /\ REWARD \in Int
  BY FeesType, RewardAssumption DEF Fees
<1>9. AmountOut(sols) = SumFunctionOnSet(g, slots)
  BY <1>2 DEF AmountOut, SumFunction
<1>10. BlockSurplus(body) = SumFunctionOnSet(f, AdditionSlots(body)) - AmountIn(sols)
  BY <1>1, <1>2 DEF BlockSurplus, SumFunction
<1> HIDE DEF slots
<1>11. SumFunctionOnSet(f, slots) = SumFunctionOnSet(g, slots)
  BY <1>6, <1>7, SumSameTerms
<1>12. SumFunctionOnSet(f, slots \cup {CoinbaseSlot}) = REWARD + SumFunctionOnSet(f, slots)
  <2>1. f[CoinbaseSlot] \in Int /\ \A s \in slots : f[s] \in Int
    BY <1>5, <1>6, <1>8
  <2> QED BY <1>4, <1>5, <1>7, <2>1, SumAdd
<1>13. SumFunctionOnSet(f, (slots \cup {CoinbaseSlot}) \cup {FeesSlot})
        = Fees(bundle) + SumFunctionOnSet(f, slots \cup {CoinbaseSlot})
  <2>1. f[FeesSlot] \in Int /\ \A s \in slots \cup {CoinbaseSlot} : f[s] \in Int
    BY <1>5, <1>6, <1>8
  <2> QED BY <1>4, <1>5, <1>7, <2>1, SumAdd
<1> QED BY <1>3, <1>8, <1>9, <1>10, <1>11, <1>12, <1>13

-----------------------------------------------------------------------------
(* The checks, one by one, against LegalOnChain *)

LEMMA FarmedOutputs ==
  ASSUME TypeOK, NEW bundle \in SpendBundle,
         NEW h1 \in PuzzleHash, NEW h2 \in PuzzleHash,
         h1 # h2 \/ Fees(bundle) # REWARD,
         NEW body, body = FarmedBody(bundle, h1, h2)
  PROVE  ~DuplicateOutput(body) <=>
            Cardinality(OutputsOf(bundle.coin_solutions))
                = Cardinality(OutputSlots(bundle.coin_solutions))
<1> DEFINE sols == bundle.coin_solutions
           slots == OutputSlots(sols)
<1>1. sols \in Seq(CoinSolution) /\ body.coin_solutions = sols /\ body \in Body
  BY FarmedFacts DEF TypeOK, SpendBundle
<1>2. PICK b : b = [s \in slots |-> Output(sols, s)]
  OBVIOUS
<1>3. OutputsOf(sols) = {b[s] : s \in slots}
  BY <1>2 DEF OutputsOf
<1>4. Cardinality({b[s] : s \in slots}) = Cardinality(slots)
            <=> \A s, t \in slots : b[s] = b[t] => s = t
  <2>1. IsFiniteSet(slots)
    BY <1>1, SlotsFinite
  <2> HIDE DEF slots
  <2> QED BY <2>1, DistinctValues
<1>5. AdditionSlots(body) = {CoinbaseSlot, FeesSlot} \cup slots
  BY <1>1 DEF AdditionSlots
<1>6. /\ CoinbaseSlot \notin slots /\ FeesSlot \notin slots /\ CoinbaseSlot # FeesSlot
  BY <1>1, SlotsOfSolutions DEF CoinbaseSlot, FeesSlot
<1>7. /\ AdditionAt(body, CoinbaseSlot) = body.coinbase_coin
      /\ AdditionAt(body, FeesSlot) = body.fees_coin
      /\ \A s \in slots : AdditionAt(body, s) = b[s]
  BY <1>1, <1>2, <1>6 DEF AdditionAt
<1>8. \A s \in AdditionSlots(body) : AdditionAt(body, s) \in Coin
  BY <1>1, AdditionFacts
<1>9. body.coinbase_coin # body.fees_coin
  BY FarmedFacts DEF TypeOK
<1>10. ASSUME NEW s \in slots
       PROVE  b[s] # body.coinbase_coin /\ b[s] # body.fees_coin
  <2>1. b[s] \in OutputsOf(sols)
    BY <1>3
  <2>2. PICK r \in RemovedCoins(sols) : b[s].parent_coin_info = CoinName(r)
    BY <1>1, <2>1, OutputParent
  <2>3. r \in Coin
    BY <1>1, RemovalsAreCoins
  <2>4. b[s].parent_coin_info # BlockIndexHash(tip_index + 1)
    BY <2>2, <2>3, BlockIndexHashIsNoCoin
  <2> QED BY <2>4, FarmedFacts DEF TypeOK
<1> HIDE DEF slots, sols
<1>11. ASSUME \A s, t \in slots : b[s] = b[t] => s = t
       PROVE  ~DuplicateOutput(body)
  <2> SUFFICES ASSUME NEW s \in AdditionSlots(body), NEW t \in AdditionSlots(body),
                      CoinName(AdditionAt(body, s)) = CoinName(AdditionAt(body, t))
               PROVE  s = t
    BY DEF DuplicateOutput
  <2>1. AdditionAt(body, s) = AdditionAt(body, t)
    BY <1>8, CoinNameInjective
  <2>2. CASE s \in slots /\ t \in slots
    BY <1>7, <1>11, <2>1, <2>2
  <2>3. CASE s \in slots /\ t \notin slots
    BY <1>5, <1>7, <1>10, <2>1, <2>3
  <2>4. CASE s \notin slots /\ t \in slots
    BY <1>5, <1>7, <1>10, <2>1, <2>4
  <2>5. CASE s \notin slots /\ t \notin slots
    BY <1>5, <1>7, <1>9, <2>1, <2>5
  <2> QED BY <2>2, <2>3, <2>4, <2>5
<1>12. ASSUME ~DuplicateOutput(body), NEW s \in slots, NEW t \in slots, b[s] = b[t]
       PROVE  s = t
  BY <1>5, <1>7, <1>12 DEF DuplicateOutput
<1> QED BY <1>3, <1>4, <1>11, <1>12 DEF slots, sols

\* Rewards of one amount for one puzzle hash are one coin twice.
LEMMA EqualRewards ==
  ASSUME TypeOK, NEW bundle \in SpendBundle, NEW h \in PuzzleHash,
         Fees(bundle) = REWARD,
         NEW body, body = FarmedBody(bundle, h, h)
  PROVE  DuplicateOutput(body)
<1>1. body.coinbase_coin = body.fees_coin
  BY DEF FarmedBody
<1>2. /\ CoinbaseSlot \in AdditionSlots(body) /\ FeesSlot \in AdditionSlots(body)
      /\ CoinbaseSlot # FeesSlot
  BY DEF AdditionSlots, CoinbaseSlot, FeesSlot
<1>3. /\ AdditionAt(body, CoinbaseSlot) = body.coinbase_coin
      /\ AdditionAt(body, FeesSlot) = body.fees_coin
  BY <1>2 DEF AdditionAt
<1> QED BY <1>1, <1>2, <1>3 DEF DuplicateOutput

LEMMA DistinctRemovals ==
  ASSUME NEW sols \in Seq(CoinSolution)
  PROVE  ~DuplicateRemoval(sols) <=> Cardinality(RemovedCoins(sols)) = Len(sols)
<1>1. PICK b, ixs : b = [i \in DOMAIN sols |-> sols[i].coin] /\ ixs = DOMAIN sols
  <2>1. \E b : b = [i \in DOMAIN sols |-> sols[i].coin]
    OBVIOUS
  <2> QED BY <2>1
<1>2. RemovedCoins(sols) = {b[i] : i \in ixs}
  BY <1>1 DEF RemovedCoins
<1>3. Cardinality({b[i] : i \in ixs}) = Cardinality(ixs)
            <=> \A i, j \in ixs : b[i] = b[j] => i = j
  <2>1. IsFiniteSet(ixs)
    BY <1>1, SolutionFacts
  <2> QED BY <2>1, DistinctValues
<1>4. Cardinality(ixs) = Len(sols)
  <2>1. PICK n : n = Len(sols)
    OBVIOUS
  <2>2. ixs = 1 .. n /\ n \in Nat
    BY <1>1, <2>1, SolutionFacts
  <2>3. Cardinality(1 .. n) = n
    BY <2>2, FS_Interval
  <2> QED BY <2>1, <2>2, <2>3
<1>5. \A i \in ixs : b[i] \in Coin /\ b[i] = sols[i].coin
  BY <1>1, SolutionFacts
<1>6. DuplicateRemoval(sols) <=> \E i, j \in ixs : i # j /\ b[i] = b[j]
  BY <1>1, <1>5, CoinNameInjective DEF DuplicateRemoval
<1> QED BY <1>2, <1>3, <1>4, <1>6

LEMMA FarmedAmounts ==
  ASSUME TypeOK, NEW bundle \in SpendBundle, NEW h1 \in PuzzleHash, NEW h2 \in PuzzleHash,
         NEW body, body = FarmedBody(bundle, h1, h2)
  PROVE  FeesFit(bundle) /\ (\A c \in Additions(body) : ~(c.amount >= MAX_COIN_AMOUNT))
            <=> /\ Fees(bundle) \in 0 .. MAX_COIN_AMOUNT - 1
                /\ \A c \in OutputsOf(bundle.coin_solutions) : c.amount < MAX_COIN_AMOUNT
<1>1. /\ Additions(body) =
            {body.coinbase_coin, body.fees_coin} \cup OutputsOf(bundle.coin_solutions)
      /\ body.coinbase_coin.amount = REWARD /\ body.fees_coin.amount = Fees(bundle)
  BY FarmedFacts DEF TypeOK
<1>2. \A c \in OutputsOf(bundle.coin_solutions) : c.amount \in Int
  BY OutputParent DEF SpendBundle, Coin
<1>3. Fees(bundle) \in Int
  BY FeesType
<1>4. /\ REWARD \in Nat /\ REWARD < MAX_COIN_AMOUNT /\ MAX_COIN_AMOUNT \in Nat
      /\ UINT64_LIMIT \in Nat /\ MAX_COIN_AMOUNT <= UINT64_LIMIT
  BY RewardAssumption, MaxCoinAmountAssumption, LimitAssumption
<1>5. FeesFit(bundle) <=> Fees(bundle) \in 0 .. UINT64_LIMIT - 1
  BY DEF FeesFit
<1>6. (\A c \in Additions(body) : ~(c.amount >= MAX_COIN_AMOUNT))
        <=> /\ ~(REWARD >= MAX_COIN_AMOUNT) /\ ~(Fees(bundle) >= MAX_COIN_AMOUNT)
            /\ \A c \in OutputsOf(bundle.coin_solutions) : ~(c.amount >= MAX_COIN_AMOUNT)
  BY <1>1
<1>7. (\A c \in OutputsOf(bundle.coin_solutions) : ~(c.amount >= MAX_COIN_AMOUNT))
        <=> \A c \in OutputsOf(bundle.coin_solutions) : c.amount < MAX_COIN_AMOUNT
  BY <1>2, <1>4
<1> QED BY <1>3, <1>4, <1>5, <1>6, <1>7

-----------------------------------------------------------------------------
(* What is pending is in the stores, with the next block's index *)

PendingInStores ==
    \A c \in OutputsOf(spend_bundle.coin_solutions) :
        c \in preimage_db /\ unspent_db[CoinName(c)].confirmed_block_index = tip_index + 1

LEMMA NothingPending == OutputsOf(EmptyBundle.coin_solutions) = {}
BY DEF EmptyBundle, OutputsOf, OutputSlots

LEMMA AcceptedInStores ==
  ASSUME IInv, NEW tx \in SpendBundle, RevealsKnownPuzzles(tx.coin_solutions),
         NEW time \in Nat, AcceptTx(tx, time)
  PROVE  PendingInStores'
<1>1. PICK agg, body : agg = Aggregate(spend_bundle, tx) /\ body = FarmedBody(agg, ZERO_PH, FF_PH)
  OBVIOUS
<1>2. /\ WriteDeltas(body) /\ spend_bundle' = agg /\ chain' = chain
      /\ agg \in SpendBundle /\ Extends(body)
  BY <1>1, AcceptedTx DEF AcceptTx
<1>3. OutputsOf(agg.coin_solutions) \subseteq Additions(body)
  BY <1>1, <1>2, HashAssumption, FarmedFacts DEF IInv, TypeOK
<1>4. ASSUME NEW c \in OutputsOf(agg.coin_solutions)
      PROVE  c \in preimage_db' /\ unspent_db'[CoinName(c)].confirmed_block_index = tip_index + 1
  BY <1>2, <1>3, NewRecord DEF WriteDeltas, IInv, Extends
<1>5. tip_index' = tip_index
  BY <1>2 DEF tip_index
<1> QED BY <1>2, <1>4, <1>5 DEF PendingInStores

LEMMA InStoresAnswered ==
  ASSUME IInv, PendingInStores, NEW time \in Nat, Answered(time)
  PROVE  PendingInStores'
<1>1. ASSUME NEW tx \in Bundle, AcceptTx(tx, time) PROVE PendingInStores'
  BY <1>1, BundleFacts, AcceptedInStores
<1>2. ASSUME NEW h \in RewardHashes, FarmBlock(h[1], h[2], time) PROVE PendingInStores'
  BY <1>2, NothingPending DEF FarmBlock, PendingInStores
<1>3. ASSUME UNCHANGED <<viewVars, spend_bundle>> PROVE PendingInStores'
  BY <1>3 DEF viewVars, PendingInStores, tip_index
<1>4. ASSUME NEW tx \in Bundle, RefuseTx(tx, time) PROVE PendingInStores'
  BY <1>3, <1>4 DEF RefuseTx
<1>5. ASSUME NEW h \in RewardHashes, RefuseBlock(h[1], h[2], time) PROVE PendingInStores'
  BY <1>3, <1>5 DEF RefuseBlock
<1> QED BY <1>1, <1>2, <1>4, <1>5 DEF Answered

-----------------------------------------------------------------------------
(* What the lookups of accept_new_block find *)

\* A coin of the chain, whatever body is being checked.
LEMMA FoundOnChain ==
  ASSUME IInv, NEW body, NEW c \in ChainAdditions
  PROVE  LET unspent == UnspentFor(body, CoinName(c)) IN
         /\ c \in preimage_db
         /\ CreationIndex(c) \in 1 .. tip_index
         /\ unspent.confirmed_block_index = CreationIndex(c)
         /\ IsConfirmed(unspent)
         /\ IsSpentOnChain(unspent) <=> c \in ChainRemovals
<1>1. tip_index \in Nat /\ DOMAIN chain = 1 .. tip_index
  BY TipIndex DEF IInv, ViewIInv
<1>2. PICK i : i \in CreatedIn(c) /\ i = CreationIndex(c)
  <2>1. CreatedIn(c) # {}
    BY DEF ChainAdditions, CreatedIn
  <2> QED BY <2>1 DEF CreationIndex
<1>3. i \in DOMAIN chain /\ c \in Additions(chain[i])
  BY <1>2 DEF CreatedIn
<1>4. c \in preimage_db /\ unspent_db[CoinName(c)].confirmed_block_index = i
  BY <1>3 DEF IInv, ViewIInv, ConfirmedMatches
<1>5. UnspentFor(body, CoinName(c)) = unspent_db[CoinName(c)]
  BY <1>4 DEF UnspentFor, IInv, ViewIInv, StoresAgree, Names
<1>6. \A j \in DOMAIN chain :
        c \in Removals(chain[j]) <=> unspent_db[CoinName(c)].spent_block_index = j
  BY <1>3, ViewDbMatchesChain DEF DbMatchesChain, IInv
<1>7. IsSpentOnChain(UnspentFor(body, CoinName(c))) <=> c \in ChainRemovals
  BY <1>1, <1>5, <1>6 DEF IsSpentOnChain, ChainRemovals
<1>8. IsConfirmed(UnspentFor(body, CoinName(c)))
  BY <1>1, <1>3, <1>4, <1>5 DEF IsConfirmed
<1> QED BY <1>1, <1>2, <1>3, <1>4, <1>5, <1>7, <1>8

\* A coin the bundle itself creates.
LEMMA FoundAmongOutputs ==
  ASSUME IInv, PendingInStores, NEW bundle \in SpendBundle,
         NEW h1 \in PuzzleHash, NEW h2 \in PuzzleHash,
         NEW body, body = FarmedBody(bundle, h1, h2),
         NEW c \in OutputsOf(bundle.coin_solutions), c \notin ChainAdditions
  PROVE  /\ UnspentFor(body, CoinName(c)).confirmed_block_index = tip_index + 1
         /\ CreationIndex(c) = tip_index + 1
<1>1. CreationIndex(c) = tip_index + 1
  BY DEF CreationIndex, CreatedIn, ChainAdditions
<1>2. bundle.coin_solutions \in Seq(CoinSolution)
  BY DEF SpendBundle
<1>3. PICK r \in RemovedCoins(bundle.coin_solutions) : c.parent_coin_info = CoinName(r)
  BY <1>2, OutputParent
<1>4. c \in Coin /\ \A i : c.parent_coin_info # BlockIndexHash(i)
  BY <1>2, <1>3, OutputParent, RemovalsAreCoins, BlockIndexHashIsNoCoin
<1>5. CASE CoinName(c) \in DOMAIN unspent_db
  <2>1. preimage_db \subseteq Coin
    BY DEF IInv, TypeOK, ViewTypeOK
  <2>2. c \in preimage_db
    BY <1>4, <1>5, <2>1, NamesOfCoins DEF IInv, ViewIInv, StoresAgree
  <2>3. c \in OutputsOf(spend_bundle.coin_solutions)
    BY <1>4, <2>2 DEF IInv, StrayCoinsAreTrialRewards
  <2> QED BY <1>1, <1>5, <2>3 DEF PendingInStores, UnspentFor
<1>6. CASE CoinName(c) \notin DOMAIN unspent_db
  <2>1. c \in Additions(body)
    BY FarmedFacts DEF IInv, TypeOK
  <2> QED BY <1>1, <1>6, <2>1 DEF UnspentFor, Names
<1> QED BY <1>5, <1>6

\* Every removal is known, and created by the block or on the chain and unspent.
RemovalsFound(body) ==
    /\ Removals(body) \subseteq KnownCoins(body)
    /\ \A r \in Removals(body) :
            \/ r \in Additions(body)
            \/ /\ IsConfirmed(UnspentFor(body, CoinName(r)))
               /\ ~IsSpentOnChain(UnspentFor(body, CoinName(r)))

Spendable(bundle) ==
    RemovedCoins(bundle.coin_solutions) \subseteq
        (ChainAdditions \ ChainRemovals) \cup OutputsOf(bundle.coin_solutions)

LEMMA SpendableIsFound ==
  ASSUME IInv, NEW bundle \in SpendBundle, NEW h1 \in PuzzleHash, NEW h2 \in PuzzleHash,
         NEW body, body = FarmedBody(bundle, h1, h2), Spendable(bundle)
  PROVE  RemovalsFound(body)
<1>1. /\ Removals(body) = RemovedCoins(bundle.coin_solutions)
      /\ OutputsOf(bundle.coin_solutions) \subseteq Additions(body)
  BY FarmedFacts DEF IInv, TypeOK
<1>2. ASSUME NEW c \in ChainAdditions \ ChainRemovals
      PROVE  /\ c \in preimage_db
             /\ IsConfirmed(UnspentFor(body, CoinName(c)))
             /\ ~IsSpentOnChain(UnspentFor(body, CoinName(c)))
  BY FoundOnChain
<1> QED BY <1>1, <1>2 DEF RemovalsFound, Spendable, KnownCoins

\* The trial block's own reward coins and those of earlier trial blocks are
\* found too, but no solution reveals their puzzles.
LEMMA FoundIsSpendable ==
  ASSUME IInv, NEW bundle \in SpendBundle,
         RevealsKnownPuzzles(bundle.coin_solutions),
         OutputsOf(spend_bundle.coin_solutions) \subseteq OutputsOf(bundle.coin_solutions),
         NEW body, body = FarmedBody(bundle, ZERO_PH, FF_PH),
         \A i \in DOMAIN bundle.coin_solutions : PuzzleMatches(bundle.coin_solutions[i]),
         RemovalsFound(body)
  PROVE  Spendable(bundle)
<1> SUFFICES ASSUME NEW c \in RemovedCoins(bundle.coin_solutions),
                    c \notin OutputsOf(bundle.coin_solutions)
             PROVE  c \in ChainAdditions /\ c \notin ChainRemovals
  BY DEF Spendable
<1>1. /\ Removals(body) = RemovedCoins(bundle.coin_solutions)
      /\ Additions(body) = {body.coinbase_coin, body.fees_coin}
                                \cup OutputsOf(bundle.coin_solutions)
      /\ body.coinbase_coin.puzzle_hash = ZERO_PH /\ body.fees_coin.puzzle_hash = FF_PH
  BY HashAssumption, FarmedFacts DEF IInv, TypeOK
<1>2. c.puzzle_hash \notin {ZERO_PH, FF_PH}
  BY DEF RemovedCoins, PuzzleMatches, RevealsKnownPuzzles
<1>3. c \notin Additions(body)
  BY <1>1, <1>2
<1>4. /\ c \in preimage_db
      /\ ~IsSpentOnChain(UnspentFor(body, CoinName(c)))
  BY <1>1, <1>3 DEF RemovalsFound, KnownCoins
<1>5. c \in ChainAdditions
  BY <1>2, <1>4 DEF IInv, StrayCoinsAreTrialRewards
<1> QED BY <1>4, <1>5, FoundOnChain

LEMMA ConditionsAgree ==
  ASSUME IInv, PendingInStores, NEW bundle \in SpendBundle,
         NEW h1 \in PuzzleHash, NEW h2 \in PuzzleHash,
         NEW body, body = FarmedBody(bundle, h1, h2),
         NEW sol \in CoinSolution,
         sol.coin \in ChainAdditions \cup OutputsOf(bundle.coin_solutions)
  PROVE  ConditionsMet(body, sol, now) <=> LegalConditions(bundle.coin_solutions, sol)
<1>1. Removals(body) = RemovedCoins(bundle.coin_solutions)
  BY FarmedFacts DEF IInv, TypeOK
<1>2. tip_index \in Nat
  BY TipIndex DEF IInv, ViewIInv
<1>3. PICK index : index = CreationIndex(sol.coin)
  OBVIOUS
<1>4. /\ UnspentFor(body, CoinName(sol.coin)).confirmed_block_index = index
      /\ index \in Nat
  <2>1. CASE sol.coin \in ChainAdditions
    BY <1>2, <1>3, <2>1, FoundOnChain
  <2>2. CASE sol.coin \notin ChainAdditions
    BY <1>2, <1>3, <2>2, FoundAmongOutputs
  <2> QED BY <2>1, <2>2
<1>5. sol.conditions.block_age_exceeds \subseteq Int
  BY DEF CoinSolution, Condition
<1>6. \A g \in sol.conditions.block_age_exceeds :
        BlockAgeExceeds(g, UnspentFor(body, CoinName(sol.coin))) <=> tip_index + 1 - index > g
  BY <1>2, <1>4, <1>5 DEF BlockAgeExceeds
<1> QED
  BY <1>1, <1>3, <1>6
     DEF ConditionsMet, LegalConditions, TimeExceeds, BlockIndexExceeds

-----------------------------------------------------------------------------
(* The trial block and the chain agree *)

\* A bundle that the chain makes legal can be farmed with any two puzzle hashes
\* that keep the rewards apart.
LEMMA LegalIsFarmable ==
  ASSUME IInv, PendingInStores, NEW bundle \in SpendBundle,
         NEW h1 \in PuzzleHash, NEW h2 \in PuzzleHash,
         h1 # h2 \/ Fees(bundle) # REWARD,
         now < CLOCK_LIMIT, LegalOnChain(bundle)
  PROVE  AllPass(NewChainView(bundle, h1, h2, now))
<1>1. PICK body : body = FarmedBody(bundle, h1, h2)
  OBVIOUS
<1>2. PICK sols : sols = bundle.coin_solutions
  OBVIOUS
<1>3. /\ TypeOK /\ sols \in Seq(CoinSolution)
      /\ body.coin_solutions = sols
      /\ body.aggregated_signature = bundle.aggregated_signature
  BY <1>1, <1>2, FarmedFacts DEF IInv, TypeOK, SpendBundle
<1>4. /\ ValidSignature(bundle.aggregated_signature, sols)
      /\ Fees(bundle) \in 0 .. MAX_COIN_AMOUNT - 1
      /\ Cardinality(RemovedCoins(sols)) = Len(sols)
      /\ Cardinality(OutputsOf(sols)) = Cardinality(OutputSlots(sols))
      /\ RemovedCoins(sols) \subseteq (ChainAdditions \ ChainRemovals) \cup OutputsOf(sols)
      /\ \A c \in OutputsOf(sols) : c.amount < MAX_COIN_AMOUNT
      /\ \A i \in DOMAIN sols :
            sols[i].puzzle_hash = sols[i].coin.puzzle_hash /\ LegalConditions(sols, sols[i])
  BY <1>2 DEF LegalOnChain
<1>5. FeesFit(bundle) /\ \A c \in Additions(body) : ~(c.amount >= MAX_COIN_AMOUNT)
  BY <1>1, <1>2, <1>3, <1>4, FarmedAmounts
<1>6. ~DuplicateOutput(body)
  BY <1>1, <1>2, <1>3, <1>4, FarmedOutputs
<1>7. ~DuplicateRemoval(sols)
  BY <1>3, <1>4, DistinctRemovals
<1>8. RemovalsFound(body)
  BY <1>1, <1>2, <1>4, SpendableIsFound DEF Spendable
<1>9. BlockSurplus(body) = REWARD
  BY <1>1, <1>3, FarmedSurplus
<1>10. ASSUME NEW i \in DOMAIN sols
       PROVE  PuzzleMatches(sols[i]) /\ ConditionsMet(body, sols[i], now)
  <2>1. sols[i] \in CoinSolution /\ sols[i].coin \in RemovedCoins(sols)
    BY <1>3, SolutionFacts DEF RemovedCoins
  <2>2. sols[i].coin \in ChainAdditions \cup OutputsOf(sols)
    BY <1>4, <2>1
  <2>3. ConditionsMet(body, sols[i], now)
    BY <1>1, <1>2, <1>4, <2>1, <2>2, ConditionsAgree
  <2> QED BY <1>4, <2>3 DEF PuzzleMatches
<1>11. Acceptable(body, now)
  BY <1>3, <1>4, <1>5, <1>6, <1>7, <1>8, <1>9, <1>10 DEF Acceptable, RemovalsFound
<1> QED BY <1>1, <1>2, <1>3, <1>4, <1>5, <1>11, NewChainViewIff DEF TypeOK

\* The converse for trial blocks, also for one that has read the clock before.
LEMMA TrialIsLegal ==
  ASSUME IInv, PendingInStores, NEW bundle \in SpendBundle,
         RevealsKnownPuzzles(bundle.coin_solutions),
         OutputsOf(spend_bundle.coin_solutions) \subseteq OutputsOf(bundle.coin_solutions),
         NEW time \in 0 .. now, AllPass(NewChainView(bundle, ZERO_PH, FF_PH, time))
  PROVE  LegalOnChain(bundle) /\ time < CLOCK_LIMIT
<1>1. PICK body : body = FarmedBody(bundle, ZERO_PH, FF_PH)
  OBVIOUS
<1>2. PICK sols : sols = bundle.coin_solutions
  OBVIOUS
<1>3. /\ TypeOK /\ sols \in Seq(CoinSolution)
      /\ ZERO_PH \in PuzzleHash /\ FF_PH \in PuzzleHash /\ ZERO_PH # FF_PH
      /\ body.coin_solutions = sols
      /\ body.aggregated_signature = bundle.aggregated_signature
  BY <1>1, <1>2, HashAssumption, FarmedFacts DEF IInv, TypeOK, SpendBundle
<1>4. /\ ValidSignature(bundle.aggregated_signature, sols)
      /\ FeesFit(bundle) /\ Acceptable(body, now) /\ time < CLOCK_LIMIT
  <2>1. time \in Nat /\ now \in Nat /\ time <= now
    BY <1>3 DEF TypeOK
  <2>2. /\ ValidSignature(bundle.aggregated_signature, sols)
        /\ FeesFit(bundle) /\ Acceptable(body, time) /\ time < CLOCK_LIMIT
    BY <1>1, <1>2, <2>1, NewChainViewIff
  <2> QED BY <1>3, <2>1, <2>2, AcceptableLater
<1>5. /\ \A c \in Additions(body) : ~(c.amount >= MAX_COIN_AMOUNT)
      /\ ~DuplicateOutput(body) /\ ~DuplicateRemoval(sols)
      /\ RemovalsFound(body)
      /\ \A i \in DOMAIN sols : PuzzleMatches(sols[i]) /\ ConditionsMet(body, sols[i], now)
  BY <1>3, <1>4 DEF Acceptable, RemovalsFound
<1>6. /\ Fees(bundle) \in 0 .. MAX_COIN_AMOUNT - 1
      /\ \A c \in OutputsOf(sols) : c.amount < MAX_COIN_AMOUNT
  BY <1>1, <1>2, <1>3, <1>4, <1>5, FarmedAmounts
<1>7. Cardinality(OutputsOf(sols)) = Cardinality(OutputSlots(sols))
  BY <1>1, <1>2, <1>3, <1>5, FarmedOutputs
<1>8. Cardinality(RemovedCoins(sols)) = Len(sols)
  BY <1>3, <1>5, DistinctRemovals
<1>9. RemovedCoins(sols) \subseteq (ChainAdditions \ ChainRemovals) \cup OutputsOf(sols)
  BY <1>1, <1>2, <1>5, FoundIsSpendable DEF Spendable
<1>10. ASSUME NEW i \in DOMAIN sols
       PROVE  sols[i].puzzle_hash = sols[i].coin.puzzle_hash /\ LegalConditions(sols, sols[i])
  <2>1. sols[i] \in CoinSolution /\ sols[i].coin \in RemovedCoins(sols)
    BY <1>3, SolutionFacts DEF RemovedCoins
  <2>2. sols[i].coin \in ChainAdditions \cup OutputsOf(sols)
    BY <1>9, <2>1
  <2>3. LegalConditions(sols, sols[i])
    BY <1>1, <1>2, <1>3, <1>5, <2>1, <2>2, ConditionsAgree
  <2> QED BY <1>5, <2>3 DEF PuzzleMatches
<1> QED BY <1>2, <1>4, <1>6, <1>7, <1>8, <1>9, <1>10 DEF LegalOnChain

-----------------------------------------------------------------------------
(* push_tx *)

LEMMA PushTxChecksIff ==
  ASSUME IInv, NEW tx \in SpendBundle, NEW time \in Nat
  PROVE  AllPass(PushTxChecks(tx, time)) <=>
            /\ ValidSignature(tx.aggregated_signature, tx.coin_solutions)
            /\ AllPass(NewChainView(Aggregate(spend_bundle, tx), ZERO_PH, FF_PH, time))
<1> DEFINE e == Raise(~ValidSignature(tx.aggregated_signature, tx.coin_solutions), "ValueError")
           errs == NewChainView(Aggregate(spend_bundle, tx), ZERO_PH, FF_PH, time)
<1>1. errs \in Seq(Reply)
  BY AggregateFacts, NewChainViewIff DEF IInv, TypeOK
<1>2. /\ e \in Reply
      /\ e = "OK" <=> ValidSignature(tx.aggregated_signature, tx.coin_solutions)
  BY DEF Raise, Reply
<1>3. PushTxChecks(tx, time) = <<e>> \o errs
  BY DEF PushTxChecks
<1> HIDE DEF e, errs
<1>4. <<e>> \in Seq(Reply)
  BY <1>2
<1>5. AllPass(<<e>> \o errs) <=> AllPass(<<e>>) /\ AllPass(errs)
  BY <1>1, <1>4, AllPassConcatIff
<1>6. AllPass(<<e>>) <=> e = "OK"
  BY DEF AllPass
<1> QED BY <1>2, <1>3, <1>5, <1>6 DEF errs

LEMMA TxJudgedByChain ==
  ASSUME IInv, PendingInStores, NEW tx \in SpendBundle, RevealsKnownPuzzles(tx.coin_solutions)
  PROVE  /\ AllPass(PushTxChecks(tx, now)) <=>
                /\ now < CLOCK_LIMIT
                /\ ValidSignature(tx.aggregated_signature, tx.coin_solutions)
                /\ LegalOnChain(Aggregate(spend_bundle, tx))
         /\ \A time \in 0 .. now :
                AllPass(PushTxChecks(tx, time)) => LegalOnChain(Aggregate(spend_bundle, tx))
<1>1. PICK agg : agg = Aggregate(spend_bundle, tx)
  OBVIOUS
<1>2. /\ agg \in SpendBundle /\ RevealsKnownPuzzles(agg.coin_solutions)
      /\ OutputsOf(spend_bundle.coin_solutions) \subseteq OutputsOf(agg.coin_solutions)
  BY <1>1, AggregateFacts DEF IInv, TypeOK
<1>3. ASSUME NEW time \in 0 .. now, AllPass(NewChainView(agg, ZERO_PH, FF_PH, time))
      PROVE  LegalOnChain(agg) /\ time < CLOCK_LIMIT
  BY <1>2, <1>3, TrialIsLegal
<1>4. ASSUME LegalOnChain(agg), now < CLOCK_LIMIT
      PROVE  AllPass(NewChainView(agg, ZERO_PH, FF_PH, now))
  BY <1>2, <1>4, HashAssumption, LegalIsFarmable
<1>5. now \in 0 .. now /\ 0 .. now \subseteq Nat
  BY DEF IInv, TypeOK
<1> QED BY <1>1, <1>3, <1>4, <1>5, PushTxChecksIff

LEMMA JudgedByChain == IInv /\ PendingInStores => PushTxJudgesByChain
BY BundleFacts, TxJudgedByChain DEF PushTxJudgesByChain

-----------------------------------------------------------------------------
(* What is pending stays legal *)

LEMMA LegalKept ==
  ASSUME NEW bundle \in SpendBundle, LegalOnChain(bundle),
         chain' = chain, now \in Nat, now' \in Nat, now' >= now
  PROVE  LegalOnChain(bundle)'
<1>1. /\ tip_index' = tip_index /\ ChainAdditions' = ChainAdditions
      /\ ChainRemovals' = ChainRemovals
      /\ \A c : CreationIndex(c)' = CreationIndex(c)
  BY DEF tip_index, ChainAdditions, ChainRemovals, CreationIndex, CreatedIn
<1>2. PICK sols : sols = bundle.coin_solutions
  OBVIOUS
<1>3. ASSUME NEW i \in DOMAIN sols, LegalConditions(sols, sols[i])
      PROVE  LegalConditions(sols, sols[i])'
  <2>1. sols[i].conditions.time_exceeds \subseteq Int
    BY <1>2, SolutionFacts DEF SpendBundle, Condition
  <2>2. \A t \in sols[i].conditions.time_exceeds : now > t => now' > t
    BY <2>1
  <2> QED BY <1>1, <1>3, <2>2 DEF LegalConditions
<1> QED BY <1>1, <1>2, <1>3 DEF LegalOnChain

LEMMA EmptyIsLegal == LegalOnChain(EmptyBundle)
<1>1. EmptyBundle.coin_solutions = <<>> /\ EmptyBundle.aggregated_signature = ZERO96
  BY DEF EmptyBundle
<1>2. DOMAIN <<>> = {} /\ Len(<<>>) = 0
  OBVIOUS
<1>3. OutputSlots(<<>>) = {} /\ OutputsOf(<<>>) = {} /\ RemovedCoins(<<>>) = {}
  BY <1>2 DEF OutputSlots, OutputsOf, RemovedCoins
<1>4. Cardinality({}) = 0
  BY FS_EmptySet
<1>5. ValidSignature(ZERO96, <<>>)
  <2>1. HashKeyPairs(<<>>) = ZERO96
    BY <1>2, SumOfNothing DEF HashKeyPairs, ZERO96, SumFunction
  <2> QED BY <2>1 DEF ValidSignature
<1>6. AmountIn(<<>>) = 0 /\ AmountOut(<<>>) = 0
  BY <1>2, <1>3, SumOfNothing DEF AmountIn, AmountOut, SumFunction
<1>7. Fees(EmptyBundle) \in 0 .. MAX_COIN_AMOUNT - 1
  BY <1>1, <1>6, RewardAssumption, MaxCoinAmountAssumption DEF Fees
<1> QED BY <1>1, <1>2, <1>3, <1>4, <1>5, <1>7 DEF LegalOnChain

PendingIsLegal == LegalOnChain(spend_bundle)

LEMMA AcceptedIsLegal ==
  ASSUME IInv, PendingInStores, NEW tx \in SpendBundle, RevealsKnownPuzzles(tx.coin_solutions),
         NEW time \in 0 .. now, AcceptTx(tx, time)
  PROVE  PendingIsLegal'
<1>1. PICK agg : agg = Aggregate(spend_bundle, tx)
  OBVIOUS
<1>2. /\ AllPass(PushTxChecks(tx, time))
      /\ spend_bundle' = agg /\ chain' = chain /\ now' = now /\ now \in Nat
  BY <1>1 DEF AcceptTx, IInv, TypeOK
<1>3. agg \in SpendBundle /\ LegalOnChain(agg)
  BY <1>1, <1>2, AcceptedTx, TxJudgedByChain
<1>4. LegalOnChain(agg)'
  BY <1>2, <1>3, LegalKept
<1> QED BY <1>2, <1>4 DEF PendingIsLegal

LEMMA LegalAnswered ==
  ASSUME IInv, PendingInStores, PendingIsLegal, NEW time \in 0 .. now, Answered(time)
  PROVE  PendingIsLegal'
<1>1. now \in Nat /\ spend_bundle \in SpendBundle
  BY DEF IInv, TypeOK
<1>2. ASSUME NEW tx \in Bundle, AcceptTx(tx, time) PROVE PendingIsLegal'
  BY <1>2, BundleFacts, AcceptedIsLegal
<1>3. ASSUME NEW h \in RewardHashes, FarmBlock(h[1], h[2], time) PROVE PendingIsLegal'
  <2>1. spend_bundle' = EmptyBundle
    BY <1>3 DEF FarmBlock
  <2>2. LegalOnChain(EmptyBundle)'
    BY EmptyIsLegal, PTL
  <2> QED BY <2>1, <2>2 DEF PendingIsLegal
<1>4. ASSUME UNCHANGED <<viewVars, spend_bundle, now>> PROVE PendingIsLegal'
  BY <1>1, <1>4, LegalKept DEF viewVars, PendingIsLegal
<1>5. ASSUME NEW tx \in Bundle, RefuseTx(tx, time) PROVE PendingIsLegal'
  BY <1>4, <1>5 DEF RefuseTx
<1>6. ASSUME NEW h \in RewardHashes, RefuseBlock(h[1], h[2], time) PROVE PendingIsLegal'
  BY <1>4, <1>6 DEF RefuseBlock
<1> QED BY <1>2, <1>3, <1>5, <1>6 DEF Answered

LEMMA PendingLater ==
  ASSUME IInv, PendingInStores, PendingIsLegal,
         UNCHANGED <<viewVars, spend_bundle>>, now' \in Nat, now' >= now
  PROVE  PendingInStores' /\ PendingIsLegal'
<1>1. now \in Nat /\ spend_bundle \in SpendBundle
  BY DEF IInv, TypeOK
<1>2. chain' = chain /\ spend_bundle' = spend_bundle
  BY DEF viewVars
<1>3. PICK bundle : bundle = spend_bundle
  OBVIOUS
<1>4. LegalOnChain(bundle)'
  BY <1>1, <1>2, <1>3, LegalKept DEF PendingIsLegal
<1>5. PendingIsLegal'
  BY <1>2, <1>3, <1>4 DEF PendingIsLegal
<1> QED BY <1>5 DEF viewVars, PendingInStores, tip_index

LEMMA PendingStep ==
  ASSUME IInv, PendingInStores, PendingIsLegal, [Next]_vars
  PROVE  PendingInStores' /\ PendingIsLegal'
<1>1. now \in Nat
  BY DEF IInv, TypeOK
<1>2. CASE Answered(now)
  BY <1>1, <1>2, InStoresAnswered, LegalAnswered
<1>3. ASSUME NEW ms \in Skip, SkipMilliseconds(ms)
      PROVE  PendingInStores' /\ PendingIsLegal'
  <2>1. now' \in Nat /\ now' >= now
    BY <1>1, <1>3, ClockAssumption DEF SkipMilliseconds
  <2> QED BY <1>3, <2>1, PendingLater DEF SkipMilliseconds
<1>4. CASE UNCHANGED vars
  BY <1>1, <1>4, PendingLater DEF vars, viewVars
<1> QED BY <1>2, <1>3, <1>4 DEF Next

LEMMA PendingInductive == Spec => [](PendingInStores /\ PendingIsLegal)
<1>1. Init => PendingInStores /\ PendingIsLegal
  <2> SUFFICES ASSUME Init PROVE PendingInStores /\ PendingIsLegal
    OBVIOUS
  <2>1. spend_bundle = EmptyBundle
    BY DEF Init
  <2> QED BY <2>1, NothingPending, EmptyIsLegal DEF PendingInStores, PendingIsLegal
<1>2. IInv /\ PendingInStores /\ PendingIsLegal /\ [Next]_vars
        => PendingInStores' /\ PendingIsLegal'
  BY PendingStep
<1> QED BY <1>1, <1>2, Inductive, PTL DEF Spec

-----------------------------------------------------------------------------
(* The theorems *)

\* As long as a timestamp can hold the clock, push_tx accepts a bundle if and
\* only if it is legal on top of the blocks together with what is pending: the
\* traces that earlier trial blocks left in the stores neither let a bundle
\* pass nor make one fail.  Once the clock is past that, it accepts none.
THEOREM JudgedByTheChain == Spec => []PushTxJudgesByChain
BY Inductive, PendingInductive, JudgedByChain, PTL

LEMMA PendingIsFarmable == IInv /\ PendingInStores /\ PendingIsLegal => MempoolFarmable
<1> SUFFICES ASSUME IInv, PendingInStores, PendingIsLegal, NEW h \in RewardHashes
             PROVE  AllPass(NewChainView(spend_bundle, h[1], h[2], now)) <=>
                        /\ now < CLOCK_LIMIT
                        /\ h[1] # h[2] \/ Fees(spend_bundle) # REWARD
  BY DEF MempoolFarmable
<1>1. /\ h[1] \in PuzzleHash /\ h[2] \in PuzzleHash
      /\ TypeOK /\ spend_bundle \in SpendBundle /\ now \in Nat
  BY HashAssumption DEF IInv, TypeOK
<1>2. ASSUME now < CLOCK_LIMIT, h[1] # h[2] \/ Fees(spend_bundle) # REWARD
      PROVE  AllPass(NewChainView(spend_bundle, h[1], h[2], now))
  BY <1>1, <1>2, LegalIsFarmable DEF PendingIsLegal
<1>3. ASSUME h[1] = h[2], Fees(spend_bundle) = REWARD
      PROVE  ~AllPass(NewChainView(spend_bundle, h[1], h[2], now))
  <2>1. PICK body : body = FarmedBody(spend_bundle, h[1], h[2])
    OBVIOUS
  <2>2. DuplicateOutput(body)
    BY <1>1, <1>3, <2>1, EqualRewards
  <2> QED BY <1>1, <2>1, <2>2, NewChainViewIff DEF Acceptable
<1>4. AllPass(NewChainView(spend_bundle, h[1], h[2], now)) => now < CLOCK_LIMIT
  BY <1>1, NewChainViewIff
<1> QED BY <1>2, <1>3, <1>4

\* As long as a timestamp can hold the clock, whatever has been accepted can be
\* farmed with any puzzle hashes that keep the two reward coins apart, and with
\* no others.  Once the clock is past that, no block can be farmed.
THEOREM PendingCanBeFarmed == Spec => []MempoolFarmable
BY PendingIsFarmable, Inductive, PendingInductive, PTL
=============================================================================
