---------------------------- MODULE LedgerProofs ----------------------------
(***************************************************************************)
(* The ledger's safety for every set of puzzle hashes, bundles and farming *)
(* requests and for chains of any length: what the database holds, how     *)
(* much money there is, and that the ledger implements UtxoLedger.  TLC    *)
(* checks the same properties on the instances of MCLedger.                *)
(***************************************************************************)
EXTENDS Ledger, ChainViewProofs

-----------------------------------------------------------------------------
(* The inductive invariant *)

\* A record of the next index is the trace of what a pending bundle removes.
PendingIsRemoved ==
    \A c \in preimage_db :
        unspent_db[CoinName(c)].spent_block_index = tip_index + 1
            => c \in RemovedCoins(spend_bundle.coin_solutions)

RevealsKnownPuzzles(sols) ==
    \A i \in DOMAIN sols : sols[i].puzzle_hash \notin {ZERO_PH, FF_PH}

IInv ==
    /\ TypeOK
    /\ ViewIInv
    /\ PendingIsRemoved
    /\ StrayCoinsAreTrialRewards
    /\ RevealsKnownPuzzles(spend_bundle.coin_solutions)

-----------------------------------------------------------------------------
(* Bundles *)

LEMMA AggregateSignatureType ==
  ASSUME NEW s \in Signature, NEW t \in Signature
  PROVE  AggregateSignature(s, t) \in Signature
BY DEF AggregateSignature, Signature

LEMMA EmptyBundleType == EmptyBundle \in SpendBundle
<1>1. ZERO96 \in Signature
  BY DEF ZERO96, Signature
<1>2. <<>> \in Seq(CoinSolution)
  OBVIOUS
<1> QED BY <1>1, <1>2 DEF EmptyBundle, SpendBundle

LEMMA ConcatPrefix ==
  ASSUME NEW S, NEW s \in Seq(S), NEW t \in Seq(S)
  PROVE  \A i \in DOMAIN s : i \in DOMAIN (s \o t) /\ (s \o t)[i] = s[i]
<1>1. /\ Len(s) \in Nat /\ Len(t) \in Nat
      /\ DOMAIN s = 1 .. Len(s)
      /\ DOMAIN (s \o t) = 1 .. Len(s) + Len(t)
      /\ \A i \in 1 .. Len(s) + Len(t) :
            (s \o t)[i] = IF i <= Len(s) THEN s[i] ELSE t[i - Len(s)]
  BY ConcatProperties, LenProperties
<1> QED BY <1>1

LEMMA ConcatReveals ==
  ASSUME NEW s \in Seq(CoinSolution), NEW t \in Seq(CoinSolution),
         RevealsKnownPuzzles(s), RevealsKnownPuzzles(t)
  PROVE  RevealsKnownPuzzles(s \o t)
<1> SUFFICES ASSUME NEW i \in DOMAIN (s \o t)
             PROVE  (s \o t)[i].puzzle_hash \notin {ZERO_PH, FF_PH}
  BY DEF RevealsKnownPuzzles
<1>1. /\ Len(s) \in Nat /\ Len(t) \in Nat
      /\ DOMAIN s = 1 .. Len(s) /\ DOMAIN t = 1 .. Len(t)
      /\ i \in 1 .. Len(s) + Len(t)
      /\ (s \o t)[i] = IF i <= Len(s) THEN s[i] ELSE t[i - Len(s)]
  BY ConcatProperties, LenProperties
<1>2. CASE i <= Len(s)
  <2>1. i \in DOMAIN s /\ (s \o t)[i] = s[i]
    BY <1>1, <1>2
  <2> QED BY <2>1 DEF RevealsKnownPuzzles
<1>3. CASE ~(i <= Len(s))
  <2>1. i - Len(s) \in DOMAIN t /\ (s \o t)[i] = t[i - Len(s)]
    BY <1>1, <1>3
  <2> QED BY <2>1 DEF RevealsKnownPuzzles
<1> QED BY <1>2, <1>3

\* An aggregate removes what its parts remove and keeps their outputs.
LEMMA AggregateFacts ==
  ASSUME NEW m \in SpendBundle, NEW tx \in SpendBundle
  PROVE  LET agg == Aggregate(m, tx) IN
         /\ agg \in SpendBundle
         /\ RemovedCoins(m.coin_solutions) \subseteq RemovedCoins(agg.coin_solutions)
         /\ OutputsOf(m.coin_solutions) \subseteq OutputsOf(agg.coin_solutions)
         /\ RevealsKnownPuzzles(m.coin_solutions) /\ RevealsKnownPuzzles(tx.coin_solutions)
                => RevealsKnownPuzzles(agg.coin_solutions)
<1> DEFINE ms == m.coin_solutions
           ts == tx.coin_solutions
           as == Aggregate(m, tx).coin_solutions
<1>1. ms \in Seq(CoinSolution) /\ ts \in Seq(CoinSolution) /\ as = ms \o ts
  BY DEF SpendBundle, Aggregate
<1>2. as \in Seq(CoinSolution)
  BY <1>1, ConcatProperties
<1>3. Aggregate(m, tx) \in SpendBundle
  <2>1. /\ m.aggregated_signature \in Signature
        /\ tx.aggregated_signature \in Signature
    BY DEF SpendBundle
  <2>2. AggregateSignature(m.aggregated_signature, tx.aggregated_signature) \in Signature
    BY <2>1, AggregateSignatureType
  <2> QED BY <1>2, <2>2 DEF Aggregate, SpendBundle
<1>4. \A i \in DOMAIN ms : i \in DOMAIN as /\ as[i] = ms[i]
  <2>1. \A i \in DOMAIN ms : i \in DOMAIN (ms \o ts) /\ (ms \o ts)[i] = ms[i]
    <3> HIDE DEF ms, ts, as
    <3> QED BY <1>1, ConcatPrefix
  <2>2. as = ms \o ts
    BY <1>1
  <2> QED BY <2>1, <2>2, Zenon
<1>5. RemovedCoins(ms) \subseteq RemovedCoins(as)
  <2> HIDE DEF ms, ts, as
  <2> QED BY <1>4 DEF RemovedCoins
<1>6. OutputsOf(ms) \subseteq OutputsOf(as)
  <2> HIDE DEF ms, ts, as
  <2>1. ASSUME NEW s \in OutputSlots(ms)
        PROVE  s \in OutputSlots(as) /\ Output(as, s) = Output(ms, s)
    <3>1. PICK i \in DOMAIN ms : s \in {i} \X DOMAIN ms[i].conditions.create_coin
      BY DEF OutputSlots
    <3>2. i \in DOMAIN as /\ as[i] = ms[i] /\ s[1] = i
      BY <1>4, <3>1
    <3>3. s \in OutputSlots(as)
      BY <3>1, <3>2 DEF OutputSlots
    <3> QED BY <3>2, <3>3 DEF Output
  <2> QED BY <2>1 DEF OutputsOf
<1>7. RevealsKnownPuzzles(ms) /\ RevealsKnownPuzzles(ts) => RevealsKnownPuzzles(as)
  BY <1>1, ConcatReveals
<1> QED BY <1>3, <1>5, <1>6, <1>7

-----------------------------------------------------------------------------
(* The bodies farm_new_block builds and accept_new_block lets pass *)

\* What trial and farmed bodies have in common.
Extends(body) == Extension(body) /\ RevealsKnownPuzzles(body.coin_solutions)

\* The list of new_chain_view is a list of replies, and all of it passes if and
\* only if the clock fits a timestamp, the signature and the fees are in order
\* and accept_new_block has nothing to say.
LEMMA NewChainViewIff ==
  ASSUME NEW bundle \in SpendBundle, NEW h1, NEW h2, NEW time \in Nat
  PROVE  /\ NewChainView(bundle, h1, h2, time) \in Seq(Reply)
         /\ AllPass(NewChainView(bundle, h1, h2, time)) <=>
                /\ time < CLOCK_LIMIT
                /\ ValidSignature(bundle.aggregated_signature, bundle.coin_solutions)
                /\ FeesFit(bundle)
                /\ Acceptable(FarmedBody(bundle, h1, h2), time)
<1> DEFINE body == FarmedBody(bundle, h1, h2)
           e1 == Raise(time >= FLOAT_LIMIT, "OverflowError")
           e2 == Raise(~ValidSignature(bundle.aggregated_signature, bundle.coin_solutions),
                       "AssertionError")
           e3 == Raise(~FeesFit(bundle) \/ time >= CLOCK_LIMIT, "struct.error")
           errs == AcceptNewBlock(body, time)
<1>1. body.coin_solutions \in Seq(CoinSolution)
  BY DEF FarmedBody, SpendBundle
<1>2. errs \in Seq(Err \cup {"OK"})
  <2> HIDE DEF body
  <2> QED BY <1>1, AcceptNewBlockType
<1>3. AllPass(errs) <=> Acceptable(body, time)
  <2> HIDE DEF body
  <2> QED BY <1>1, AcceptedIff
<1>4. /\ e1 = "OK" <=> ~(time >= FLOAT_LIMIT)
      /\ e2 = "OK" <=> ValidSignature(bundle.aggregated_signature, bundle.coin_solutions)
      /\ e3 = "OK" <=> FeesFit(bundle) /\ ~(time >= CLOCK_LIMIT)
      /\ e1 \in Reply /\ e2 \in Reply /\ e3 \in Reply
  BY DEF Raise, Reply
<1>5. NewChainView(bundle, h1, h2, time) = <<e1, e2, e3>> \o errs
  BY DEF NewChainView
<1>6. time < CLOCK_LIMIT <=> ~(time >= FLOAT_LIMIT) /\ ~(time >= CLOCK_LIMIT)
  BY ClockAssumption
<1> HIDE DEF e1, e2, e3, errs, body
<1>7. errs \in Seq(Reply)
  BY <1>2, SeqMonotonic DEF Reply
<1>8. <<e1, e2, e3>> \in Seq(Reply)
  BY <1>4
<1>9. AllPass(<<e1, e2, e3>> \o errs) <=> AllPass(<<e1, e2, e3>>) /\ AllPass(errs)
  BY <1>7, <1>8, AllPassConcatIff
<1>10. AllPass(<<e1, e2, e3>>) <=> e1 = "OK" /\ e2 = "OK" /\ e3 = "OK"
  BY DEF AllPass
<1>11. NewChainView(bundle, h1, h2, time) \in Seq(Reply)
  BY <1>5, <1>7, <1>8, ConcatProperties
<1> QED BY <1>3, <1>4, <1>5, <1>6, <1>9, <1>10, <1>11 DEF body

LEMMA NewChainViewOK ==
  ASSUME TypeOK, NEW bundle \in SpendBundle, NEW h1 \in PuzzleHash, NEW h2 \in PuzzleHash,
         RevealsKnownPuzzles(bundle.coin_solutions),
         NEW time \in Nat, AllPass(NewChainView(bundle, h1, h2, time))
  PROVE  /\ Extends(FarmedBody(bundle, h1, h2))
         /\ Fees(bundle) \in 0 .. UINT64_LIMIT - 1
<1>1. PICK body : body = FarmedBody(bundle, h1, h2)
  OBVIOUS
<1>2. FeesFit(bundle) /\ Acceptable(body, time)
  BY <1>1, NewChainViewIff
<1>3. /\ body \in Body
      /\ body.coin_solutions = bundle.coin_solutions
      /\ bundle.coin_solutions \in Seq(CoinSolution)
      /\ body.coinbase_coin.parent_coin_info = BlockIndexHash(tip_index + 1)
      /\ body.fees_coin.parent_coin_info = BlockIndexHash(tip_index + 1)
  BY <1>1, FarmedFacts DEF TypeOK, SpendBundle
<1>4. AllPass(AcceptNewBlock(body, time))
  BY <1>2, <1>3, AcceptedIff
<1> QED BY <1>1, <1>2, <1>3, <1>4 DEF Extends, Extension, FeesFit

\* Nobody spends a coin whose puzzle hash is one of the trial block's.
LEMMA TrialCoinsUnspent ==
  ASSUME NEW body, Extends(body), NEW c \in Removals(body)
  PROVE  c.puzzle_hash \notin {ZERO_PH, FF_PH}
<1>1. PICK i \in DOMAIN body.coin_solutions : c = body.coin_solutions[i].coin
  BY DEF Removals, RemovedCoins
<1>2. PuzzleMatches(body.coin_solutions[i])
  BY AcceptedBlock DEF Extends, Extension
<1>3. body.coin_solutions[i].puzzle_hash \notin {ZERO_PH, FF_PH}
  BY DEF Extends, RevealsKnownPuzzles
<1> QED BY <1>1, <1>2, <1>3 DEF PuzzleMatches

-----------------------------------------------------------------------------
(* The invariant is inductive: one lemma per action                        *)

LEMMA InitIInv == Init => IInv
<1> SUFFICES ASSUME Init PROVE IInv
  OBVIOUS
<1>1. /\ chain = <<>> /\ unspent_db = [n \in {} |-> NoUnspent] /\ preimage_db = {}
      /\ spend_bundle = EmptyBundle /\ now = 0 /\ reply = "OK"
  BY DEF Init, ViewInit
<1>2. ViewIInv
  BY ViewInitially DEF Init
<1>3. TypeOK
  BY <1>1, <1>2, EmptyBundleType DEF TypeOK, ViewIInv, Reply
<1>4. RevealsKnownPuzzles(spend_bundle.coin_solutions)
  BY <1>1 DEF RevealsKnownPuzzles, EmptyBundle
<1>5. PendingIsRemoved /\ StrayCoinsAreTrialRewards
  BY <1>1 DEF PendingIsRemoved, StrayCoinsAreTrialRewards
<1> QED BY <1>2, <1>3, <1>4, <1>5 DEF IInv

\* Requests that leave the chain, the stores and what is pending alone.
LEMMA UnchangedStep ==
  ASSUME IInv, UNCHANGED <<viewVars, spend_bundle>>, now' \in Nat, reply' \in Reply
  PROVE  IInv'
<1>1. /\ chain' = chain /\ unspent_db' = unspent_db
      /\ preimage_db' = preimage_db /\ spend_bundle' = spend_bundle
  BY DEF viewVars
<1>2. ViewIInv'
  BY ViewUnchanged DEF IInv
<1>3. TypeOK'
  BY <1>1, <1>2 DEF IInv, TypeOK, ViewIInv
<1> QED
  BY <1>1, <1>2, <1>3 DEF IInv, PendingIsRemoved, tip_index,
     StrayCoinsAreTrialRewards, RevealsKnownPuzzles, ChainAdditions

\* What clients may push (BundleAssumption)
LEMMA BundleFacts ==
  ASSUME NEW tx \in Bundle
  PROVE  tx \in SpendBundle /\ RevealsKnownPuzzles(tx.coin_solutions)
BY BundleAssumption DEF RevealsKnownPuzzles

\* What push_tx checks of the aggregate it would leave pending.
LEMMA AcceptedTx ==
  ASSUME IInv, NEW tx \in SpendBundle, RevealsKnownPuzzles(tx.coin_solutions),
         NEW time \in Nat, AllPass(PushTxChecks(tx, time))
  PROVE  /\ Aggregate(spend_bundle, tx) \in SpendBundle
         /\ RevealsKnownPuzzles(Aggregate(spend_bundle, tx).coin_solutions)
         /\ Extends(FarmedBody(Aggregate(spend_bundle, tx), ZERO_PH, FF_PH))
         /\ ValidSignature(tx.aggregated_signature, tx.coin_solutions)
<1> DEFINE agg == Aggregate(spend_bundle, tx)
           e == Raise(~ValidSignature(tx.aggregated_signature, tx.coin_solutions), "ValueError")
           errs == NewChainView(agg, ZERO_PH, FF_PH, time)
<1>1. spend_bundle \in SpendBundle
  BY DEF IInv, TypeOK
<1>3. agg \in SpendBundle /\ RevealsKnownPuzzles(agg.coin_solutions)
  BY <1>1, AggregateFacts DEF IInv
<1>4. AllPass(errs) /\ e = "OK"
  <2>1. errs \in Seq(Reply)
    <3> HIDE DEF agg
    <3> QED BY <1>3, NewChainViewIff
  <2>2. e \in Reply
    BY DEF Raise, Reply
  <2>3. PushTxChecks(tx, time) = <<e>> \o errs
    BY DEF PushTxChecks
  <2> HIDE DEF e, errs
  <2>4. <<e>> \in Seq(Reply)
    BY <2>2
  <2>5. AllPass(<<e>>) /\ AllPass(errs)
    BY <2>1, <2>3, <2>4, AllPassConcat
  <2> QED BY <2>5 DEF AllPass
<1>5. Extends(FarmedBody(agg, ZERO_PH, FF_PH))
  <2> HIDE DEF agg
  <2> QED BY <1>3, <1>4, HashAssumption, NewChainViewOK DEF IInv, agg
<1>6. ValidSignature(tx.aggregated_signature, tx.coin_solutions)
  BY <1>4 DEF Raise
<1> QED BY <1>3, <1>5, <1>6

LEMMA AcceptTxStep ==
  ASSUME IInv, NEW tx \in SpendBundle, RevealsKnownPuzzles(tx.coin_solutions),
         NEW time \in Nat, AcceptTx(tx, time)
  PROVE  IInv'
<1> DEFINE agg == Aggregate(spend_bundle, tx)
           body == FarmedBody(agg, ZERO_PH, FF_PH)
<1>1. /\ AllPass(PushTxChecks(tx, time)) /\ WriteDeltas(body)
      /\ spend_bundle' = agg /\ reply' = "OK" /\ chain' = chain /\ now' = now
  BY DEF AcceptTx
<1>2. agg \in SpendBundle /\ RevealsKnownPuzzles(agg.coin_solutions) /\ Extends(body)
  BY <1>1, AcceptedTx
<1>3. Removals(body) = RemovedCoins(agg.coin_solutions)
  BY DEF FarmedBody, Removals
<1>4. Additions(body) = {body.coinbase_coin, body.fees_coin} \cup OutputsOf(agg.coin_solutions)
  <2>1. body.coin_solutions = agg.coin_solutions
    BY DEF FarmedBody
  <2> HIDE DEF body
  <2> QED BY <1>2, <2>1, AdditionsAre DEF Extends, Extension
<1>5. /\ RemovedCoins(spend_bundle.coin_solutions) \subseteq Removals(body)
      /\ OutputsOf(spend_bundle.coin_solutions) \subseteq OutputsOf(agg.coin_solutions)
  BY <1>3, AggregateFacts DEF IInv, TypeOK
<1>6. body.coinbase_coin.puzzle_hash = ZERO_PH /\ body.fees_coin.puzzle_hash = FF_PH
  BY DEF FarmedBody, RewardCoin
<1>7. tip_index \in Nat /\ DOMAIN chain = 1 .. tip_index /\ tip_index' = tip_index
  BY <1>1, TipIndex DEF IInv, tip_index
<1>8. preimage_db' = preimage_db \cup Additions(body)
  BY <1>1 DEF WriteDeltas
<1> HIDE DEF agg, body
<1>9. ViewIInv'
  BY <1>1, <1>2, TrialStep DEF IInv, Extends
<1>10. TypeOK'
  BY <1>1, <1>2, <1>9 DEF IInv, TypeOK, ViewIInv, Reply
<1>11. PendingIsRemoved'
  <2> SUFFICES ASSUME NEW c \in preimage_db',
                      unspent_db'[CoinName(c)].spent_block_index = tip_index + 1
        PROVE  c \in Removals(body)
    BY <1>1, <1>3, <1>7 DEF PendingIsRemoved
  <2>1. \/ c \in Removals(body)
        \/ c \in preimage_db /\ unspent_db[CoinName(c)].spent_block_index = tip_index + 1
    BY <1>1, <1>2, SpentAfter DEF IInv, Extends
  <2> QED BY <1>5, <2>1 DEF IInv, PendingIsRemoved
<1>12. StrayCoinsAreTrialRewards'
  <2> SUFFICES ASSUME NEW c \in preimage_db' \ ChainAdditions,
                      c \notin OutputsOf(agg.coin_solutions)
        PROVE  /\ c.parent_coin_info \in {BlockIndexHash(i) : i \in 1 .. tip_index + 1}
               /\ c.puzzle_hash \in {ZERO_PH, FF_PH}
               /\ unspent_db'[CoinName(c)].spent_block_index = 0
    BY <1>1, <1>7 DEF StrayCoinsAreTrialRewards, ChainAdditions
  <2>1. CASE c \in Additions(body)
    <3>1. c \in {body.coinbase_coin, body.fees_coin}
      BY <1>4, <2>1
    <3>2. c.parent_coin_info = BlockIndexHash(tip_index + 1)
      BY <1>2, <3>1 DEF Extends, Extension
    <3>3. c.puzzle_hash \in {ZERO_PH, FF_PH}
      BY <1>6, <3>1
    <3>4. unspent_db'[CoinName(c)].spent_block_index = 0
      BY <1>1, <1>2, <2>1, <3>3, NewRecord, TrialCoinsUnspent DEF IInv, Extends
    <3> QED BY <1>7, <3>2, <3>3, <3>4
  <2>2. CASE c \notin Additions(body)
    <3>1. c \in preimage_db \ ChainAdditions
      BY <1>8, <2>2
    <3>2. c \notin OutputsOf(spend_bundle.coin_solutions)
      BY <1>5
    <3>3. /\ c.parent_coin_info \in {BlockIndexHash(i) : i \in 1 .. tip_index + 1}
          /\ c.puzzle_hash \in {ZERO_PH, FF_PH}
          /\ unspent_db[CoinName(c)].spent_block_index = 0
      BY <3>1, <3>2 DEF IInv, StrayCoinsAreTrialRewards
    <3>4. c \notin Removals(body)
      BY <1>2, <3>3, TrialCoinsUnspent
    <3>5. unspent_db'[CoinName(c)].spent_block_index = 0
      BY <1>1, <1>2, <2>2, <3>3, <3>4, NewRecord DEF IInv, Extends
    <3> QED BY <3>3, <3>5
  <2> QED BY <2>1, <2>2
<1>13. RevealsKnownPuzzles(spend_bundle'.coin_solutions)
  BY <1>1, <1>2 DEF Extends
<1> QED BY <1>9, <1>10, <1>11, <1>12, <1>13 DEF IInv

LEMMA FarmBlockStep ==
  ASSUME IInv, NEW h \in RewardHashes, NEW time \in Nat, FarmBlock(h[1], h[2], time)
  PROVE  IInv'
<1> DEFINE body == FarmedBody(spend_bundle, h[1], h[2])
           tip == tip_index
<1>1. /\ AllPass(NewChainView(spend_bundle, h[1], h[2], time)) /\ WriteDeltas(body)
      /\ chain' = Append(chain, body) /\ spend_bundle' = EmptyBundle
      /\ reply' = "OK" /\ now' = now
  BY DEF FarmBlock
<1>2. spend_bundle \in SpendBundle /\ h[1] \in PuzzleHash /\ h[2] \in PuzzleHash
  BY HashAssumption DEF IInv, TypeOK
<1>3. Extends(body) /\ Fees(spend_bundle) \in 0 .. UINT64_LIMIT - 1
  BY <1>1, <1>2, NewChainViewOK DEF IInv
<1>4. /\ body.coin_solutions = spend_bundle.coin_solutions
      /\ body.fees_coin.amount = Fees(spend_bundle)
      /\ Removals(body) = RemovedCoins(spend_bundle.coin_solutions)
  BY DEF FarmedBody, RewardCoin, Removals
<1> HIDE DEF body
<1>5. OutputsOf(spend_bundle.coin_solutions) \subseteq Additions(body)
  BY <1>3, <1>4, AdditionsAre DEF Extends, Extension
<1>6. tip \in Nat
  BY TipIndex DEF IInv, ViewIInv
<1>7. Removals(body) \subseteq Additions(body) \cup ChainAdditions
  <2> SUFFICES ASSUME NEW c \in Removals(body), c \notin Additions(body)
        PROVE  c \in ChainAdditions
    OBVIOUS
  <2>1. c \in preimage_db
    BY <1>3, AcceptedBlock DEF Extends, Extension, KnownCoins
  <2>2. c.puzzle_hash \notin {ZERO_PH, FF_PH}
    BY <1>3, TrialCoinsUnspent
  <2> QED BY <1>5, <2>1, <2>2 DEF IInv, StrayCoinsAreTrialRewards
<1>8. \A c \in preimage_db :
        unspent_db[CoinName(c)].spent_block_index = tip_index + 1 => c \in Removals(body)
  BY <1>4 DEF IInv, PendingIsRemoved
<1>9. /\ ViewIInv'
      /\ tip_index' = tip + 1
      /\ ChainAdditions' = ChainAdditions \cup Additions(body)
      /\ \A c \in preimage_db' : unspent_db'[CoinName(c)].spent_block_index < tip_index' + 1
  BY <1>1, <1>3, <1>7, <1>8, ChainStep DEF IInv, Extends
<1>10. preimage_db' = preimage_db \cup Additions(body)
  BY <1>1 DEF WriteDeltas
<1>11. \A i \in DOMAIN chain' : chain'[i].fees_coin.amount \in 0 .. UINT64_LIMIT - 1
  <2>1. chain \in Seq(Body) /\ body \in Body
    BY <1>3 DEF IInv, TypeOK, ViewTypeOK, Extends, Extension
  <2>2. /\ DOMAIN chain' = 1 .. Len(chain) + 1
        /\ DOMAIN chain = 1 .. Len(chain) /\ Len(chain) \in Nat
        /\ \A i \in 1 .. Len(chain) : chain'[i] = chain[i]
        /\ chain'[Len(chain) + 1] = body
    BY <1>1, <2>1, AppendProperties, LenProperties
  <2> QED BY <1>3, <1>4, <2>2 DEF IInv, TypeOK
<1>12. TypeOK'
  BY <1>1, <1>9, <1>11, EmptyBundleType DEF IInv, TypeOK, ViewIInv, Reply
<1>13. PendingIsRemoved'
  <2> SUFFICES ASSUME NEW c \in preimage_db',
                      unspent_db'[CoinName(c)].spent_block_index = tip_index' + 1
        PROVE  FALSE
    BY DEF PendingIsRemoved
  <2> QED BY <1>6, <1>9
<1> HIDE DEF tip
<1>14. StrayCoinsAreTrialRewards'
  <2> SUFFICES ASSUME NEW c \in preimage_db' \ ChainAdditions'
        PROVE  /\ c.parent_coin_info \in {BlockIndexHash(i) : i \in 1 .. tip + 2}
               /\ c.puzzle_hash \in {ZERO_PH, FF_PH}
               /\ unspent_db'[CoinName(c)].spent_block_index = 0
    BY <1>6, <1>9 DEF StrayCoinsAreTrialRewards
  <2>1. /\ c \in preimage_db \ ChainAdditions /\ c \notin Additions(body)
        /\ c \notin OutputsOf(spend_bundle.coin_solutions)
    BY <1>5, <1>9, <1>10
  <2>2. /\ c.parent_coin_info \in {BlockIndexHash(i) : i \in 1 .. tip + 1}
        /\ c.puzzle_hash \in {ZERO_PH, FF_PH}
        /\ unspent_db[CoinName(c)].spent_block_index = 0
    BY <2>1 DEF IInv, StrayCoinsAreTrialRewards, tip
  <2>3. c \notin Removals(body)
    BY <1>3, <2>2, TrialCoinsUnspent
  <2>4. unspent_db'[CoinName(c)].spent_block_index = 0
    BY <1>1, <1>3, <2>1, <2>2, <2>3, NewRecord DEF IInv, Extends
  <2> QED BY <1>6, <2>2, <2>4
<1>15. RevealsKnownPuzzles(spend_bundle'.coin_solutions)
  BY <1>1 DEF RevealsKnownPuzzles, EmptyBundle
<1> QED BY <1>9, <1>12, <1>13, <1>14, <1>15 DEF IInv

\* The error a refused request replies with is one of the list.
LEMMA RefusalType ==
  ASSUME IInv, NEW time \in Nat
  PROVE  /\ \A tx \in SpendBundle : FirstError(PushTxChecks(tx, time)) \in Reply
         /\ \A h1, h2 : FirstError(NewChainView(spend_bundle, h1, h2, time)) \in Reply
<1>1. ASSUME NEW h1, NEW h2
      PROVE  FirstError(NewChainView(spend_bundle, h1, h2, time)) \in Reply
  <2>1. NewChainView(spend_bundle, h1, h2, time) \in Seq(Reply)
    BY NewChainViewIff DEF IInv, TypeOK
  <2> QED BY <2>1, FirstErrorType DEF Reply
<1>2. ASSUME NEW tx \in SpendBundle
      PROVE  FirstError(PushTxChecks(tx, time)) \in Reply
  <2> DEFINE e == Raise(~ValidSignature(tx.aggregated_signature, tx.coin_solutions),
                        "ValueError")
             errs == NewChainView(Aggregate(spend_bundle, tx), ZERO_PH, FF_PH, time)
  <2>1. errs \in Seq(Reply)
    BY AggregateFacts, NewChainViewIff DEF IInv, TypeOK
  <2>2. e \in Reply
    BY DEF Raise, Reply
  <2>3. PushTxChecks(tx, time) = <<e>> \o errs
    BY DEF PushTxChecks
  <2> HIDE DEF e, errs
  <2>4. <<e>> \in Seq(Reply)
    BY <2>2
  <2>5. PushTxChecks(tx, time) \in Seq(Reply)
    BY <2>1, <2>3, <2>4, ConcatProperties
  <2> QED BY <2>5, FirstErrorType DEF Reply
<1> QED BY <1>1, <1>2

LEMMA AnsweredIInv ==
  ASSUME IInv, NEW time \in Nat, Answered(time)
  PROVE  IInv'
<1>1. ASSUME NEW tx \in Bundle, AcceptTx(tx, time) PROVE IInv'
  BY <1>1, BundleFacts, AcceptTxStep
<1>2. ASSUME NEW tx \in Bundle, RefuseTx(tx, time) PROVE IInv'
  <2>1. UNCHANGED <<viewVars, spend_bundle>> /\ now' = now /\ reply' \in Reply
    BY <1>2, BundleFacts, RefusalType DEF RefuseTx
  <2> QED BY <2>1, UnchangedStep DEF IInv, TypeOK
<1>3. ASSUME NEW h \in RewardHashes, FarmBlock(h[1], h[2], time) PROVE IInv'
  BY <1>3, FarmBlockStep
<1>4. ASSUME NEW h \in RewardHashes, RefuseBlock(h[1], h[2], time) PROVE IInv'
  <2>1. UNCHANGED <<viewVars, spend_bundle>> /\ now' = now /\ reply' \in Reply
    BY <1>4, RefusalType DEF RefuseBlock
  <2> QED BY <2>1, UnchangedStep DEF IInv, TypeOK
<1> QED BY <1>1, <1>2, <1>3, <1>4 DEF Answered

LEMMA NextIInv == IInv /\ [Next]_vars => IInv'
<1> SUFFICES ASSUME IInv, [Next]_vars PROVE IInv'
  OBVIOUS
<1>1. CASE Answered(now)
  BY <1>1, AnsweredIInv DEF IInv, TypeOK
<1>2. ASSUME NEW ms \in Skip, SkipMilliseconds(ms) PROVE IInv'
  <2>1. UNCHANGED <<viewVars, spend_bundle>> /\ now' \in Nat /\ reply' \in Reply
    BY <1>2, ClockAssumption DEF SkipMilliseconds, IInv, TypeOK, Reply
  <2> QED BY <2>1, UnchangedStep
<1>3. CASE UNCHANGED vars
  <2>1. UNCHANGED <<viewVars, spend_bundle>> /\ now' \in Nat /\ reply' \in Reply
    BY <1>3 DEF vars, viewVars, IInv, TypeOK
  <2> QED BY <2>1, UnchangedStep
<1> QED BY <1>1, <1>2, <1>3 DEF Next

\* The inductive invariant holds in every reachable state.
THEOREM Inductive == Spec => []IInv
BY InitIInv, NextIInv, PTL DEF Spec

-----------------------------------------------------------------------------
(* What follows                                                            *)

\* State, stores and replies keep their types; farmed fees fit 64 bits
\* (farm_new_block would otherwise fail to hash the body).
THEOREM TypeCorrect == Spec => []TypeOK
<1>1. IInv => TypeOK
  BY DEF IInv
<1> QED BY <1>1, Inductive, PTL

\* No coin is ever removed twice: not by accept_new_block's own checks alone
\* (a coin the block creates skips them), but because names commit to ancestry.
THEOREM NeverDoubleSpent == Spec => []NoDoubleSpend
<1>1. IInv => NoDoubleSpend
  BY ViewNoDoubleSpend DEF IInv
<1> QED BY <1>1, Inductive, PTL

\* Blocks spend only coins that blocks created, whatever trial blocks of
\* push_tx left in the stores.
THEOREM OnlyCreatedCoinsSpent == Spec => []SpentWereCreated
<1>1. IInv => SpentWereCreated
  BY DEF IInv, ViewIInv
<1> QED BY <1>1, Inductive, PTL

\* The database agrees with the chain on every coin of the chain, although
\* each push_tx applies the deltas of a block that is never kept to it.
THEOREM DatabaseCorrect == Spec => []DbMatchesChain
<1>1. IInv => DbMatchesChain
  BY ViewDbMatchesChain DEF IInv
<1> QED BY <1>1, Inductive, PTL

\* What the stores hold beyond the chain and the pending outputs is the
\* unspendable rewards of trial blocks.
THEOREM StrayCoinsHarmless == Spec => []StrayCoinsAreTrialRewards
<1>1. IInv => StrayCoinsAreTrialRewards
  BY DEF IInv
<1> QED BY <1>1, Inductive, PTL

\* A step that leaves the stores alone, or writes the deltas of one body.
LEMMA StepWrites ==
  ASSUME IInv, NEW time \in Nat, Answered(time)
  PROVE  \/ UNCHANGED viewVars
         \/ \E body : Extends(body) /\ WriteDeltas(body)
<1>1. ASSUME NEW tx \in Bundle, AcceptTx(tx, time)
      PROVE  \E body : Extends(body) /\ WriteDeltas(body)
  <2>1. Extends(FarmedBody(Aggregate(spend_bundle, tx), ZERO_PH, FF_PH))
    BY <1>1, BundleFacts, AcceptedTx DEF AcceptTx
  <2> QED BY <1>1, <2>1 DEF AcceptTx
<1>2. ASSUME NEW h \in RewardHashes, FarmBlock(h[1], h[2], time)
      PROVE  \E body : Extends(body) /\ WriteDeltas(body)
  <2>1. Extends(FarmedBody(spend_bundle, h[1], h[2]))
    BY <1>2, HashAssumption, NewChainViewOK DEF FarmBlock, IInv, TypeOK
  <2> QED BY <1>2, <2>1 DEF FarmBlock
<1> QED BY <1>1, <1>2 DEF Answered, RefuseTx, RefuseBlock

SpentKept ==
    \A n \in DOMAIN unspent_db : IsSpent(n) =>
        n \in DOMAIN unspent_db' /\ unspent_db'[n] = unspent_db[n]

CreationKept ==
    \A n \in Names(ChainAdditions) :
        /\ n \in DOMAIN unspent_db'
        /\ unspent_db'[n].confirmed_block_index = unspent_db[n].confirmed_block_index

LEMMA RecordsKept ==
  ASSUME IInv, UNCHANGED viewVars \/ \E body : Extends(body) /\ WriteDeltas(body)
  PROVE  SpentKept /\ CreationKept
<1>1. ASSUME NEW c \in ChainAdditions
      PROVE  \E i \in DOMAIN chain :
                /\ c \in Additions(chain[i])
                /\ CoinName(c) \in DOMAIN unspent_db
                /\ unspent_db[CoinName(c)].confirmed_block_index = i
  BY DEF ChainAdditions, IInv, ViewIInv, ConfirmedMatches, StoresAgree, Names
<1>2. CASE UNCHANGED viewVars
  BY <1>1, <1>2 DEF SpentKept, CreationKept, Names, viewVars
<1>3. ASSUME NEW body, Extends(body), WriteDeltas(body)
      PROVE  SpentKept /\ CreationKept
  <2>1. SpentKept
    BY <1>3, SpentRecordKept DEF IInv, Extends, SpentKept
  <2>2. ASSUME NEW c \in ChainAdditions
        PROVE  /\ CoinName(c) \in DOMAIN unspent_db'
               /\ unspent_db'[CoinName(c)].confirmed_block_index
                    = unspent_db[CoinName(c)].confirmed_block_index
    <3>1. PICK i \in DOMAIN chain :
                /\ c \in Additions(chain[i])
                /\ CoinName(c) \in DOMAIN unspent_db
                /\ unspent_db[CoinName(c)].confirmed_block_index = i
      BY <1>1
    <3>2. c \in preimage_db' /\ unspent_db'[CoinName(c)].confirmed_block_index = i
      BY <1>3, <3>1, ChainRecordsKept DEF IInv, Extends
    <3> QED BY <1>3, <3>1, <3>2, NewRecord DEF IInv, Extends
  <2> QED BY <2>1, <2>2 DEF CreationKept, Names
<1> QED BY <1>2, <1>3

LEMMA SpentStep == IInv /\ [Next]_vars => SpentKept /\ CreationKept
<1> SUFFICES ASSUME IInv, [Next]_vars PROVE SpentKept /\ CreationKept
  OBVIOUS
<1>1. CASE Answered(now)
  BY <1>1, StepWrites, RecordsKept DEF IInv, TypeOK
<1>2. ASSUME NEW ms \in Skip, SkipMilliseconds(ms) PROVE SpentKept /\ CreationKept
  BY <1>2, RecordsKept DEF SkipMilliseconds
<1>3. CASE UNCHANGED vars
  BY <1>3, RecordsKept DEF vars, viewVars
<1> QED BY <1>1, <1>2, <1>3 DEF Next

\* The record of a coin the chain has spent never changes again, and the record
\* of a coin on the chain never names another block of creation: no later
\* block, trial block or refused request touches them.
THEOREM SpentForGood == Spec => SpentRecordsAreFinal
<1>1. IInv /\ [Next]_vars => [SpentKept /\ CreationKept]_vars
  BY SpentStep
<1> QED
  BY <1>1, Inductive, PTL DEF Spec, SpentRecordsAreFinal, SpentKept, CreationKept

-----------------------------------------------------------------------------
(* Finitely many coins *)

LEMMA ChainFinite ==
  ASSUME IInv
  PROVE  IsFiniteSet(ChainAdditions) /\ ChainAdditions \in SUBSET Coin
<1>1. PICK b : b = [i \in DOMAIN chain |-> Additions(chain[i])]
  OBVIOUS
<1>2. ChainAdditions = UNION {b[i] : i \in DOMAIN chain}
  BY <1>1 DEF ChainAdditions
<1>3. \A i \in DOMAIN chain : IsFiniteSet(b[i]) /\ b[i] \subseteq Coin
  BY <1>1, TipIndex, AdditionFacts, AdditionsAre DEF IInv, ViewIInv
<1>4. IsFiniteSet(1 .. tip_index)
  BY TipIndex, FS_Interval DEF IInv, ViewIInv
<1>5. IsFiniteSet({b[i] : i \in 1 .. tip_index})
  BY <1>4, FiniteImage
<1>6. DOMAIN chain = 1 .. tip_index
  BY TipIndex DEF IInv, ViewIInv
<1>7. \A X \in {b[i] : i \in DOMAIN chain} : IsFiniteSet(X)
  BY <1>3
<1>8. IsFiniteSet(UNION {b[i] : i \in DOMAIN chain})
  BY <1>5, <1>6, <1>7, FS_UNION
<1> QED BY <1>2, <1>3, <1>8

-----------------------------------------------------------------------------
(* What a farmed block does to the coins of the chain *)

LEMMA FarmedBlock ==
  ASSUME IInv, NEW h \in RewardHashes, NEW time \in Nat, FarmBlock(h[1], h[2], time)
  PROVE  \E body :
            /\ Extends(body)
            /\ tip_index' = tip_index + 1
            /\ ChainAdditions' = ChainAdditions \cup Additions(body)
            /\ ChainRemovals' = ChainRemovals \cup Removals(body)
            /\ Additions(body) \cap ChainAdditions = {}
            /\ Removals(body) \cap ChainRemovals = {}
            /\ Removals(body) \subseteq ChainAdditions \cup Additions(body)
<1>1. PICK body : body = FarmedBody(spend_bundle, h[1], h[2])
  OBVIOUS
<1>2. /\ AllPass(NewChainView(spend_bundle, h[1], h[2], time)) /\ WriteDeltas(body)
      /\ chain' = Append(chain, body)
  BY <1>1 DEF FarmBlock
<1>3. Extends(body)
  BY <1>1, <1>2, NewChainViewOK, HashAssumption DEF IInv, TypeOK
<1>4. /\ tip_index' = tip_index + 1
      /\ DOMAIN chain' = 1 .. tip_index + 1
      /\ \A i \in 1 .. tip_index : chain'[i] = chain[i]
      /\ chain'[tip_index + 1] = body
  BY <1>2, <1>3, AppendProperties, LenProperties
     DEF Extends, tip_index, IInv, TypeOK, ViewTypeOK
<1>5. tip_index \in Nat /\ DOMAIN chain = 1 .. tip_index
  BY TipIndex DEF IInv, ViewIInv
<1>6. /\ ChainAdditions' = ChainAdditions \cup Additions(body)
      /\ ChainRemovals' = ChainRemovals \cup Removals(body)
  BY <1>4, <1>5 DEF ChainAdditions, ChainRemovals
<1>7. OutputsOf(spend_bundle.coin_solutions) \subseteq Additions(body)
  <2>1. body.coin_solutions = spend_bundle.coin_solutions
    BY <1>1 DEF FarmedBody
  <2> QED BY <1>3, <2>1, AdditionsAre DEF Extends, Extension
<1>8. ASSUME NEW c \in Removals(body), c \notin Additions(body)
      PROVE  c \in ChainAdditions
  <2>1. c \in preimage_db
    BY <1>3, <1>8, AcceptedBlock DEF Extends, KnownCoins, Extension
  <2>2. c.puzzle_hash \notin {ZERO_PH, FF_PH}
    BY <1>3, TrialCoinsUnspent
  <2> QED BY <1>7, <1>8, <2>1, <2>2 DEF IInv, StrayCoinsAreTrialRewards
<1> QED BY <1>3, <1>4, <1>6, <1>8, FreshAdditions, FreshRemovals DEF IInv, Extends

-----------------------------------------------------------------------------
(* The money in circulation *)

\* One block: what is unspent afterwards is worth one reward more.
LEMMA OneReward ==
  ASSUME IInv, NEW body, Extends(body),
         Additions(body) \cap ChainAdditions = {},
         Removals(body) \cap ChainRemovals = {},
         Removals(body) \subseteq ChainAdditions \cup Additions(body)
  PROVE  Value((ChainAdditions \cup Additions(body)) \ (ChainRemovals \cup Removals(body)))
            = Value(ChainAdditions \ ChainRemovals) + REWARD
<1>1. PICK U, A, R : /\ U = ChainAdditions \ ChainRemovals
                     /\ A = Additions(body) /\ R = Removals(body)
  OBVIOUS
<1>2. U \in SUBSET Coin /\ IsFiniteSet(U)
  BY <1>1, ChainFinite, FS_Subset
<1>3. A \in SUBSET Coin /\ IsFiniteSet(A) /\ R \in SUBSET Coin
  BY <1>1, AdditionFacts, AdditionsAre DEF Extends, Extension
<1>4. U \cap A = {} /\ R \in SUBSET (U \cup A)
  BY <1>1, RemovedWereAdded
<1>5. (ChainAdditions \cup Additions(body)) \ (ChainRemovals \cup Removals(body)) = (U \cup A) \ R
  BY <1>1, RemovedWereAdded DEF IInv
<1>6. Value(U \cup A) = Value(U) + Value(A)
  BY <1>2, <1>3, <1>4, ValueUnion
<1>7. U \cup A \in SUBSET Coin /\ IsFiniteSet(U \cup A)
  BY <1>2, <1>3, FS_Union
<1>8. Value((U \cup A) \ R) = Value(U \cup A) - Value(R)
  BY <1>4, <1>7, ValueDifference
<1>9. Value(A) - Value(R) = REWARD
  BY <1>1, AcceptedOutputs DEF Extends, Extension
<1>10. Value(U) \in Int /\ Value(A) \in Int /\ Value(R) \in Int
  <2>1. IsFiniteSet(R)
    BY <1>4, <1>7, FS_Subset
  <2> QED BY <1>2, <1>3, <2>1, ValueType
<1>11. Value((U \cup A) \ R) = Value(U) + REWARD
  BY <1>6, <1>8, <1>9, <1>10, RewardAssumption
<1> QED BY <1>1, <1>5, <1>11

LEMMA SupplyAnswered ==
  ASSUME IInv, SupplyConserved, NEW time \in Nat, Answered(time)
  PROVE  SupplyConserved'
<1>1. ASSUME NEW h \in RewardHashes, FarmBlock(h[1], h[2], time) PROVE SupplyConserved'
  <2>1. PICK body :
            /\ Extends(body)
            /\ tip_index' = tip_index + 1
            /\ ChainAdditions' = ChainAdditions \cup Additions(body)
            /\ ChainRemovals' = ChainRemovals \cup Removals(body)
            /\ Additions(body) \cap ChainAdditions = {}
            /\ Removals(body) \cap ChainRemovals = {}
            /\ Removals(body) \subseteq ChainAdditions \cup Additions(body)
    BY <1>1, FarmedBlock
  <2>2. Value((ChainAdditions \cup Additions(body)) \ (ChainRemovals \cup Removals(body)))
            = Value(ChainAdditions \ ChainRemovals) + REWARD
    BY <2>1, OneReward
  <2>3. Value(ChainAdditions' \ ChainRemovals') = Value(ChainAdditions \ ChainRemovals) + REWARD
    BY <2>1, <2>2
  <2>4. REWARD * (tip_index + 1) = REWARD * tip_index + REWARD
    BY TipIndex, RewardAssumption DEF IInv, ViewIInv
  <2> QED BY <2>1, <2>3, <2>4 DEF SupplyConserved
<1>2. ASSUME chain' = chain PROVE SupplyConserved'
  BY <1>2 DEF SupplyConserved, ChainAdditions, ChainRemovals, tip_index
<1>3. ASSUME NEW tx \in Bundle, AcceptTx(tx, time) \/ RefuseTx(tx, time) PROVE SupplyConserved'
  BY <1>2, <1>3 DEF AcceptTx, RefuseTx, viewVars
<1>4. ASSUME NEW h \in RewardHashes, RefuseBlock(h[1], h[2], time) PROVE SupplyConserved'
  BY <1>2, <1>4 DEF RefuseBlock, viewVars
<1> QED BY <1>1, <1>3, <1>4 DEF Answered

LEMMA SupplyStep ==
  ASSUME IInv, SupplyConserved, [Next]_vars
  PROVE  SupplyConserved'
<1>1. ASSUME chain' = chain PROVE SupplyConserved'
  BY <1>1 DEF SupplyConserved, ChainAdditions, ChainRemovals, tip_index
<1>2. CASE Answered(now)
  BY <1>2, SupplyAnswered DEF IInv, TypeOK
<1>3. ASSUME NEW ms \in Skip, SkipMilliseconds(ms) PROVE SupplyConserved'
  BY <1>1, <1>3 DEF SkipMilliseconds, viewVars
<1>4. CASE UNCHANGED vars
  BY <1>1, <1>4 DEF vars
<1> QED BY <1>2, <1>3, <1>4 DEF Next

LEMMA InitialSupply == Init => SupplyConserved
<1> SUFFICES ASSUME Init PROVE SupplyConserved
  OBVIOUS
<1>1. chain = <<>>
  BY DEF Init, ViewInit
<1>2. tip_index = 0 /\ ChainAdditions = {}
  BY <1>1 DEF tip_index, ChainAdditions
<1>3. Value({}) = 0
  BY SumOfNothing DEF Value, SumFunction
<1>4. REWARD * 0 = 0
  BY RewardAssumption
<1> QED BY <1>2, <1>3, <1>4 DEF SupplyConserved

\* What no block has spent is worth one reward per block, in every reachable
\* state: spends, fees and farming create and destroy nothing.
THEOREM MoneyConserved == Spec => []SupplyConserved
<1>1. IInv /\ SupplyConserved /\ [Next]_vars => SupplyConserved'
  BY SupplyStep
<1> QED BY <1>1, InitialSupply, Inductive, PTL DEF Spec

-----------------------------------------------------------------------------
(* Ledger implements UtxoLedger *)

\* The database, as clients read it, says "spent" of what the blocks removed.
ReadAsBlocksSay ==
    /\ SpentCoins = ChainRemovals
    /\ SpendableCoins = ChainAdditions \ ChainRemovals
    /\ ChainRemovals \subseteq ChainAdditions

LEMMA SpentOnChain == IInv => ReadAsBlocksSay
<1> HAVE IInv
<1>1. ASSUME NEW c \in ChainAdditions
      PROVE  IsSpent(CoinName(c)) <=> c \in ChainRemovals
  <2>1. PICK i \in DOMAIN chain : c \in Additions(chain[i])
    BY DEF ChainAdditions
  <2>2. CoinName(c) \in DOMAIN unspent_db
    BY <2>1, ViewDbMatchesChain DEF DbMatchesChain, IInv
  <2>3. \A j \in DOMAIN chain :
            c \in Removals(chain[j]) <=> unspent_db[CoinName(c)].spent_block_index = j
    BY <2>1, ViewDbMatchesChain DEF DbMatchesChain, IInv
  <2>4. DOMAIN chain = 1 .. tip_index
    BY TipIndex DEF IInv, ViewIInv
  <2> QED BY <2>2, <2>3, <2>4 DEF IsSpent, ChainRemovals
<1> QED BY <1>1, RemovedWereAdded DEF ReadAsBlocksSay, SpentCoins, SpendableCoins, IInv

\* The two reward coins of a block are the only ones of its coins that
\* descend from its index, and they differ.
LEMMA TwoRewards ==
  ASSUME NEW body, Extends(body)
  PROVE  Cardinality({c \in Additions(body) :
                        c.parent_coin_info = BlockIndexHash(tip_index + 1)}) = 2
<1> DEFINE x == body.coinbase_coin
           y == body.fees_coin
<1>1. body \in Body /\ body.coin_solutions \in Seq(CoinSolution)
  BY DEF Extends, Body, Extension
<1>2. x # y
  <2>1. ~DuplicateOutput(body)
    BY AcceptedOutputs DEF Extends, Extension
  <2>2. CoinbaseSlot \in AdditionSlots(body) /\ FeesSlot \in AdditionSlots(body)
    BY DEF AdditionSlots
  <2>3. CoinbaseSlot # FeesSlot
    BY DEF CoinbaseSlot, FeesSlot
  <2>4. AdditionAt(body, CoinbaseSlot) = x /\ AdditionAt(body, FeesSlot) = y
    BY <2>3 DEF AdditionAt
  <2> QED BY <2>1, <2>2, <2>3, <2>4 DEF DuplicateOutput
<1>3. Additions(body) = {x, y} \cup OutputsOf(body.coin_solutions)
  BY <1>1, AdditionsAre
<1>4. x.parent_coin_info = BlockIndexHash(tip_index + 1)
      /\ y.parent_coin_info = BlockIndexHash(tip_index + 1)
  BY DEF Extends, Extension
<1>5. ASSUME NEW c \in OutputsOf(body.coin_solutions)
      PROVE  c.parent_coin_info # BlockIndexHash(tip_index + 1)
  <2>1. PICK r \in RemovedCoins(body.coin_solutions) : c.parent_coin_info = CoinName(r)
    BY <1>1, OutputParent
  <2>2. r \in Coin
    BY <1>1, RemovalsAreCoins
  <2> QED BY <2>1, <2>2, BlockIndexHashIsNoCoin
<1> HIDE DEF x, y
<1>6. {c \in Additions(body) : c.parent_coin_info = BlockIndexHash(tip_index + 1)} = {x} \cup {y}
  BY <1>3, <1>4, <1>5
<1>7. Cardinality({x} \cup {y}) = 2
  <2>1. IsFiniteSet({x}) /\ Cardinality({x}) = 1
    BY FS_Singleton
  <2>2. y \notin {x}
    BY <1>2
  <2> QED BY <2>1, <2>2, FS_AddElement
<1> QED BY <1>6, <1>7

LEMMA UtxoValue == \A coins : Utxo!Value(coins) = Value(coins)
BY DEF Utxo!Value, Value, Utxo!SumFunction, SumFunction,
       Utxo!SumFunctionOnSet, SumFunctionOnSet, Utxo!FoldFunctionOnSet, FoldFunctionOnSet,
       Utxo!MapThenFoldSet, MapThenFoldSet

LEMMA UtxoCardinality == \A coins : Utxo!Cardinality(coins) = Cardinality(coins)
BY DEF Utxo!Cardinality, Cardinality

LEMMA UtxoInitially == Init => Utxo!UtxoInit
<1> SUFFICES ASSUME Init PROVE Utxo!UtxoInit
  OBVIOUS
<1>1. chain = <<>>
  BY DEF Init, ViewInit
<1>2. tip_index = 0 /\ ChainAdditions = {}
  BY <1>1 DEF tip_index, ChainAdditions
<1> QED BY <1>2 DEF Utxo!UtxoInit, SpendableCoins, SpentCoins

\* A farmed block is a Block of UtxoLedger.
LEMMA FarmBlockIsBlock ==
  ASSUME IInv, IInv', SupplyConserved, SupplyConserved',
         NEW h \in RewardHashes, NEW time \in Nat, FarmBlock(h[1], h[2], time)
  PROVE  Utxo!Block
<1>1. PICK body :
        /\ Extends(body)
        /\ tip_index' = tip_index + 1
        /\ ChainAdditions' = ChainAdditions \cup Additions(body)
        /\ ChainRemovals' = ChainRemovals \cup Removals(body)
        /\ Additions(body) \cap ChainAdditions = {}
        /\ Removals(body) \cap ChainRemovals = {}
        /\ Removals(body) \subseteq ChainAdditions \cup Additions(body)
  BY FarmedBlock
<1>2. PICK A, R : A = Additions(body) /\ R = Removals(body)
  OBVIOUS
<1>3. /\ SpentCoins = ChainRemovals /\ SpendableCoins = ChainAdditions \ ChainRemovals
      /\ ChainRemovals \subseteq ChainAdditions
  BY SpentOnChain DEF ReadAsBlocksSay
<1>4. /\ SpentCoins' = ChainRemovals' /\ SpendableCoins' = ChainAdditions' \ ChainRemovals'
      /\ ChainRemovals' \subseteq ChainAdditions'
  <2>1. ReadAsBlocksSay'
    BY SpentOnChain, PTL
  <2> QED BY <2>1 DEF ReadAsBlocksSay
<1>5. (SpendableCoins' \cup SpentCoins') \ (SpendableCoins \cup SpentCoins) = A
  BY <1>1, <1>2, <1>3, <1>4
<1>6. SpentCoins' \ SpentCoins = R
  BY <1>1, <1>2, <1>3, <1>4
<1>7. /\ SpentCoins \subseteq SpentCoins'
      /\ SpendableCoins \subseteq SpendableCoins' \cup SpentCoins'
      /\ SpendableCoins' \cap SpentCoins' = {}
  BY <1>1, <1>3, <1>4
<1>8. Cardinality({c \in A : c.parent_coin_info = BlockIndexHash(tip_index')}) = 2
  BY <1>1, <1>2, TwoRewards
<1>9. \A c \in A : c.parent_coin_info \in {BlockIndexHash(tip_index')} \cup Names(R)
  BY <1>1, <1>2, ParentInNewBody DEF Names, IInv, Extends
<1>10. Value(SpendableCoins') = Value(SpendableCoins) + REWARD
  <2>1. REWARD * (tip_index + 1) = REWARD * tip_index + REWARD
    BY TipIndex, RewardAssumption DEF IInv, ViewIInv
  <2> QED BY <1>1, <1>3, <1>4, <2>1 DEF SupplyConserved
<1>11. Utxo!Value(SpendableCoins) = Value(SpendableCoins)
       /\ Utxo!Value(SpendableCoins') = Value(SpendableCoins')
  BY UtxoValue
<1>12. /\ \A X : Utxo!Names(X) = Names(X)
       /\ \A i : Utxo!BlockIndexHash(i) = BlockIndexHash(i)
  BY DEF Utxo!Names, Names, Utxo!CoinName, CoinName, Utxo!BlockIndexHash, BlockIndexHash
<1>13. /\ Utxo!Cardinality({c \in A : c.parent_coin_info = Utxo!BlockIndexHash(tip_index')}) = 2
       /\ \A c \in A :
            c.parent_coin_info \in {Utxo!BlockIndexHash(tip_index')} \cup Utxo!Names(R)
       /\ Utxo!Value(SpendableCoins') = Utxo!Value(SpendableCoins) + REWARD
  BY <1>8, <1>9, <1>10, <1>11, <1>12, UtxoCardinality
<1>14. tip_index' = tip_index + 1
  BY <1>1
<1> QED BY <1>5, <1>6, <1>7, <1>13, <1>14 DEF Utxo!Block

\* Every other request leaves what clients read of the chain's coins as it is.
LEMMA OthersStutter ==
  ASSUME IInv, IInv', chain' = chain
  PROVE  UNCHANGED <<SpendableCoins, SpentCoins, tip_index>>
<1>1. ChainAdditions' = ChainAdditions /\ ChainRemovals' = ChainRemovals
      /\ tip_index' = tip_index
  BY DEF ChainAdditions, ChainRemovals, tip_index
<1>2. SpentCoins = ChainRemovals /\ SpendableCoins = ChainAdditions \ ChainRemovals
  BY SpentOnChain DEF ReadAsBlocksSay
<1>3. SpentCoins' = ChainRemovals' /\ SpendableCoins' = ChainAdditions' \ ChainRemovals'
  <2>1. ReadAsBlocksSay'
    BY SpentOnChain, PTL
  <2> QED BY <2>1 DEF ReadAsBlocksSay
<1> QED BY <1>1, <1>2, <1>3

LEMMA UtxoAnswered ==
  ASSUME IInv, SupplyConserved, IInv', SupplyConserved', NEW time \in Nat, Answered(time)
  PROVE  Utxo!Block \/ UNCHANGED <<SpendableCoins, SpentCoins, tip_index>>
<1>1. ASSUME NEW h \in RewardHashes, FarmBlock(h[1], h[2], time) PROVE Utxo!Block
  BY <1>1, FarmBlockIsBlock
<1>2. ASSUME NEW tx \in Bundle, AcceptTx(tx, time) \/ RefuseTx(tx, time) PROVE chain' = chain
  BY <1>2 DEF AcceptTx, RefuseTx, viewVars
<1>3. ASSUME NEW h \in RewardHashes, RefuseBlock(h[1], h[2], time) PROVE chain' = chain
  BY <1>3 DEF RefuseBlock, viewVars
<1> QED BY <1>1, <1>2, <1>3, OthersStutter DEF Answered

LEMMA UtxoStep ==
  ASSUME IInv, SupplyConserved, IInv', SupplyConserved', [Next]_vars
  PROVE  Utxo!Block \/ UNCHANGED <<SpendableCoins, SpentCoins, tip_index>>
<1>1. CASE Answered(now)
  BY <1>1, UtxoAnswered DEF IInv, TypeOK
<1>2. ASSUME NEW ms \in Skip, SkipMilliseconds(ms) PROVE chain' = chain
  BY <1>2 DEF SkipMilliseconds, viewVars
<1>3. ASSUME UNCHANGED vars PROVE chain' = chain
  BY <1>3 DEF vars
<1> QED BY <1>1, <1>2, <1>3, OthersStutter DEF Next

\* Ledger implements UtxoLedger: every block spends coins for good, creates
\* coins of known ancestry and adds one reward; no other request shows.
THEOREM UtxoRefinement == Spec => ImplementsUtxoLedger
<1>1. /\ IInv /\ SupplyConserved /\ IInv' /\ SupplyConserved' /\ [Next]_vars
      => [Utxo!Block]_(Utxo!utxoVars)
  BY UtxoStep DEF Utxo!utxoVars
<1> QED
  BY <1>1, UtxoInitially, Inductive, MoneyConserved, PTL
     DEF Spec, ImplementsUtxoLedger, Utxo!UtxoSpec
=============================================================================
