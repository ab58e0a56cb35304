--------------------------- MODULE ReceiverProofs ---------------------------
(***************************************************************************)
(* Blocks of others, for every set of bodies, farmed or not, and for       *)
(* chains of any length: as long as every block that was refused with its  *)
(* deltas written is the next one taken, and reward coins descend from     *)
(* their block's index, the stores agree with the chain and that block can *)
(* be taken.                                                               *)
(***************************************************************************)
EXTENDS BlockReceiver, ChainViewProofs

-----------------------------------------------------------------------------
(* The inductive invariant *)

\* The blocks whose deltas are written and whose place is still free.
Waiting == {r \in refused : r.written /\ r.index = tip_index + 1}

\* What the stores hold beyond the chain was written for a waiting block.
PhantomsAreWaiting ==
    \A c \in preimage_db \ ChainAdditions :
        /\ unspent_db[CoinName(c)].confirmed_block_index = tip_index + 1
        /\ \E r \in Waiting : c \in Additions(r.body)

MarksAreWaiting ==
    \A c \in preimage_db :
        unspent_db[CoinName(c)].spent_block_index = tip_index + 1
            => \E r \in Waiting : c \in Removals(r.body)

WaitingPass ==
    \A r \in Waiting : Extension(r.body) /\ AllPass(AcceptNewBlock(r.body, now))

StoresInOrder == ViewIInv /\ PhantomsAreWaiting /\ MarksAreWaiting /\ WaitingPass

ReceiverIInv ==
    /\ ReceiverTypeOK
    /\ \A r \in refused : r.written => r.index \in 1 .. tip_index + 1
    /\ Orderly => StoresInOrder

-----------------------------------------------------------------------------
(* Offered blocks *)

LEMMA FreshBody ==
  ASSUME ViewTypeOK, NEW block \in FreshBlocks
  PROVE  block.body \in Body
<1>1. PICK body \in FarmedBodies \cup OtherBody : block = [previous |-> chain, body |-> body]
  BY DEF FreshBlocks
<1>2. CASE body \in FarmedBodies
  <2>1. PICK tx \in Bundle, h \in RewardHashes : body = FarmedBody(tx, h[1], h[2])
    BY <1>2 DEF FarmedBodies
  <2>2. tx \in SpendBundle /\ h[1] \in PuzzleHash /\ h[2] \in PuzzleHash
    BY ForeignAssumption
  <2> QED BY <1>1, <2>1, <2>2, FarmedFacts
<1>3. CASE body \in OtherBody
  BY <1>1, <1>3, ForeignAssumption
<1> QED BY <1>2, <1>3

LEMMA OfferedBody ==
  ASSUME ViewTypeOK, NEW block \in Offered
  PROVE  block.body \in Body /\ block.body.coin_solutions \in Seq(CoinSolution)
<1> SUFFICES block.body \in Body
  BY DEF Body
<1>1. CASE block \in FreshBlocks
  BY <1>1, FreshBody
<1>2. CASE block \in EarlyBlocks
  <2>1. PICK parent \in FreshBlocks :
            block = [previous |-> Append(chain, parent.body), body |-> parent.body]
    BY <1>2 DEF EarlyBlocks
  <2> QED BY <2>1, FreshBody
<1>3. CASE block \in OldBlocks
  <2>1. PICK i \in DOMAIN chain : block.body = chain[i]
    BY <1>3 DEF OldBlocks
  <2> QED BY <2>1, TipIndex
<1> QED BY <1>1, <1>2, <1>3 DEF Offered

\* What accept_new_block raises for an offered block, and when it is nothing.
LEMMA AcceptErrorsFacts ==
  ASSUME NEW block, NEW blobs, block.body.coin_solutions \in Seq(CoinSolution)
  PROVE  /\ AcceptErrors(block, blobs) \in Seq(Err \cup Temporary \cup {"OK"})
         /\ AllPass(AcceptErrors(block, blobs)) =>
                Extends(block) /\ AllPass(AcceptNewBlock(block.body, now))
<1> DEFINE R == Err \cup Temporary \cup {"OK"}
           e1 == Raise(~Extends(block), "DOES_NOT_EXTEND")
           e2 == Raise("body" \notin blobs, "MISSING_FROM_STORAGE")
           errs == AcceptNewBlock(block.body, now)
<1>1. e1 \in R /\ e2 \in R /\ (e1 = "OK" => Extends(block))
  BY DEF Raise, Temporary
<1>2. errs \in Seq(R)
  <2>1. errs \in Seq(Err \cup {"OK"})
    BY AcceptNewBlockType
  <2> HIDE DEF errs
  <2> QED BY <2>1, SeqMonotonic
<1>3. AcceptErrors(block, blobs) = <<e1, e2>> \o errs
  BY DEF AcceptErrors
<1> HIDE DEF e1, e2, errs, R
<1>4. <<e1, e2>> \in Seq(R)
  BY <1>1
<1>5. AcceptErrors(block, blobs) \in Seq(R)
  BY <1>2, <1>3, <1>4, ConcatProperties
<1>6. AllPass(AcceptErrors(block, blobs)) => AllPass(<<e1, e2>>) /\ AllPass(errs)
  BY <1>2, <1>3, <1>4, AllPassConcatIff
<1>7. AllPass(<<e1, e2>>) => e1 = "OK"
  BY DEF AllPass
<1> QED BY <1>1, <1>5, <1>6, <1>7 DEF errs, R

LEMMA AcceptedBody ==
  ASSUME ReceiverTypeOK, NEW block \in Offered, NEW blobs,
         AllPass(AcceptErrors(block, blobs))
  PROVE  /\ block.body \in Body /\ AllPass(AcceptNewBlock(block.body, now))
         /\ OwnRewards(block) => Extension(block.body)
<1>1. ViewTypeOK /\ now \in Nat
  BY DEF ReceiverTypeOK
<1>2. Extends(block) /\ AllPass(AcceptNewBlock(block.body, now)) /\ block.body \in Body
  BY <1>1, OfferedBody, AcceptErrorsFacts
<1>3. ASSUME OwnRewards(block) PROVE Extension(block.body)
  <2>1. Len(block.previous) + 1 = tip_index + 1
    BY <1>2 DEF Extends, tip_index
  <2>2. /\ block.body.coinbase_coin.parent_coin_info = BlockIndexHash(tip_index + 1)
        /\ block.body.fees_coin.parent_coin_info = BlockIndexHash(tip_index + 1)
    BY <1>3, <2>1 DEF OwnRewards
  <2> QED BY <1>1, <1>2, <2>2 DEF Extension
<1> QED BY <1>2, <1>3

\* Once deltas have been misplaced, that is remembered.
LEMMA PlacedSoFar ==
  ASSUME NEW block, Write(block), ~misplaced'
  PROVE  ~misplaced /\ OwnRewards(block)
BY DEF Write

\* A refusal is never for "OK".
LEMMA FailureType ==
  ASSUME NEW R, NEW errs \in Seq(R \cup {"OK"}), ~AllPass(errs)
  PROVE  FirstError(errs) \in R
<1>1. FirstError(errs) \in R \cup {"OK"}
  BY FirstErrorType
<1>2. FirstError(errs) # "OK"
  BY FirstErrorIff
<1> QED BY <1>1, <1>2

LEMMA HeaderErrorType ==
  ASSUME NEW block, NEW signature, NEW blobs,
         ~AllPass(CheckHeaderSignature(block, signature, blobs))
  PROVE  FirstError(CheckHeaderSignature(block, signature, blobs)) \in Temporary
<1> DEFINE e1 == Raise("proof_of_space" \notin blobs, "MISSING_FROM_STORAGE")
           e2 == Raise(~Validate(signature,
                    <<[public_key |-> public_key({PLOT_KEY}), message_hash |-> HeaderHash(block)]>>),
                 "BAD_HEADER_SIGNATURE")
<1>1. e1 \in Temporary \cup {"OK"} /\ e2 \in Temporary \cup {"OK"}
  BY DEF Raise, Temporary
<1>2. CheckHeaderSignature(block, signature, blobs) = <<e1, e2>>
  BY DEF CheckHeaderSignature
<1> HIDE DEF e1, e2
<1>3. <<e1, e2>> \in Seq(Temporary \cup {"OK"})
  BY <1>1
<1> QED BY <1>2, <1>3, FailureType

\* Written deltas keep the stores well formed, for whatever body.
LEMMA DeltasType ==
  ASSUME ViewTypeOK, NEW body \in Body, WriteDeltas(body)
  PROVE  /\ DOMAIN unspent_db' \subseteq Name
         /\ \A n \in DOMAIN unspent_db' : unspent_db'[n] \in Unspent
         /\ preimage_db' \subseteq Coin
<1>1. Additions(body) \subseteq Coin
  BY AdditionsAre
<1>2. tip_index + 1 \in Nat
  BY TipIndex
<1>3. Names(Additions(body)) \subseteq Name
  BY <1>1, CoinNameType DEF Names
<1>4. unspent_db' = ApplyDeltas(tip_index + 1, Additions(body), Removals(body))
      /\ preimage_db' = preimage_db \cup Additions(body)
  BY DEF WriteDeltas
<1>5. DOMAIN unspent_db' = DOMAIN unspent_db \cup Names(Additions(body))
  BY <1>4 DEF ApplyDeltas
<1>6. ASSUME NEW n \in DOMAIN unspent_db' PROVE unspent_db'[n] \in Unspent
  <2>1. n \in Names(Additions(body)) \/ unspent_db[n] \in Unspent
    BY <1>5 DEF ViewTypeOK
  <2> QED BY <1>2, <1>4, <1>5, <1>6, <2>1 DEF ApplyDeltas, Unspent
<1> QED BY <1>1, <1>3, <1>4, <1>5, <1>6 DEF ViewTypeOK

-----------------------------------------------------------------------------
(* The verdict on a waiting block stays what it was                        *)

\* What a lookup finds for a removal depends on the chain alone, also after
\* the deltas of a competing block.
LEMMA LookupKept ==
  ASSUME ViewIInv, PhantomsAreWaiting, ViewIInv', PhantomsAreWaiting', chain' = chain,
         NEW body, Extension(body), NEW c \in Removals(body),
         NEW index, UnspentFor(body, CoinName(c)).confirmed_block_index = index
  PROVE  /\ (UnspentFor(body, CoinName(c)).confirmed_block_index = index)'
         /\ c \notin Additions(body) => (~IsSpentOnChain(UnspentFor(body, CoinName(c))))'
<1>1. /\ tip_index \in Nat /\ DOMAIN chain = 1 .. tip_index /\ tip_index' = tip_index
      /\ ChainAdditions' = ChainAdditions
  BY TipIndex DEF ViewIInv, tip_index, ChainAdditions
<1>2. Additions(body) \subseteq Coin /\ c \in Coin /\ body \in Body
  BY AdditionsAre DEF Extension
<1>3. /\ preimage_db \subseteq Coin /\ preimage_db' \subseteq Coin
      /\ CoinName(c) \in DOMAIN unspent_db <=> c \in preimage_db
      /\ CoinName(c) \in DOMAIN unspent_db' <=> c \in preimage_db'
  BY <1>2, NamesOfCoins DEF ViewIInv, ViewTypeOK, StoresAgree
<1>4. CoinName(c) \in Names(Additions(body)) <=> c \in Additions(body)
  BY <1>2, NamesOfCoins
<1>5. CASE c \in Additions(body)
  <2>1. c \notin ChainAdditions
    BY <1>5, FreshAdditions
  <2>2. c \in preimage_db => unspent_db[CoinName(c)].confirmed_block_index = tip_index + 1
    BY <2>1 DEF PhantomsAreWaiting
  <2>3. c \in preimage_db' => unspent_db'[CoinName(c)].confirmed_block_index = tip_index + 1
    BY <1>1, <2>1 DEF PhantomsAreWaiting
  <2> QED BY <1>1, <1>3, <1>4, <1>5, <2>2, <2>3 DEF UnspentFor
<1>6. CASE c \notin Additions(body)
  <2>1. /\ c \in preimage_db
        /\ IsConfirmed(UnspentFor(body, CoinName(c)))
        /\ ~IsSpentOnChain(UnspentFor(body, CoinName(c)))
    BY <1>6, AcceptedBlock DEF Extension, KnownCoins
  <2>2. unspent_db[CoinName(c)].confirmed_block_index \in 1 .. tip_index
    BY <1>3, <2>1 DEF IsConfirmed, UnspentFor
  <2>3. c \in ChainAdditions
    BY <1>1, <2>1, <2>2 DEF PhantomsAreWaiting
  <2>4. PICK i \in DOMAIN chain : c \in Additions(chain[i])
    BY <2>3 DEF ChainAdditions
  <2>5. /\ unspent_db[CoinName(c)].confirmed_block_index = i
        /\ c \in preimage_db'
        /\ unspent_db'[CoinName(c)].confirmed_block_index = i
    BY <2>4 DEF ViewIInv, ConfirmedMatches
  <2>6. \A j \in DOMAIN chain :
            /\ unspent_db[CoinName(c)].spent_block_index = j <=> c \in Removals(chain[j])
            /\ unspent_db'[CoinName(c)].spent_block_index = j <=> c \in Removals(chain[j])
    BY <2>1, <2>5 DEF ViewIInv, SpentMatches, SpentIsRemoved
  <2> QED BY <1>1, <1>3, <1>6, <2>1, <2>5, <2>6 DEF UnspentFor, IsSpentOnChain
<1> QED BY <1>5, <1>6

\* AcceptedIff as a formula about the state, to be used of the next one.
AcceptedMeansAcceptable ==
    \A body \in Body : AllPass(AcceptNewBlock(body, now)) <=> Acceptable(body, now)

LEMMA AcceptedInAnyState == AcceptedMeansAcceptable
BY AcceptedIff DEF AcceptedMeansAcceptable, Body

LEMMA VerdictKept ==
  ASSUME ViewIInv, PhantomsAreWaiting, ViewIInv', PhantomsAreWaiting', chain' = chain,
         preimage_db \subseteq preimage_db', now \in Nat, now' \in Nat, now <= now',
         NEW body, Extension(body), AllPass(AcceptNewBlock(body, now))
  PROVE  Extension(body)' /\ AllPass(AcceptNewBlock(body, now))'
<1> DEFINE sols == body.coin_solutions
<1>1. body \in Body /\ sols \in Seq(CoinSolution) /\ tip_index' = tip_index
  BY DEF Extension, Body, tip_index
<1>2. Acceptable(body, now')
  BY <1>1, AcceptedIff, AcceptableLater
<1>3. ASSUME NEW c \in Removals(body), c \notin Additions(body)
      PROVE  (/\ IsConfirmed(UnspentFor(body, CoinName(c)))
              /\ ~IsSpentOnChain(UnspentFor(body, CoinName(c))))'
  <2>1. PICK index : index = UnspentFor(body, CoinName(c)).confirmed_block_index
    OBVIOUS
  <2>2. index \in 1 .. tip_index
    BY <1>2, <1>3, <2>1 DEF Acceptable, IsConfirmed
  <2>3. /\ (UnspentFor(body, CoinName(c)).confirmed_block_index = index)'
        /\ (~IsSpentOnChain(UnspentFor(body, CoinName(c))))'
    BY <1>3, <2>1, LookupKept
  <2> QED BY <1>1, <2>2, <2>3 DEF IsConfirmed
<1>4. ASSUME NEW i \in DOMAIN sols PROVE ConditionsMet(body, sols[i], now)'
  <2>1. ConditionsMet(body, sols[i], now')
    BY <1>2 DEF Acceptable
  <2>2. sols[i].coin \in Removals(body)
    BY DEF Removals, RemovedCoins
  <2>3. PICK index : index = UnspentFor(body, CoinName(sols[i].coin)).confirmed_block_index
    OBVIOUS
  <2>4. (UnspentFor(body, CoinName(sols[i].coin)).confirmed_block_index = index)'
    BY <2>2, <2>3, LookupKept
  <2> QED BY <1>1, <2>1, <2>3, <2>4 DEF ConditionsMet, BlockIndexExceeds, BlockAgeExceeds
<1>5. Removals(body) \subseteq KnownCoins(body)'
  BY <1>2 DEF Acceptable, KnownCoins
<1>6. Acceptable(body, now)'
  BY <1>2, <1>3, <1>4, <1>5 DEF Acceptable
<1>7. AllPass(AcceptNewBlock(body, now))'
  <2>1. AcceptedMeansAcceptable'
    BY AcceptedInAnyState, PTL
  <2> QED BY <1>1, <1>6, <2>1 DEF AcceptedMeansAcceptable
<1> QED BY <1>1, <1>7 DEF Extension

-----------------------------------------------------------------------------
(* The invariant is inductive: one lemma per action                        *)

LEMMA ReceiverInitially == ReceiverInit => ReceiverIInv
<1> SUFFICES ASSUME ReceiverInit PROVE ReceiverIInv
  OBVIOUS
<1>1. ViewInit /\ now = 0 /\ refused = {} /\ preimage_db = {} /\ misplaced = FALSE
  BY DEF ReceiverInit, ViewInit
<1>2. ViewIInv
  BY <1>1, ViewInitially
<1>3. Waiting = {}
  BY <1>1 DEF Waiting
<1>4. StoresInOrder
  BY <1>1, <1>2, <1>3 DEF StoresInOrder, PhantomsAreWaiting, MarksAreWaiting, WaitingPass
<1>5. ReceiverTypeOK
  BY <1>1, <1>2 DEF ReceiverTypeOK, ViewIInv
<1> QED BY <1>1, <1>4, <1>5 DEF ReceiverIInv

\* The clock moves, or a block is refused before its deltas are written.
LEMMA QuietStep ==
  ASSUME ReceiverIInv, UNCHANGED <<viewVars, misplaced>>, now' \in Nat, now <= now',
         refused' \subseteq
            [index : Nat, body : Body, error : Err \cup Temporary, written : BOOLEAN],
         {r \in refused' : r.written} = {r \in refused : r.written}
  PROVE  ReceiverIInv'
<1>1. /\ chain' = chain /\ unspent_db' = unspent_db /\ preimage_db' = preimage_db
      /\ tip_index' = tip_index /\ ChainAdditions' = ChainAdditions
      /\ misplaced' = misplaced
  BY DEF viewVars, tip_index, ChainAdditions
<1>2. ReceiverTypeOK'
  BY <1>1 DEF ReceiverIInv, ReceiverTypeOK, ViewTypeOK
<1>3. Waiting' = Waiting /\ (Orderly' => Orderly)
  BY <1>1 DEF Waiting, RefusedGetOn, Orderly
<1>4. \A r \in refused' : r.written => r.index \in 1 .. tip_index' + 1
  BY <1>1 DEF ReceiverIInv
<1>5. ASSUME Orderly PROVE StoresInOrder'
  <2>1. StoresInOrder
    BY <1>5 DEF ReceiverIInv
  <2>2. ViewIInv'
    BY <2>1, ViewUnchanged DEF StoresInOrder
  <2>3. PhantomsAreWaiting' /\ MarksAreWaiting'
    BY <1>1, <1>3, <2>1 DEF StoresInOrder, PhantomsAreWaiting, MarksAreWaiting
  <2>4. WaitingPass'
    <3> SUFFICES ASSUME NEW r \in Waiting
                 PROVE  Extension(r.body)' /\ AllPass(AcceptNewBlock(r.body, now))'
      BY <1>3 DEF WaitingPass
    <3>1. PICK body : body = r.body
      OBVIOUS
    <3>2. Extension(body) /\ AllPass(AcceptNewBlock(body, now))
      BY <2>1, <3>1 DEF StoresInOrder, WaitingPass
    <3>3. now \in Nat
      BY DEF ReceiverIInv, ReceiverTypeOK
    <3>4. Extension(body)' /\ AllPass(AcceptNewBlock(body, now))'
      BY <1>1, <2>1, <2>2, <2>3, <3>2, <3>3, VerdictKept DEF StoresInOrder
    <3> QED BY <3>1, <3>4
  <2> QED BY <2>2, <2>3, <2>4 DEF StoresInOrder
<1> QED BY <1>2, <1>3, <1>4, <1>5 DEF ReceiverIInv

\* A block is taken: it was the only one waiting, if any was, and with it
\* everything in the stores belongs to the chain.
LEMMA ExtendStep ==
  ASSUME ReceiverIInv, NEW block \in Offered, NEW signature, NEW blobs,
         Extend(block, signature, blobs)
  PROVE  ReceiverIInv'
<1> DEFINE body == block.body
           tip == tip_index
<1>1. /\ AllPass(AcceptErrors(block, blobs)) /\ Write(block) /\ WriteDeltas(body)
      /\ chain' = Append(chain, body) /\ now' = now /\ refused' = refused
  BY DEF Extend, Write
<1>2. /\ body \in Body /\ AllPass(AcceptNewBlock(body, now))
      /\ ~misplaced' => ~misplaced /\ Extension(body)
      /\ misplaced' \in BOOLEAN
  <2>1. body \in Body /\ AllPass(AcceptNewBlock(body, now))
        /\ (OwnRewards(block) => Extension(body))
    BY <1>1, AcceptedBody DEF ReceiverIInv
  <2>2. misplaced' \in BOOLEAN
    BY <1>1 DEF Write
  <2> QED BY <1>1, <2>1, <2>2, PlacedSoFar
<1>3. tip \in Nat /\ DOMAIN chain = 1 .. tip /\ chain \in Seq(Body) /\ tip = Len(chain)
  BY TipIndex DEF ReceiverIInv, ReceiverTypeOK, ViewTypeOK, tip_index
<1>4. /\ chain' \in Seq(Body)
      /\ tip_index' = tip + 1
      /\ \A i \in 1 .. tip : chain'[i] = chain[i]
      /\ chain'[tip + 1] = body
  BY <1>1, <1>2, <1>3, AppendProperties, LenProperties DEF tip_index
<1> HIDE DEF body
<1>5. ReceiverTypeOK'
  BY <1>1, <1>2, <1>4, DeltasType DEF ReceiverIInv, ReceiverTypeOK, ViewTypeOK
<1>6. \A r \in refused : r.index \in Nat /\ (r.written => r.index \in 1 .. tip + 1)
  BY DEF ReceiverIInv, ReceiverTypeOK
<1>7. Waiting' = {}
  BY <1>1, <1>3, <1>4, <1>6 DEF Waiting
<1>8. ASSUME Orderly' PROVE StoresInOrder'
  <2> RefusedGetOn' /\ ~misplaced /\ Extension(body)
    BY <1>2, <1>8 DEF Orderly
  <2>1. \A r \in refused : r.written => r.index <= tip + 1 /\ chain'[r.index] = r.body
    <3> SUFFICES ASSUME NEW r \in refused, r.written
                 PROVE  r.index <= tip + 1 /\ chain'[r.index] = r.body
      OBVIOUS
    <3>1. r.index = tip_index' + 1 \/ (r.index <= tip_index' /\ chain'[r.index] = r.body)
      BY <1>1 DEF RefusedGetOn
    <3>2. r.index \in Nat /\ r.index <= tip + 1
      BY <1>6
    <3> QED BY <1>3, <1>4, <3>1, <3>2
  <2>2. RefusedGetOn
    <3> SUFFICES ASSUME NEW r \in refused, r.written
                 PROVE  r.index = tip + 1 \/ (r.index <= tip /\ chain[r.index] = r.body)
      BY DEF RefusedGetOn, tip
    <3>1. r.index \in 1 .. tip + 1 /\ chain'[r.index] = r.body
      BY <1>6, <2>1
    <3> QED BY <1>3, <1>4, <3>1
  <2>3. \A r \in Waiting : r.body = body
    BY <1>4, <2>1 DEF Waiting
  <2>4. ViewIInv /\ PhantomsAreWaiting /\ MarksAreWaiting
    BY <2>2 DEF ReceiverIInv, StoresInOrder, Orderly
  <2>5. Removals(body) \subseteq Additions(body) \cup ChainAdditions
    <3> SUFFICES ASSUME NEW c \in Removals(body), c \notin Additions(body)
                 PROVE  c \in ChainAdditions
      OBVIOUS
    <3>1. c \in preimage_db /\ IsConfirmed(UnspentFor(body, CoinName(c)))
      BY <1>2, AcceptedBlock DEF KnownCoins
    <3>2. UnspentFor(body, CoinName(c)) = unspent_db[CoinName(c)]
      BY <2>4, <3>1 DEF ViewIInv, StoresAgree, Names, UnspentFor
    <3> QED BY <1>3, <2>4, <3>1, <3>2 DEF PhantomsAreWaiting, IsConfirmed
  <2>6. \A c \in preimage_db :
            unspent_db[CoinName(c)].spent_block_index = tip_index + 1 => c \in Removals(body)
    BY <2>3, <2>4 DEF MarksAreWaiting
  <2>7. /\ ViewIInv'
        /\ ChainAdditions' = ChainAdditions \cup Additions(body)
        /\ \A c \in preimage_db' :
                unspent_db'[CoinName(c)].spent_block_index < tip_index' + 1
    BY <1>1, <1>2, <2>4, <2>5, <2>6, ChainStep
  <2>8. preimage_db' \subseteq ChainAdditions'
    <3>1. preimage_db' = preimage_db \cup Additions(body)
      BY <1>1 DEF WriteDeltas
    <3> QED BY <2>3, <2>4, <2>7, <3>1 DEF PhantomsAreWaiting
  <2>9. PhantomsAreWaiting' /\ WaitingPass'
    BY <1>7, <2>8 DEF PhantomsAreWaiting, WaitingPass
  <2>10. MarksAreWaiting'
    <3> SUFFICES ASSUME NEW c \in preimage_db',
                        unspent_db'[CoinName(c)].spent_block_index = tip_index' + 1
                 PROVE  FALSE
      BY DEF MarksAreWaiting
    <3> QED BY <1>3, <1>4, <2>7
  <2> QED BY <2>7, <2>9, <2>10 DEF StoresInOrder
<1> QED BY <1>1, <1>3, <1>4, <1>5, <1>6, <1>8 DEF ReceiverIInv

\* The deltas of a block are written and its header is refused.
LEMMA RefuseWrittenStep ==
  ASSUME ReceiverIInv, NEW block \in Offered, NEW signature, NEW blobs,
         RefuseWritten(block, signature, blobs)
  PROVE  ReceiverIInv'
<1> DEFINE body == block.body
           error == FirstError(CheckHeaderSignature(block, signature, blobs))
           r0 == [index |-> tip_index + 1, body |-> body, error |-> error, written |-> TRUE]
<1>1. /\ AllPass(AcceptErrors(block, blobs))
      /\ ~AllPass(CheckHeaderSignature(block, signature, blobs))
      /\ Write(block) /\ WriteDeltas(body)
      /\ refused' = refused \cup {r0}
      /\ chain' = chain /\ now' = now
  BY DEF RefuseWritten, Refusal, Write
<1>2. /\ body \in Body /\ AllPass(AcceptNewBlock(body, now))
      /\ ~misplaced' => ~misplaced /\ Extension(body)
      /\ misplaced' \in BOOLEAN
  <2>1. body \in Body /\ AllPass(AcceptNewBlock(body, now))
        /\ (OwnRewards(block) => Extension(body))
    BY <1>1, AcceptedBody DEF ReceiverIInv
  <2>2. misplaced' \in BOOLEAN
    BY <1>1 DEF Write
  <2> QED BY <1>1, <2>1, <2>2, PlacedSoFar
<1>3. error \in Err \cup Temporary
  BY <1>1, HeaderErrorType
<1>4. /\ tip_index \in Nat /\ tip_index' = tip_index /\ ChainAdditions' = ChainAdditions
      /\ now \in Nat
  BY <1>1, TipIndex DEF ReceiverIInv, ReceiverTypeOK, tip_index, ChainAdditions
<1>5. /\ r0.body = body /\ r0.written = TRUE /\ r0.index = tip_index + 1
      /\ r0 \in [index : Nat, body : Body, error : Err \cup Temporary, written : BOOLEAN]
  BY <1>2, <1>3, <1>4
<1> HIDE DEF body, error, r0
<1>6. ReceiverTypeOK'
  BY <1>5, <1>1, <1>2, <1>4, DeltasType DEF ReceiverIInv, ReceiverTypeOK, ViewTypeOK
<1>7. \A r \in refused' : r.written => r.index \in 1 .. tip_index' + 1
  BY <1>5, <1>1, <1>4 DEF ReceiverIInv
<1>8. Waiting' = Waiting \cup {r0}
  BY <1>5, <1>1, <1>4 DEF Waiting
<1>9. preimage_db' = preimage_db \cup Additions(body)
  BY <1>1 DEF WriteDeltas
<1>10. ASSUME Orderly' PROVE StoresInOrder'
  <2> RefusedGetOn' /\ ~misplaced /\ Extension(body)
    BY <1>2, <1>10 DEF Orderly
  <2>1. StoresInOrder
    BY <1>1, <1>4 DEF ReceiverIInv, RefusedGetOn, Orderly
  <2>2. ViewIInv'
    BY <1>1, <1>2, <2>1, TrialStep DEF StoresInOrder
  <2>3. PhantomsAreWaiting'
    <3> SUFFICES ASSUME NEW c \in preimage_db' \ ChainAdditions
                 PROVE  /\ unspent_db'[CoinName(c)].confirmed_block_index = tip_index + 1
                        /\ \E r \in Waiting \cup {r0} : c \in Additions(r.body)
      BY <1>4, <1>8 DEF PhantomsAreWaiting
    <3>1. unspent_db'[CoinName(c)].confirmed_block_index =
                IF c \in Additions(body) THEN tip_index + 1
                ELSE unspent_db[CoinName(c)].confirmed_block_index
      BY <1>1, <1>2, <2>1, NewRecord DEF StoresInOrder
    <3>2. CASE c \in Additions(body)
      BY <1>5, <3>1, <3>2
    <3>3. CASE c \notin Additions(body)
      BY <1>9, <2>1, <3>1, <3>3 DEF StoresInOrder, PhantomsAreWaiting
    <3> QED BY <3>2, <3>3
  <2>4. MarksAreWaiting'
    <3> SUFFICES ASSUME NEW c \in preimage_db',
                        unspent_db'[CoinName(c)].spent_block_index = tip_index + 1
                 PROVE  \E r \in Waiting \cup {r0} : c \in Removals(r.body)
      BY <1>4, <1>8 DEF MarksAreWaiting
    <3>1. \/ c \in Removals(body)
          \/ c \in preimage_db /\ unspent_db[CoinName(c)].spent_block_index = tip_index + 1
      BY <1>1, <1>2, <2>1, SpentAfter DEF StoresInOrder
    <3> QED BY <1>5, <2>1, <3>1 DEF StoresInOrder, MarksAreWaiting
  <2>5. WaitingPass'
    <3> SUFFICES ASSUME NEW r \in Waiting \cup {r0}
                 PROVE  Extension(r.body)' /\ AllPass(AcceptNewBlock(r.body, now))'
      BY <1>8 DEF WaitingPass
    <3>1. PICK b : b = r.body
      OBVIOUS
    <3>2. Extension(b) /\ AllPass(AcceptNewBlock(b, now))
      BY <1>5, <1>2, <2>1, <3>1 DEF StoresInOrder, WaitingPass
    <3>3. Extension(b)' /\ AllPass(AcceptNewBlock(b, now))'
      BY <1>1, <1>4, <1>9, <2>1, <2>2, <2>3, <3>2, VerdictKept DEF StoresInOrder
    <3> QED BY <3>1, <3>3
  <2> QED BY <2>2, <2>3, <2>4, <2>5 DEF StoresInOrder
<1> QED BY <1>6, <1>7, <1>10 DEF ReceiverIInv

LEMMA ReceiverStep == ReceiverIInv /\ [ReceiverNext]_receiverVars => ReceiverIInv'
<1> SUFFICES ASSUME ReceiverIInv, [ReceiverNext]_receiverVars PROVE ReceiverIInv'
  OBVIOUS
<1>1. now \in Nat /\ now <= now /\ ViewTypeOK
      /\ refused \subseteq
            [index : Nat, body : Body, error : Err \cup Temporary, written : BOOLEAN]
  BY DEF ReceiverIInv, ReceiverTypeOK
<1>2. ASSUME NEW block \in Offered, NEW signature, NEW blobs,
             Offer(block, signature, blobs)
      PROVE  ReceiverIInv'
  <2>1. CASE Extend(block, signature, blobs)
    BY <2>1, ExtendStep
  <2>2. CASE RefuseStale(block)
    BY <1>1, <2>2, QuietStep DEF RefuseStale, receiverVars, viewVars
  <2>3. CASE Refuse(block, blobs)
    <3> DEFINE r0 == [index |-> tip_index + 1, body |-> block.body,
                      error |-> FirstError(AcceptErrors(block, blobs)), written |-> FALSE]
    <3>1. /\ ~AllPass(AcceptErrors(block, blobs)) /\ refused' = refused \cup {r0}
          /\ UNCHANGED <<viewVars, misplaced>> /\ now' = now
      BY <2>3 DEF Refuse, Refusal
    <3>2. block.body \in Body /\ block.body.coin_solutions \in Seq(CoinSolution)
      BY <1>1, OfferedBody
    <3>3. FirstError(AcceptErrors(block, blobs)) \in Err \cup Temporary
      BY <3>1, <3>2, AcceptErrorsFacts, FailureType
    <3>4. tip_index + 1 \in Nat
      BY <1>1, TipIndex
    <3>5. /\ r0 \in [index : Nat, body : Body, error : Err \cup Temporary, written : BOOLEAN]
          /\ r0.written = FALSE
      BY <3>2, <3>3, <3>4
    <3> HIDE DEF r0
    <3> QED BY <1>1, <3>1, <3>5, QuietStep
  <2>4. CASE RefuseWritten(block, signature, blobs)
    BY <2>4, RefuseWrittenStep
  <2> QED BY <1>2, <2>1, <2>2, <2>3, <2>4 DEF Offer
<1>3. CASE Tick
  <2>1. UNCHANGED <<viewVars, misplaced>> /\ refused' = refused /\ now' \in Nat /\ now <= now'
    BY <1>1, <1>3 DEF Tick
  <2> QED BY <1>1, <2>1, QuietStep
<1>4. CASE UNCHANGED receiverVars
  <2>1. UNCHANGED <<viewVars, misplaced>> /\ refused' = refused /\ now' = now
    BY <1>4 DEF receiverVars, viewVars
  <2> QED BY <1>1, <2>1, QuietStep
<1> QED BY <1>2, <1>3, <1>4 DEF ReceiverNext

LEMMA ReceiverInductive == ReceiverSpec => []ReceiverIInv
BY ReceiverInitially, ReceiverStep, PTL DEF ReceiverSpec

-----------------------------------------------------------------------------
(* What was refused on top of this chain is refused for good, unless by    *)
(* the clock: a formula without stores says what the chain lets pass.      *)

\* The block whose record of a coin a lookup finds: the chain's comes first.
CreatedAt(body, c, j) ==
    IF c \in ChainAdditions THEN j \in DOMAIN chain /\ c \in Additions(chain[j])
    ELSE c \in Additions(body) /\ j = tip_index + 1

\* The conditions of a solution but those on time
TimelessMet(body, sol) ==
    LET c == sol.conditions IN
    /\ c.coin_consumed \subseteq Names(Removals(body))
    /\ c.my_coin_id \subseteq {CoinName(sol.coin)}
    /\ \A i \in c.block_index_exceeds : BlockIndexExceeds(i)
    /\ \A a \in c.block_age_exceeds, j \in 1 .. tip_index + 1 :
            CreatedAt(body, sol.coin, j) => tip_index + 1 > a + j

SoundOnChain(body) ==
    LET sols == body.coin_solutions IN
    /\ \A c \in Additions(body) : ~(c.amount >= MAX_COIN_AMOUNT)
    /\ ~DuplicateOutput(body)
    /\ ~DuplicateRemoval(sols)
    /\ \A c \in Removals(body) : \E j \in 1 .. tip_index + 1 : CreatedAt(body, c, j)
    /\ (Removals(body) \ Additions(body)) \cap ChainRemovals = {}
    /\ \A i \in DOMAIN sols : PuzzleMatches(sols[i])
    /\ BlockSurplus(body) = REWARD
    /\ \A i \in DOMAIN sols : TimelessMet(body, sols[i])
    /\ ValidSignature(body.aggregated_signature, sols)

\* A lookup finds the block that created the coin and whether the chain has
\* removed it, whatever waiting blocks have left in the stores.
LEMMA RecordIs ==
  ASSUME ViewIInv, PhantomsAreWaiting, NEW body \in Body, NEW c \in Removals(body),
         NEW j, CreatedAt(body, c, j)
  PROVE  /\ UnspentFor(body, CoinName(c)).confirmed_block_index = j
         /\ c \notin Additions(body) =>
                /\ c \in preimage_db
                /\ IsConfirmed(UnspentFor(body, CoinName(c)))
                /\ IsSpentOnChain(UnspentFor(body, CoinName(c))) <=> c \in ChainRemovals
<1>1. tip_index \in Nat /\ DOMAIN chain = 1 .. tip_index
  BY TipIndex DEF ViewIInv
<1>2. /\ Additions(body) \subseteq Coin /\ c \in Coin
      /\ preimage_db \subseteq Coin
      /\ CoinName(c) \in DOMAIN unspent_db <=> c \in preimage_db
      /\ CoinName(c) \in Names(Additions(body)) <=> c \in Additions(body)
  BY AdditionsAre, NamesOfCoins DEF ViewIInv, ViewTypeOK, StoresAgree
<1>3. CASE c \notin ChainAdditions
  <2>1. c \in Additions(body) /\ j = tip_index + 1
    BY <1>3 DEF CreatedAt
  <2>2. c \in preimage_db => unspent_db[CoinName(c)].confirmed_block_index = tip_index + 1
    BY <1>3 DEF PhantomsAreWaiting
  <2> QED BY <1>2, <2>1, <2>2 DEF UnspentFor
<1>4. CASE c \in ChainAdditions
  <2>1. j \in DOMAIN chain /\ c \in Additions(chain[j])
    BY <1>4 DEF CreatedAt
  <2>2. c \in preimage_db /\ unspent_db[CoinName(c)].confirmed_block_index = j
    BY <2>1 DEF ViewIInv, ConfirmedMatches
  <2>3. UnspentFor(body, CoinName(c)) = unspent_db[CoinName(c)]
    BY <1>2, <2>2 DEF UnspentFor
  <2>4. IsSpentOnChain(unspent_db[CoinName(c)]) => c \in ChainRemovals
    BY <1>1, <2>2 DEF IsSpentOnChain, ViewIInv, SpentIsRemoved, ChainRemovals
  <2>5. c \in ChainRemovals => IsSpentOnChain(unspent_db[CoinName(c)])
    BY <1>1 DEF IsSpentOnChain, ViewIInv, SpentMatches, ChainRemovals
  <2> QED BY <1>1, <2>1, <2>2, <2>3, <2>4, <2>5 DEF IsConfirmed
<1> QED BY <1>3, <1>4

\* What passes now is sound on the chain.
LEMMA AcceptedIsSound ==
  ASSUME ViewIInv, PhantomsAreWaiting, NEW body \in Body, NEW time,
         AllPass(AcceptNewBlock(body, time))
  PROVE  SoundOnChain(body)
<1> DEFINE sols == body.coin_solutions
<1>1. sols \in Seq(CoinSolution)
  BY DEF Body
<1>2. Acceptable(body, time)
  BY <1>1, AcceptedIff
<1>3. tip_index \in Nat /\ DOMAIN chain = 1 .. tip_index
  BY TipIndex DEF ViewIInv
<1>4. ASSUME NEW c \in Removals(body), c \notin Additions(body)
      PROVE  c \in ChainAdditions
  <2>1. c \in preimage_db /\ IsConfirmed(UnspentFor(body, CoinName(c)))
    BY <1>2, <1>4 DEF Acceptable, KnownCoins
  <2>2. UnspentFor(body, CoinName(c)) = unspent_db[CoinName(c)]
    BY <2>1 DEF ViewIInv, StoresAgree, Names, UnspentFor
  <2> QED BY <1>3, <2>1, <2>2 DEF PhantomsAreWaiting, IsConfirmed
<1>5. ASSUME NEW c \in Removals(body)
      PROVE  \E j \in 1 .. tip_index + 1 : CreatedAt(body, c, j)
  <2>1. CASE c \in ChainAdditions
    <3>1. PICK j \in DOMAIN chain : c \in Additions(chain[j])
      BY <2>1 DEF ChainAdditions
    <3>2. CreatedAt(body, c, j)
      BY <2>1, <3>1 DEF CreatedAt
    <3>3. j \in 1 .. tip_index + 1
      BY <1>3
    <3> QED BY <3>2, <3>3
  <2>2. CASE c \notin ChainAdditions
    <3>1. CreatedAt(body, c, tip_index + 1)
      BY <1>4, <2>2 DEF CreatedAt
    <3>2. tip_index + 1 \in 1 .. tip_index + 1
      BY <1>3
    <3> QED BY <3>1, <3>2
  <2> QED BY <2>1, <2>2
<1>6. ASSUME NEW c \in Removals(body), c \notin Additions(body)
      PROVE  c \notin ChainRemovals
  <2>1. PICK j \in 1 .. tip_index + 1 : CreatedAt(body, c, j)
    BY <1>5
  <2>2. ~IsSpentOnChain(UnspentFor(body, CoinName(c)))
    BY <1>2, <1>6 DEF Acceptable
  <2> QED BY <1>6, <2>1, <2>2, RecordIs
<1>7. ASSUME NEW i \in DOMAIN sols PROVE TimelessMet(body, sols[i])
  <2>1. ConditionsMet(body, sols[i], time)
    BY <1>2 DEF Acceptable
  <2>2. sols[i].coin \in Removals(body)
    BY DEF Removals, RemovedCoins
  <2>3. ASSUME NEW a \in sols[i].conditions.block_age_exceeds, NEW j \in 1 .. tip_index + 1,
               CreatedAt(body, sols[i].coin, j)
        PROVE  tip_index + 1 > a + j
    <3>1. UnspentFor(body, CoinName(sols[i].coin)).confirmed_block_index = j
      BY <2>2, <2>3, RecordIs
    <3> QED BY <2>1, <3>1 DEF ConditionsMet, BlockAgeExceeds
  <2> QED BY <2>1, <2>3 DEF ConditionsMet, TimelessMet
<1> QED BY <1>2, <1>5, <1>6, <1>7 DEF Acceptable, SoundOnChain

\* And what is sound on the chain fails, at any time, of the clock alone.
LEMMA SoundFailsByTime ==
  ASSUME ViewIInv, PhantomsAreWaiting, NEW body \in Body, SoundOnChain(body), NEW time
  PROVE  AcceptNewBlock(body, time) \in Seq({"OK", "ASSERT_TIME_EXCEEDS_FAILED"})
<1> DEFINE R == {"OK", "ASSERT_TIME_EXCEEDS_FAILED"}
           sols == body.coin_solutions
<1>1. /\ sols \in Seq(CoinSolution)
      /\ DOMAIN sols = 1 .. Len(sols) /\ Len(sols) \in Nat
  BY LenProperties DEF Body
<1>2. ASSUME NEW c \in Removals(body)
      PROVE  c \in KnownCoins(body) /\ RemovalError(body, c) = "OK"
  <2>1. PICK j \in 1 .. tip_index + 1 : CreatedAt(body, c, j)
    BY DEF SoundOnChain
  <2>2. c \notin Additions(body) => c \notin ChainRemovals
    BY DEF SoundOnChain
  <2>3. c \notin Additions(body) =>
            /\ c \in preimage_db
            /\ IsConfirmed(UnspentFor(body, CoinName(c)))
            /\ ~IsSpentOnChain(UnspentFor(body, CoinName(c)))
    BY <2>1, <2>2, RecordIs
  <2> QED BY <2>3, RemovalErrorIff DEF KnownCoins
<1>3. ASSUME NEW i \in DOMAIN sols PROVE ConditionsError(body, sols[i], time) \in R
  <2> DEFINE c == sols[i].conditions
             unspent == UnspentFor(body, CoinName(sols[i].coin))
             e1 == Raise(~(c.coin_consumed \subseteq Names(Removals(body))),
                         "ASSERT_COIN_CONSUMED_FAILED")
             e2 == Raise(~(c.my_coin_id \subseteq {CoinName(sols[i].coin)}),
                         "ASSERT_MY_COIN_ID_FAILED")
             e3 == Raise(\E t \in c.time_exceeds : ~TimeExceeds(time, t),
                         "ASSERT_TIME_EXCEEDS_FAILED")
             e4 == Raise(\E k \in c.block_index_exceeds : ~BlockIndexExceeds(k),
                         "ASSERT_BLOCK_INDEX_EXCEEDS_FAILED")
             e5 == Raise(\E a \in c.block_age_exceeds : ~BlockAgeExceeds(a, unspent),
                         "ASSERT_BLOCK_AGE_EXCEEDS_FAILED")
  <2>1. TimelessMet(body, sols[i]) /\ sols[i].coin \in Removals(body)
    BY DEF SoundOnChain, Removals, RemovedCoins
  <2>2. PICK j \in 1 .. tip_index + 1 : CreatedAt(body, sols[i].coin, j)
    BY <2>1 DEF SoundOnChain
  <2>3. unspent.confirmed_block_index = j
    BY <2>1, <2>2, RecordIs
  <2>4. \A a \in c.block_age_exceeds : BlockAgeExceeds(a, unspent)
    BY <2>1, <2>2, <2>3 DEF TimelessMet, BlockAgeExceeds
  <2>5. e1 = "OK" /\ e2 = "OK" /\ e3 \in R /\ e4 = "OK" /\ e5 = "OK"
    BY <2>1, <2>4 DEF TimelessMet, Raise
  <2>6. ConditionsError(body, sols[i], time) = FirstError(<<e1, e2, e3, e4, e5>>)
    BY DEF ConditionsError
  <2> HIDE DEF e1, e2, e3, e4, e5
  <2>7. <<e1, e2, e3, e4, e5>> \in Seq(R)
    BY <2>5
  <2> QED BY <2>6, <2>7, FirstErrorType
<1> DEFINE e1 == Raise(\E c \in Additions(body) : c.amount >= MAX_COIN_AMOUNT,
                       "COIN_AMOUNT_EXCEEDS_MAXIMUM")
           e2 == Raise(DuplicateOutput(body), "DUPLICATE_OUTPUT")
           e3 == Raise(DuplicateRemoval(sols), "DOUBLE_SPEND")
           e4 == Raise(~(Removals(body) \subseteq KnownCoins(body)), "UNKNOWN")
           e5 == Raise(\E i \in DOMAIN sols : ~PuzzleMatches(sols[i]), "WRONG_PUZZLE_HASH")
           f6 == [i \in DOMAIN sols |-> RemovalError(body, sols[i].coin)]
           e7 == Raise(BlockSurplus(body) # REWARD, "BAD_COINBASE_REWARD")
           f8 == [i \in DOMAIN sols |-> ConditionsError(body, sols[i], time)]
           e9 == Raise(~ValidSignature(body.aggregated_signature, sols),
                       "BAD_AGGREGATE_SIGNATURE")
<1>4. e1 = "OK" /\ e2 = "OK" /\ e3 = "OK" /\ e5 = "OK" /\ e7 = "OK" /\ e9 = "OK"
  BY DEF Raise, SoundOnChain
<1>5. e4 = "OK"
  BY <1>2 DEF Raise
<1>6. f6 \in Seq(R) /\ f8 \in Seq(R)
  <2>1. \A i \in DOMAIN sols : sols[i].coin \in Removals(body)
    BY DEF Removals, RemovedCoins
  <2>2. f6 \in [1 .. Len(sols) -> R] /\ f8 \in [1 .. Len(sols) -> R]
    BY <1>1, <1>2, <1>3, <2>1
  <2> HIDE DEF f6, f8, R
  <2> QED BY <1>1, <2>2, SeqDef
<1>7. FirstError(f6) \in R /\ FirstError(f8) \in R
  <2> HIDE DEF f6, f8
  <2> QED BY <1>6, FirstErrorType
<1>8. AcceptNewBlock(body, time) = <<e1, e2, e3, e4, e5, FirstError(f6), e7, FirstError(f8), e9>>
  BY DEF AcceptNewBlock
<1> HIDE DEF e1, e2, e3, e4, e5, f6, e7, f8, e9
<1>9. <<e1, e2, e3, e4, e5, FirstError(f6), e7, FirstError(f8), e9>> \in Seq(R)
  BY <1>4, <1>5, <1>7
<1> QED BY <1>8, <1>9

\* So the errors a refusal ends with, if the block is sound on the chain.
LEMMA SoundRefusal ==
  ASSUME ViewIInv, PhantomsAreWaiting, NEW block, NEW blobs, block.body \in Body,
         Extends(block), SoundOnChain(block.body)
  PROVE  FirstError(AcceptErrors(block, blobs))
            \notin Err \ {"ASSERT_TIME_EXCEEDS_FAILED"}
<1> DEFINE R == {"OK", "ASSERT_TIME_EXCEEDS_FAILED", "MISSING_FROM_STORAGE"}
           e1 == Raise(~Extends(block), "DOES_NOT_EXTEND")
           e2 == Raise("body" \notin blobs, "MISSING_FROM_STORAGE")
           errs == AcceptNewBlock(block.body, now)
<1>1. e1 \in R /\ e2 \in R
  BY DEF Raise
<1>2. errs \in Seq(R)
  <2>1. errs \in Seq({"OK", "ASSERT_TIME_EXCEEDS_FAILED"})
    BY SoundFailsByTime
  <2> HIDE DEF errs
  <2> QED BY <2>1, SeqMonotonic
<1>3. AcceptErrors(block, blobs) = <<e1, e2>> \o errs
  BY DEF AcceptErrors
<1> HIDE DEF e1, e2, errs
<1>4. <<e1, e2>> \in Seq(R)
  BY <1>1
<1>5. AcceptErrors(block, blobs) \in Seq(R)
  BY <1>2, <1>3, <1>4, ConcatProperties
<1>6. FirstError(AcceptErrors(block, blobs)) \in R
  BY <1>5, FirstErrorType
<1> QED BY <1>6 DEF Err

\* What was refused for good is not sound, or was not when its turn came.
RefusedAt(r) ==
    /\ r.index \in 1 .. tip_index + 1
    /\ r.body \in Body

RefusedForGood(r) ==
    r.error \in Err \ {"ASSERT_TIME_EXCEEDS_FAILED"} =>
        /\ r.index = tip_index + 1 => ~SoundOnChain(r.body)
        /\ r.index <= tip_index => chain[r.index] # r.body

HealingIInv ==
    /\ \A r \in refused : RefusedAt(r)
    /\ Orderly => \A r \in refused : RefusedForGood(r)

\* On one chain refusals are only added.
LEMMA RefusalKept ==
  ASSUME HealingIInv, chain' = chain, refused \subseteq refused', ~misplaced' => ~misplaced,
         \A r \in refused' \ refused :
            /\ RefusedAt(r)
            /\ Orderly => RefusedForGood(r)
  PROVE  HealingIInv'
<1>1. tip_index' = tip_index /\ ChainAdditions' = ChainAdditions /\ ChainRemovals' = ChainRemovals
  BY DEF tip_index, ChainAdditions, ChainRemovals
<1>2. ASSUME NEW r \in refused' PROVE RefusedAt(r)'
  <2>1. RefusedAt(r)
    BY DEF HealingIInv
  <2> QED BY <1>1, <2>1 DEF RefusedAt
<1>3. Orderly' => Orderly
  BY <1>1 DEF RefusedGetOn, Orderly
<1>4. ASSUME Orderly', NEW r \in refused' PROVE RefusedForGood(r)'
  <2>1. RefusedForGood(r)
    BY <1>3, <1>4 DEF HealingIInv
  <2>2. PICK body : body = r.body
    OBVIOUS
  <2>3. SoundOnChain(body)' => SoundOnChain(body)
    BY <1>1 DEF SoundOnChain, TimelessMet, CreatedAt, BlockIndexExceeds
  <2> QED BY <1>1, <2>1, <2>2, <2>3 DEF RefusedForGood
<1> QED BY <1>2, <1>4 DEF HealingIInv

LEMMA RefuseHeals ==
  ASSUME ReceiverIInv, HealingIInv, NEW block \in Offered, NEW blobs,
         Refuse(block, blobs)
  PROVE  HealingIInv'
<1> DEFINE r0 == [index |-> tip_index + 1, body |-> block.body,
                  error |-> FirstError(AcceptErrors(block, blobs)), written |-> FALSE]
<1>1. Extends(block) /\ refused' = refused \cup {r0} /\ chain' = chain /\ misplaced' = misplaced
  BY DEF Refuse, Refusal, viewVars
<1>2. ViewTypeOK /\ tip_index \in Nat
  BY TipIndex DEF ReceiverIInv, ReceiverTypeOK
<1>3. RefusedAt(r0)
  BY <1>1, <1>2, OfferedBody DEF RefusedAt
<1>4. ASSUME Orderly PROVE RefusedForGood(r0)
  <2>1. ViewIInv /\ PhantomsAreWaiting
    BY <1>4 DEF ReceiverIInv, StoresInOrder
  <2>2. r0.error \in Err \ {"ASSERT_TIME_EXCEEDS_FAILED"} => ~SoundOnChain(block.body)
    BY <1>1, <1>3, <2>1, SoundRefusal DEF RefusedAt
  <2> QED BY <1>2, <2>2 DEF RefusedForGood
<1> HIDE DEF r0
<1> QED BY <1>1, <1>3, <1>4, RefusalKept

LEMMA RefuseWrittenHeals ==
  ASSUME ReceiverIInv, HealingIInv, NEW block \in Offered, NEW signature,
         NEW blobs, RefuseWritten(block, signature, blobs)
  PROVE  HealingIInv'
<1> DEFINE r0 == [index |-> tip_index + 1, body |-> block.body,
                  error |-> FirstError(CheckHeaderSignature(block, signature, blobs)),
                  written |-> TRUE]
<1>1. /\ AllPass(AcceptErrors(block, blobs))
      /\ ~AllPass(CheckHeaderSignature(block, signature, blobs))
      /\ refused' = refused \cup {r0} /\ chain' = chain /\ (~misplaced' => ~misplaced)
  BY PlacedSoFar DEF RefuseWritten, Refusal
<1>2. tip_index \in Nat /\ block.body \in Body
  BY <1>1, TipIndex, AcceptedBody DEF ReceiverIInv, ReceiverTypeOK
<1>3. r0.error \in Temporary
  BY <1>1, HeaderErrorType
<1>4. RefusedAt(r0)
  BY <1>2 DEF RefusedAt
<1>5. RefusedForGood(r0)
  BY <1>3 DEF RefusedForGood, Temporary, Err
<1> HIDE DEF r0
<1> QED BY <1>1, <1>4, <1>5, RefusalKept

\* The block taken is sound, and so is none of those refused before.
LEMMA ExtendHeals ==
  ASSUME ReceiverIInv, HealingIInv, NEW block \in Offered, NEW signature,
         NEW blobs, Extend(block, signature, blobs)
  PROVE  HealingIInv'
<1> DEFINE body == block.body
           tip == tip_index
<1>1. /\ AllPass(AcceptErrors(block, blobs)) /\ chain' = Append(chain, body)
      /\ refused' = refused /\ (~misplaced' => ~misplaced)
  BY PlacedSoFar DEF Extend
<1>2. AllPass(AcceptNewBlock(body, now)) /\ body \in Body
  BY <1>1, AcceptedBody DEF ReceiverIInv
<1>3. tip \in Nat /\ DOMAIN chain = 1 .. tip /\ chain \in Seq(Body) /\ tip = Len(chain)
  BY TipIndex DEF ReceiverIInv, ReceiverTypeOK, ViewTypeOK, tip_index
<1>4. /\ tip_index' = tip + 1
      /\ \A i \in 1 .. tip : chain'[i] = chain[i]
      /\ chain'[tip + 1] = body
  BY <1>1, <1>2, <1>3, AppendProperties, LenProperties DEF tip_index
<1> HIDE DEF body
<1>5. ASSUME NEW r \in refused PROVE RefusedAt(r) /\ RefusedAt(r)'
  <2>1. RefusedAt(r)
    BY DEF HealingIInv
  <2> QED BY <1>3, <1>4, <2>1 DEF RefusedAt
<1>6. ASSUME Orderly' PROVE Orderly
  <2> SUFFICES ASSUME NEW r \in refused, r.written
               PROVE  r.index = tip + 1 \/ (r.index <= tip /\ chain[r.index] = r.body)
    BY <1>1, <1>6 DEF RefusedGetOn, Orderly, tip
  <2>1. r.index \in 1 .. tip + 1
    BY <1>5 DEF RefusedAt
  <2>2. chain'[r.index] = r.body
    BY <1>1, <1>3, <1>4, <1>6, <2>1 DEF RefusedGetOn, Orderly
  <2> QED BY <1>3, <1>4, <2>1, <2>2
<1>7. ASSUME Orderly', NEW r \in refused PROVE RefusedForGood(r)'
  <2>1. RefusedForGood(r) /\ ViewIInv /\ PhantomsAreWaiting
    BY <1>6, <1>7 DEF HealingIInv, ReceiverIInv, StoresInOrder
  <2>2. SoundOnChain(body)
    BY <1>2, <2>1, AcceptedIsSound
  <2>3. r.index \in 1 .. tip + 1
    BY <1>5 DEF RefusedAt
  <2>4. CASE r.index = tip + 1
    BY <1>3, <1>4, <2>1, <2>2, <2>4 DEF RefusedForGood
  <2>5. CASE r.index \in 1 .. tip
    BY <1>3, <1>4, <2>1, <2>5 DEF RefusedForGood
  <2> QED BY <1>3, <2>3, <2>4, <2>5
<1> QED BY <1>1, <1>5, <1>7 DEF HealingIInv

LEMMA HealingInductive == ReceiverSpec => []HealingIInv
<1>1. ReceiverInit => HealingIInv
  BY DEF ReceiverInit, HealingIInv
<1>2. ASSUME ReceiverIInv, HealingIInv, [ReceiverNext]_receiverVars PROVE HealingIInv'
  <2>1. ASSUME chain' = chain, refused' = refused, misplaced' = misplaced PROVE HealingIInv'
    BY <1>2, <2>1, RefusalKept
  <2>2. ASSUME NEW block \in Offered, NEW signature, NEW blobs,
               Offer(block, signature, blobs)
        PROVE  HealingIInv'
    BY <1>2, <2>1, <2>2, ExtendHeals, RefuseHeals, RefuseWrittenHeals
       DEF Offer, RefuseStale, receiverVars
  <2> QED BY <1>2, <2>1, <2>2 DEF ReceiverNext, Tick, receiverVars, viewVars
<1> QED BY <1>1, <1>2, ReceiverInductive, PTL DEF ReceiverSpec

-----------------------------------------------------------------------------
(* What follows                                                            *)

\* Chain, stores and the history of refusals keep their types, whatever blocks
\* are offered and refused.
THEOREM ReceiverTypeCorrect == ReceiverSpec => []ReceiverTypeOK
<1>1. ReceiverIInv => ReceiverTypeOK
  BY DEF ReceiverIInv
<1> QED BY <1>1, ReceiverInductive, PTL

\* A block refused for its header after its deltas were written passes when it
\* is offered again, at any later time and after the deltas of any competing
\* blocks, unless an earlier one was overtaken or a block had reward coins that
\* do not descend from its index.
THEOREM RetriesPass == ReceiverSpec => []TemporaryErrorsPass
<1>1. ReceiverIInv => TemporaryErrorsPass
  BY DEF ReceiverIInv, StoresInOrder, WaitingPass, Waiting, TemporaryErrorsPass
<1> QED BY <1>1, ReceiverInductive, PTL

\* Early, stale, repeated, incomplete and wrongly signed blocks do no harm to the
\* chain and to what the database says of it, as long as refused blocks get on
\* and no deltas are written of a block whose reward coins descend from another
\* index than its own: accept_new_block does not look at that.
THEOREM OffersDoNoHarm == ReceiverSpec => []NoHarmIfRetried
<1>1. ReceiverIInv => NoHarmIfRetried
  <2> SUFFICES ASSUME ReceiverIInv, Orderly
               PROVE  NoDoubleSpend /\ SpentWereCreated /\ DbMatchesChain
    BY DEF NoHarmIfRetried
  <2>1. ViewIInv
    BY DEF ReceiverIInv, StoresInOrder
  <2> QED BY <2>1, ViewNoDoubleSpend, ViewDbMatchesChain DEF ViewIInv
<1> QED BY <1>1, ReceiverInductive, PTL

\* What accept_new_block refuses for anything but a condition on time stays
\* refused: competing blocks refused after their deltas were written cannot make
\* it pass, and it is not the block that got on the chain.  The same premise:
\* refused blocks get on, and reward coins descend from their block's index.
THEOREM RefusalsAreFinal == ReceiverSpec => []OnlyTimeHeals
<1>1. ReceiverIInv /\ HealingIInv => OnlyTimeHeals
  <2> SUFFICES ASSUME ReceiverIInv, HealingIInv, Orderly, NEW r \in refused,
                      r.error \in Err \ {"ASSERT_TIME_EXCEEDS_FAILED"}
               PROVE  /\ r.index = tip_index + 1 => ~AllPass(AcceptNewBlock(r.body, now))
                      /\ r.index <= tip_index => chain[r.index] # r.body
    BY DEF OnlyTimeHeals
  <2>1. RefusedAt(r) /\ RefusedForGood(r) /\ ViewIInv /\ PhantomsAreWaiting /\ now \in Nat
    BY DEF HealingIInv, ReceiverIInv, ReceiverTypeOK, StoresInOrder
  <2>2. ASSUME r.index = tip_index + 1, AllPass(AcceptNewBlock(r.body, now)) PROVE FALSE
    <3>1. SoundOnChain(r.body)
      BY <2>1, <2>2, AcceptedIsSound DEF RefusedAt
    <3> QED BY <2>1, <2>2, <3>1 DEF RefusedForGood
  <2> QED BY <2>1, <2>2 DEF RefusedForGood
<1> QED BY <1>1, ReceiverInductive, HealingInductive, PTL
=============================================================================
