-------------------------- MODULE ChainViewProofs --------------------------
(***************************************************************************)
(* Lemmas about coins, bodies and the checks of accept_new_block, for the  *)
(* proofs about the components that extend the chain.                      *)
(***************************************************************************)
EXTENDS Farming, SumProofs, SequenceTheorems, WellFoundedInduction, TLAPS

-----------------------------------------------------------------------------
(* Least natural numbers *)

LessThan == {ss \in Nat \X Nat : ss[1] < ss[2]}

LEMMA LessThanWellFounded == IsWellFoundedOn(LessThan, Nat)
<1>1. OpToRel(<, Nat) = LessThan
  BY Zenon DEF OpToRel, LessThan
<1> QED BY <1>1, NatLessThanWellFounded, Zenon

\* A set of natural numbers that is not empty has a least element.
LEMMA LeastNat ==
  ASSUME NEW S \in SUBSET Nat, S # {}
  PROVE  \E x \in S : \A y \in S : x <= y
<1>1. PICK x \in S : \A y \in S : ~(<<y, x>> \in LessThan)
  BY LessThanWellFounded, WFMin, Zenon
<1>2. ASSUME NEW y \in S PROVE x <= y
  <2>1. ~(y < x)
    BY <1>1 DEF LessThan
  <2> QED BY <2>1
<1> QED BY <1>2

LEMMA MinInSet ==
  ASSUME NEW S \in SUBSET Nat, S # {}
  PROVE  Min(S) \in S
BY LeastNat, Zenon DEF Min

-----------------------------------------------------------------------------
(* Lists of checks *)

\* The error raised is one of the list, or none.
LEMMA FirstErrorType ==
  ASSUME NEW R, "OK" \in R, NEW errs \in Seq(R)
  PROVE  FirstError(errs) \in R
<1> DEFINE failed == {i \in DOMAIN errs : errs[i] # "OK"}
<1>1. CASE AllPass(errs)
  BY <1>1 DEF FirstError
<1>2. CASE ~AllPass(errs)
  <2>1. failed \in SUBSET Nat /\ failed # {}
    BY <1>2, LenProperties DEF AllPass
  <2>2. Min(failed) \in failed
    BY <2>1, MinInSet, Zenon
  <2>3. errs[Min(failed)] \in R
    BY <2>2, LenProperties, ElementOfSeq
  <2>4. FirstError(errs) = errs[Min(failed)]
    BY <1>2, Zenon DEF FirstError
  <2> QED BY <2>3, <2>4
<1> QED BY <1>1, <1>2

\* The list says "OK" only if each check does.
LEMMA FirstErrorOK ==
  ASSUME NEW R, NEW errs \in Seq(R), FirstError(errs) = "OK"
  PROVE  AllPass(errs)
<1> DEFINE failed == {i \in DOMAIN errs : errs[i] # "OK"}
<1>1. SUFFICES ASSUME ~AllPass(errs) PROVE FALSE
  OBVIOUS
<1>2. failed \in SUBSET Nat /\ failed # {}
  BY <1>1, LenProperties DEF AllPass
<1>3. Min(failed) \in failed
  BY <1>2, MinInSet, Zenon
<1>4. FirstError(errs) = errs[Min(failed)]
  BY <1>1, Zenon DEF FirstError
<1> QED BY <1>3, <1>4

LEMMA AllPassConcatIff ==
  ASSUME NEW R, NEW s \in Seq(R), NEW t \in Seq(R)
  PROVE  AllPass(s \o t) <=> AllPass(s) /\ AllPass(t)
<1>1. /\ Len(s) \in Nat /\ Len(t) \in Nat
      /\ DOMAIN s = 1 .. Len(s) /\ DOMAIN t = 1 .. Len(t)
      /\ DOMAIN (s \o t) = 1 .. Len(s) + Len(t)
      /\ \A i \in 1 .. Len(s) + Len(t) :
            (s \o t)[i] = IF i <= Len(s) THEN s[i] ELSE t[i - Len(s)]
  BY LenProperties, ConcatProperties
<1>2. ASSUME AllPass(s \o t), NEW i \in DOMAIN s PROVE s[i] = "OK"
  <2>1. (s \o t)[i] = "OK" /\ (s \o t)[i] = s[i]
    BY <1>1, <1>2 DEF AllPass
  <2> QED BY <2>1
<1>3. ASSUME AllPass(s \o t), NEW i \in DOMAIN t PROVE t[i] = "OK"
  <2>1. (s \o t)[i + Len(s)] = "OK" /\ (s \o t)[i + Len(s)] = t[i]
    BY <1>1, <1>3 DEF AllPass
  <2> QED BY <2>1
<1>4. ASSUME AllPass(s), AllPass(t), NEW i \in DOMAIN (s \o t) PROVE (s \o t)[i] = "OK"
  <2>1. CASE i <= Len(s)
    BY <1>1, <1>4, <2>1 DEF AllPass
  <2>2. CASE ~(i <= Len(s))
    <3>1. i - Len(s) \in DOMAIN t
      BY <1>1, <2>2
    <3> QED BY <1>1, <1>4, <2>2, <3>1 DEF AllPass
  <2> QED BY <2>1, <2>2
<1> QED BY <1>2, <1>3, <1>4 DEF AllPass

LEMMA AllPassConcat ==
  ASSUME NEW R, NEW s \in Seq(R), NEW t \in Seq(R), AllPass(s \o t)
  PROVE  AllPass(s) /\ AllPass(t)
BY AllPassConcatIff

\* The error raised is the first of the list.
LEMMA FirstErrorAt ==
  ASSUME NEW R, NEW errs \in Seq(R), NEW k \in DOMAIN errs, errs[k] # "OK",
         \A j \in DOMAIN errs : j < k => errs[j] = "OK"
  PROVE  FirstError(errs) = errs[k]
<1> DEFINE failed == {i \in DOMAIN errs : errs[i] # "OK"}
<1>1. DOMAIN errs = 1 .. Len(errs) /\ Len(errs) \in Nat
  BY LenProperties
<1>2. failed \in SUBSET Nat /\ k \in failed /\ \A y \in failed : k <= y
  BY <1>1
<1>3. ~AllPass(errs)
  BY DEF AllPass
<1>4. FirstError(errs) = errs[Min(failed)]
  BY <1>3, Zenon DEF FirstError
<1>5. Min(failed) = k
  <2> HIDE DEF failed
  <2>1. PICK m : m = Min(failed)
    OBVIOUS
  <2>2. m \in failed /\ \A y \in failed : m <= y
    BY <1>2, <2>1, Zenon DEF Min
  <2> QED BY <1>2, <2>1, <2>2
<1> QED BY <1>4, <1>5

LEMMA LeastFailure ==
  ASSUME NEW R, NEW errs \in Seq(R), ~AllPass(errs)
  PROVE  \E k \in DOMAIN errs :
            errs[k] # "OK" /\ \A j \in DOMAIN errs : j < k => errs[j] = "OK"
<1> DEFINE failed == {i \in DOMAIN errs : errs[i] # "OK"}
<1>1. DOMAIN errs = 1 .. Len(errs) /\ Len(errs) \in Nat
  BY LenProperties
<1>2. failed \in SUBSET Nat /\ failed # {}
  BY <1>1 DEF AllPass
<1>3. PICK k \in failed : \A y \in failed : k <= y
  <2> HIDE DEF failed
  <2> QED BY <1>2, LeastNat
<1>4. \A j \in DOMAIN errs : j < k => errs[j] = "OK"
  BY <1>1, <1>3
<1> QED BY <1>3, <1>4

\* Checks that pass do not change the verdict of those after them.
LEMMA FirstErrorSkips ==
  ASSUME NEW R, NEW s \in Seq(R), NEW t \in Seq(R), AllPass(s)
  PROVE  FirstError(s \o t) = FirstError(t)
<1>1. /\ Len(s) \in Nat /\ Len(t) \in Nat
      /\ DOMAIN s = 1 .. Len(s) /\ DOMAIN t = 1 .. Len(t)
      /\ DOMAIN (s \o t) = 1 .. Len(s) + Len(t)
      /\ s \o t \in Seq(R)
      /\ \A i \in 1 .. Len(s) + Len(t) :
            (s \o t)[i] = IF i <= Len(s) THEN s[i] ELSE t[i - Len(s)]
  BY LenProperties, ConcatProperties
<1>2. CASE AllPass(t)
  BY <1>2, AllPassConcatIff DEF FirstError
<1>3. CASE ~AllPass(t)
  <2>1. PICK k \in DOMAIN t : t[k] # "OK" /\ \A j \in DOMAIN t : j < k => t[j] = "OK"
    BY <1>3, LeastFailure
  <2>2. FirstError(t) = t[k]
    BY <2>1, FirstErrorAt
  <2>3. PICK u, m : u = s \o t /\ m = Len(s) + k
    OBVIOUS
  <2>4. m \in DOMAIN u /\ u[m] = t[k] /\ u \in Seq(R)
    BY <1>1, <2>3
  <2>5. ASSUME NEW j \in DOMAIN u, j < m PROVE u[j] = "OK"
    <3>1. CASE j <= Len(s)
      BY <1>1, <2>3, <2>5, <3>1 DEF AllPass
    <3>2. CASE ~(j <= Len(s))
      <4>1. j - Len(s) \in DOMAIN t /\ j - Len(s) < k /\ u[j] = t[j - Len(s)]
        BY <1>1, <2>3, <2>5, <3>2
      <4> QED BY <2>1, <4>1
    <3> QED BY <3>1, <3>2
  <2>6. FirstError(u) = u[m]
    BY <2>1, <2>4, <2>5, FirstErrorAt
  <2> QED BY <2>2, <2>3, <2>4, <2>6
<1> QED BY <1>2, <1>3

-----------------------------------------------------------------------------
(* Coin names *)

LEMMA LastAndFront ==
  ASSUME NEW S, NEW s \in Seq(S), NEW t \in Seq(S), NEW e \in S, NEW f \in S,
         Append(s, e) = Append(t, f)
  PROVE  s = t /\ e = f
<1>1. Len(s) = Len(t)
  BY AppendProperties, LenProperties
<1>2. \A i \in 1 .. Len(s) : s[i] = t[i]
  BY <1>1, AppendProperties, LenProperties
<1>3. e = f
  BY <1>1, AppendProperties, LenProperties
<1> QED BY <1>1, <1>2, <1>3, SeqEqual

LEMMA CoinNameType ==
  ASSUME NEW c \in Coin
  PROVE  /\ CoinName(c) \in Name
         /\ CoinName(c).path = Append(c.parent_coin_info.path, <<c.puzzle_hash, c.amount>>)
         /\ CoinName(c).block = c.parent_coin_info.block
         /\ Len(CoinName(c).path) = Len(c.parent_coin_info.path) + 1
         /\ Len(c.parent_coin_info.path) \in Nat
<1>1. /\ c.parent_coin_info \in Name
      /\ c.parent_coin_info.path \in Seq(PuzzleHash \X Int)
      /\ <<c.puzzle_hash, c.amount>> \in PuzzleHash \X Int
  BY DEF Coin, Name
<1>2. /\ CoinName(c).path = Append(c.parent_coin_info.path, <<c.puzzle_hash, c.amount>>)
      /\ CoinName(c).block = c.parent_coin_info.block
  BY <1>1 DEF CoinName, Name
<1>3. /\ Append(c.parent_coin_info.path, <<c.puzzle_hash, c.amount>>) \in Seq(PuzzleHash \X Int)
      /\ Len(Append(c.parent_coin_info.path, <<c.puzzle_hash, c.amount>>))
            = Len(c.parent_coin_info.path) + 1
      /\ Len(c.parent_coin_info.path) \in Nat
  BY <1>1, AppendProperties, LenProperties
<1>4. CoinName(c) \in Name
  BY <1>1, <1>3 DEF CoinName, Name
<1> QED BY <1>2, <1>3, <1>4

\* Two coins with one name are one coin.
LEMMA CoinNameInjective ==
  ASSUME NEW c \in Coin, NEW d \in Coin, CoinName(c) = CoinName(d)
  PROVE  c = d
<1>1. /\ c.parent_coin_info.path \in Seq(PuzzleHash \X Int)
      /\ d.parent_coin_info.path \in Seq(PuzzleHash \X Int)
      /\ <<c.puzzle_hash, c.amount>> \in PuzzleHash \X Int
      /\ <<d.puzzle_hash, d.amount>> \in PuzzleHash \X Int
  BY DEF Coin, Name
<1>2. Append(c.parent_coin_info.path, <<c.puzzle_hash, c.amount>>)
        = Append(d.parent_coin_info.path, <<d.puzzle_hash, d.amount>>)
  BY CoinNameType
<1>3. /\ c.parent_coin_info.path = d.parent_coin_info.path
      /\ <<c.puzzle_hash, c.amount>> = <<d.puzzle_hash, d.amount>>
  <2> DEFINE S == PuzzleHash \X Int
             cpath == c.parent_coin_info.path
             dpath == d.parent_coin_info.path
             ce == <<c.puzzle_hash, c.amount>>
             de == <<d.puzzle_hash, d.amount>>
  <2>1. /\ cpath \in Seq(S) /\ dpath \in Seq(S) /\ ce \in S /\ de \in S
        /\ Append(cpath, ce) = Append(dpath, de)
    BY <1>1, <1>2
  <2>2. cpath = dpath /\ ce = de
    <3> HIDE DEF S, cpath, dpath, ce, de
    <3> QED BY ONLY <2>1, LastAndFront
  <2> QED BY <2>2
<1>4. c.parent_coin_info.block = d.parent_coin_info.block
  BY CoinNameType
<1>5. c.parent_coin_info = d.parent_coin_info
  BY <1>3, <1>4 DEF Coin, Name
<1> QED BY <1>3, <1>5 DEF Coin

\* The parent of a reward coin is the name of no coin.
LEMMA BlockIndexHashIsNoCoin ==
  ASSUME NEW c \in Coin, NEW i
  PROVE  CoinName(c) # BlockIndexHash(i)
<1>1. Len(CoinName(c).path) # 0
  BY CoinNameType
<1>2. Len(BlockIndexHash(i).path) = 0
  BY DEF BlockIndexHash
<1> QED BY <1>1, <1>2

-----------------------------------------------------------------------------
(* Outputs, additions and removals *)

LEMMA NamesOfCoins ==
  ASSUME NEW X \in SUBSET Coin, NEW c \in Coin
  PROVE  CoinName(c) \in Names(X) <=> c \in X
BY CoinNameInjective DEF Names

\* An output is a child of one of the coins removed.
LEMMA OutputParent ==
  ASSUME NEW sols \in Seq(CoinSolution), NEW c \in OutputsOf(sols)
  PROVE  /\ c \in Coin
         /\ \E r \in RemovedCoins(sols) : c.parent_coin_info = CoinName(r)
<1>1. PICK s \in OutputSlots(sols) : c = Output(sols, s)
  BY DEF OutputsOf
<1>2. PICK i \in DOMAIN sols :
        \E j \in DOMAIN sols[i].conditions.create_coin : s = <<i, j>>
  BY <1>1 DEF OutputSlots
<1> PICK j \in DOMAIN sols[i].conditions.create_coin : s = <<i, j>>
  BY <1>2
<1>3. sols[i] \in CoinSolution
  BY LenProperties, ElementOfSeq
<1>4. sols[i].coin \in Coin /\ sols[i].conditions \in Condition
  BY <1>3 DEF CoinSolution
<1>5. sols[i].conditions.create_coin \in Seq([puzzle_hash : PuzzleHash, amount : Int])
  BY <1>4 DEF Condition
<1>6. sols[i].conditions.create_coin[j] \in [puzzle_hash : PuzzleHash, amount : Int]
  BY <1>5, LenProperties, ElementOfSeq
<1>7. c = [parent_coin_info |-> CoinName(sols[i].coin),
           puzzle_hash |-> sols[i].conditions.create_coin[j].puzzle_hash,
           amount |-> sols[i].conditions.create_coin[j].amount]
  BY <1>1, <1>2 DEF Output
<1>8. c \in Coin
  BY <1>4, <1>6, <1>7, CoinNameType DEF Coin
<1>9. sols[i].coin \in RemovedCoins(sols) /\ c.parent_coin_info = CoinName(sols[i].coin)
  BY <1>7 DEF RemovedCoins
<1> QED BY <1>8, <1>9

LEMMA SolutionFacts ==
  ASSUME NEW sols \in Seq(CoinSolution)
  PROVE  /\ Len(sols) \in Nat /\ DOMAIN sols = 1 .. Len(sols) /\ IsFiniteSet(DOMAIN sols)
         /\ \A i \in DOMAIN sols :
                /\ sols[i] \in CoinSolution /\ sols[i].coin \in Coin
                /\ sols[i].conditions \in Condition
                /\ sols[i].conditions.create_coin \in Seq([puzzle_hash : PuzzleHash, amount : Int])
<1>1. /\ Len(sols) \in Nat /\ DOMAIN sols = 1 .. Len(sols)
      /\ \A i \in DOMAIN sols : sols[i] \in CoinSolution
  BY LenProperties, ElementOfSeq
<1>2. IsFiniteSet(1 .. Len(sols))
  BY <1>1, FS_Interval
<1> QED BY <1>1, <1>2 DEF CoinSolution, Condition

LEMMA RemovalsAreCoins ==
  ASSUME NEW sols \in Seq(CoinSolution)
  PROVE  RemovedCoins(sols) \subseteq Coin
<1> SUFFICES ASSUME NEW i \in DOMAIN sols PROVE sols[i].coin \in Coin
  BY DEF RemovedCoins
<1> sols[i] \in CoinSolution
  BY LenProperties, ElementOfSeq
<1> QED BY DEF CoinSolution

\* No output sits in the slots of the reward coins.
LEMMA SlotsOfSolutions ==
  ASSUME NEW sols \in Seq(CoinSolution), NEW s \in OutputSlots(sols)
  PROVE  s # CoinbaseSlot /\ s # FeesSlot
<1>1. PICK i \in DOMAIN sols : s \in {i} \X DOMAIN sols[i].conditions.create_coin
  BY DEF OutputSlots
<1>2. s[1] = i /\ i \in 1 .. Len(sols)
  BY <1>1, LenProperties
<1> QED BY <1>2, LenProperties DEF CoinbaseSlot, FeesSlot

LEMMA AdditionsAre ==
  ASSUME NEW body \in Body
  PROVE  /\ Additions(body) =
                {body.coinbase_coin, body.fees_coin} \cup OutputsOf(body.coin_solutions)
         /\ Additions(body) \subseteq Coin
         /\ Removals(body) \subseteq Coin
<1> DEFINE sols == body.coin_solutions
<1>1. /\ sols \in Seq(CoinSolution)
      /\ body.coinbase_coin \in Coin /\ body.fees_coin \in Coin
  BY DEF Body
<1>2. CoinbaseSlot \notin OutputSlots(sols) /\ FeesSlot \notin OutputSlots(sols)
  BY <1>1, SlotsOfSolutions
<1>3. AdditionAt(body, CoinbaseSlot) = body.coinbase_coin
  BY DEF AdditionAt
<1>4. AdditionAt(body, FeesSlot) = body.fees_coin
  BY DEF AdditionAt, CoinbaseSlot, FeesSlot
<1>5. \A s \in OutputSlots(sols) : AdditionAt(body, s) = Output(sols, s)
  BY <1>2 DEF AdditionAt
<1>6. Additions(body) = {body.coinbase_coin, body.fees_coin} \cup OutputsOf(sols)
  <2> HIDE DEF sols
  <2>1. AdditionSlots(body) = {CoinbaseSlot, FeesSlot} \cup OutputSlots(sols)
    BY DEF AdditionSlots, sols
  <2> QED BY <1>3, <1>4, <1>5, <2>1 DEF Additions, OutputsOf
<1>7. Additions(body) \subseteq Coin
  BY <1>1, <1>6, OutputParent
<1>8. Removals(body) \subseteq Coin
  BY <1>1, RemovalsAreCoins DEF Removals
<1> QED BY <1>6, <1>7, <1>8

-----------------------------------------------------------------------------
(* What accept_new_block establishes when it raises nothing *)

LEMMA RemovalErrorType ==
  ASSUME NEW body, NEW coin
  PROVE  RemovalError(body, coin) \in Err \cup {"OK"}
<1> DEFINE unspent == UnspentFor(body, CoinName(coin))
           e1 == Raise(~IsConfirmed(unspent), "UNKNOWN_UNSPENT")
           e2 == Raise(IsSpentOnChain(unspent), "DOUBLE_SPEND")
<1>1. <<e1, e2>> \in Seq(Err \cup {"OK"})
  <2>1. e1 \in Err \cup {"OK"} /\ e2 \in Err \cup {"OK"}
    BY DEF Raise, Err
  <2> HIDE DEF e1, e2
  <2> QED BY <2>1
<1>2. FirstError(<<e1, e2>>) \in Err \cup {"OK"}
  <2> HIDE DEF e1, e2
  <2> QED BY <1>1, FirstErrorType
<1> QED BY <1>2 DEF RemovalError

\* A list of checks raises nothing if and only if each of them passes.
LEMMA FirstErrorIff ==
  ASSUME NEW R, NEW errs \in Seq(R)
  PROVE  FirstError(errs) = "OK" <=> AllPass(errs)
BY FirstErrorOK DEF FirstError

\* A removal that passes is created by the block, or on the chain and unspent.
LEMMA RemovalErrorIff ==
  ASSUME NEW body, NEW coin
  PROVE  RemovalError(body, coin) = "OK" <=>
            \/ coin \in Additions(body)
            \/ /\ IsConfirmed(UnspentFor(body, CoinName(coin)))
               /\ ~IsSpentOnChain(UnspentFor(body, CoinName(coin)))
<1> DEFINE unspent == UnspentFor(body, CoinName(coin))
           e1 == Raise(~IsConfirmed(unspent), "UNKNOWN_UNSPENT")
           e2 == Raise(IsSpentOnChain(unspent), "DOUBLE_SPEND")
<1>1. SUFFICES ASSUME coin \notin Additions(body)
               PROVE  FirstError(<<e1, e2>>) = "OK"
                        <=> IsConfirmed(unspent) /\ ~IsSpentOnChain(unspent)
  BY DEF RemovalError
<1>2. e1 \in Err \cup {"OK"} /\ e2 \in Err \cup {"OK"}
  BY DEF Raise, Err
<1>3. (e1 = "OK" <=> IsConfirmed(unspent)) /\ (e2 = "OK" <=> ~IsSpentOnChain(unspent))
  BY DEF Raise
<1> HIDE DEF e1, e2, unspent
<1>4. <<e1, e2>> \in Seq(Err \cup {"OK"})
  BY <1>2
<1>5. AllPass(<<e1, e2>>) <=> e1 = "OK" /\ e2 = "OK"
  BY DEF AllPass
<1>6. FirstError(<<e1, e2>>) = "OK" <=> e1 = "OK" /\ e2 = "OK"
  BY <1>4, <1>5, FirstErrorIff
<1> QED BY <1>3, <1>6

\* The conditions of a solution, as check_conditions_dict reads them.
ConditionsMet(body, sol, time) ==
    LET c == sol.conditions IN
    /\ c.coin_consumed \subseteq Names(Removals(body))
    /\ c.my_coin_id \subseteq {CoinName(sol.coin)}
    /\ \A t \in c.time_exceeds : TimeExceeds(time, t)
    /\ \A i \in c.block_index_exceeds : BlockIndexExceeds(i)
    /\ \A a \in c.block_age_exceeds : BlockAgeExceeds(a, UnspentFor(body, CoinName(sol.coin)))

LEMMA ConditionsErrorIff ==
  ASSUME NEW body, NEW sol, NEW time
  PROVE  /\ ConditionsError(body, sol, time) \in Err \cup {"OK"}
         /\ ConditionsError(body, sol, time) = "OK" <=> ConditionsMet(body, sol, time)
<1> DEFINE c == sol.conditions
           unspent == UnspentFor(body, CoinName(sol.coin))
           e1 == Raise(~(c.coin_consumed \subseteq Names(Removals(body))),
                       "ASSERT_COIN_CONSUMED_FAILED")
           e2 == Raise(~(c.my_coin_id \subseteq {CoinName(sol.coin)}),
                       "ASSERT_MY_COIN_ID_FAILED")
           e3 == Raise(\E t \in c.time_exceeds : ~TimeExceeds(time, t),
                       "ASSERT_TIME_EXCEEDS_FAILED")
           e4 == Raise(\E i \in c.block_index_exceeds : ~BlockIndexExceeds(i),
                       "ASSERT_BLOCK_INDEX_EXCEEDS_FAILED")
           e5 == Raise(\E a \in c.block_age_exceeds : ~BlockAgeExceeds(a, unspent),
                       "ASSERT_BLOCK_AGE_EXCEEDS_FAILED")
           all == e1 = "OK" /\ e2 = "OK" /\ e3 = "OK" /\ e4 = "OK" /\ e5 = "OK"
<1>1. /\ e1 \in Err \cup {"OK"} /\ e2 \in Err \cup {"OK"} /\ e3 \in Err \cup {"OK"}
      /\ e4 \in Err \cup {"OK"} /\ e5 \in Err \cup {"OK"}
  BY DEF Raise, Err
<1>2. ConditionsError(body, sol, time) = FirstError(<<e1, e2, e3, e4, e5>>)
  BY DEF ConditionsError
<1>3. all <=> ConditionsMet(body, sol, time)
  BY DEF Raise, ConditionsMet
<1> HIDE DEF e1, e2, e3, e4, e5
<1>4. <<e1, e2, e3, e4, e5>> \in Seq(Err \cup {"OK"})
  BY <1>1
<1>5. AllPass(<<e1, e2, e3, e4, e5>>) <=> all
  BY DEF AllPass
<1>6. FirstError(<<e1, e2, e3, e4, e5>>) = "OK" <=> all
  BY <1>4, <1>5, FirstErrorIff
<1> QED BY <1>2, <1>3, <1>4, <1>6, FirstErrorType

LEMMA ConditionsErrorType ==
  ASSUME NEW body, NEW sol, NEW time
  PROVE  ConditionsError(body, sol, time) \in Err \cup {"OK"}
BY ConditionsErrorIff

\* The list of accept_new_block is a list of error codes.
LEMMA AcceptNewBlockType ==
  ASSUME NEW body, NEW time, body.coin_solutions \in Seq(CoinSolution)
  PROVE  AcceptNewBlock(body, time) \in Seq(Err \cup {"OK"})
<1> DEFINE R == Err \cup {"OK"}
           sols == body.coin_solutions
           e1 == Raise(\E c \in Additions(body) : c.amount >= MAX_COIN_AMOUNT,
                       "COIN_AMOUNT_EXCEEDS_MAXIMUM")
           e2 == Raise(DuplicateOutput(body), "DUPLICATE_OUTPUT")
           e3 == Raise(DuplicateRemoval(sols), "DOUBLE_SPEND")
           e4 == Raise(~(Removals(body) \subseteq KnownCoins(body)), "UNKNOWN")
           e5 == Raise(\E i \in DOMAIN sols : ~PuzzleMatches(sols[i]), "WRONG_PUZZLE_HASH")
           f6 == [i \in DOMAIN sols |-> RemovalError(body, sols[i].coin)]
           e7 == Raise(BlockSurplus(body) # REWARD, "BAD_COINBASE_REWARD")
           f8 == [i \in DOMAIN sols |-> ConditionsError(body, sols[i], time)]
           e9 == Raise(~ValidSignature(body.aggregated_signature, sols),
                       "BAD_AGGREGATE_SIGNATURE")
<1>1. /\ e1 \in R /\ e2 \in R /\ e3 \in R /\ e4 \in R /\ e5 \in R
      /\ e7 \in R /\ e9 \in R
  BY DEF Raise, Err
<1>2. DOMAIN sols = 1 .. Len(sols) /\ Len(sols) \in Nat
  BY LenProperties DEF Body
<1>3. f6 \in Seq(R) /\ f8 \in Seq(R)
  <2>1. /\ f6 \in [1 .. Len(sols) -> R]
        /\ f8 \in [1 .. Len(sols) -> R]
    BY <1>2, RemovalErrorType, ConditionsErrorType
  <2> HIDE DEF f6, f8, R
  <2> QED BY <1>2, <2>1, SeqDef
<1>4. FirstError(f6) \in R /\ FirstError(f8) \in R
  <2> HIDE DEF f6, f8
  <2> QED BY <1>3, FirstErrorType
<1>5. AcceptNewBlock(body, time) = <<e1, e2, e3, e4, e5, FirstError(f6), e7, FirstError(f8), e9>>
  BY DEF AcceptNewBlock
<1> HIDE DEF R, e1, e2, e3, e4, e5, f6, e7, f8, e9
<1>6. <<e1, e2, e3, e4, e5, FirstError(f6), e7, FirstError(f8), e9>> \in Seq(R)
  BY <1>1, <1>4
<1> QED BY <1>5, <1>6 DEF R

\* What accept_new_block asks of a body, check by check.
Acceptable(body, time) ==
    LET sols == body.coin_solutions IN
    /\ \A c \in Additions(body) : ~(c.amount >= MAX_COIN_AMOUNT)
    /\ ~DuplicateOutput(body)
    /\ ~DuplicateRemoval(sols)
    /\ Removals(body) \subseteq KnownCoins(body)
    /\ \A i \in DOMAIN sols : PuzzleMatches(sols[i])
    /\ \A r \in Removals(body) :
            \/ r \in Additions(body)
            \/ /\ IsConfirmed(UnspentFor(body, CoinName(r)))
               /\ ~IsSpentOnChain(UnspentFor(body, CoinName(r)))
    /\ BlockSurplus(body) = REWARD
    /\ \A i \in DOMAIN sols : ConditionsMet(body, sols[i], time)
    /\ ValidSignature(body.aggregated_signature, sols)

\* It raises nothing if and only if that is so.
LEMMA AcceptedIff ==
  ASSUME NEW body, NEW time, body.coin_solutions \in Seq(CoinSolution)
  PROVE  AllPass(AcceptNewBlock(body, time)) <=> Acceptable(body, time)
<1> DEFINE R == Err \cup {"OK"}
           sols == body.coin_solutions
           errs == AcceptNewBlock(body, time)
           f6 == [i \in DOMAIN sols |-> RemovalError(body, sols[i].coin)]
           f8 == [i \in DOMAIN sols |-> ConditionsError(body, sols[i], time)]
<1>1. /\ DOMAIN errs = 1 .. 9
      /\ errs[1] = Raise(\E c \in Additions(body) : c.amount >= MAX_COIN_AMOUNT,
                         "COIN_AMOUNT_EXCEEDS_MAXIMUM")
      /\ errs[2] = Raise(DuplicateOutput(body), "DUPLICATE_OUTPUT")
      /\ errs[3] = Raise(DuplicateRemoval(sols), "DOUBLE_SPEND")
      /\ errs[4] = Raise(~(Removals(body) \subseteq KnownCoins(body)), "UNKNOWN")
      /\ errs[5] = Raise(\E i \in DOMAIN sols : ~PuzzleMatches(sols[i]), "WRONG_PUZZLE_HASH")
      /\ errs[6] = FirstError(f6)
      /\ errs[7] = Raise(BlockSurplus(body) # REWARD, "BAD_COINBASE_REWARD")
      /\ errs[8] = FirstError(f8)
      /\ errs[9] = Raise(~ValidSignature(body.aggregated_signature, sols),
                         "BAD_AGGREGATE_SIGNATURE")
  BY DEF AcceptNewBlock
<1>2. f6 \in Seq(R) /\ f8 \in Seq(R)
  <2>1. DOMAIN sols = 1 .. Len(sols) /\ Len(sols) \in Nat
    BY LenProperties
  <2>2. f6 \in [1 .. Len(sols) -> R] /\ f8 \in [1 .. Len(sols) -> R]
    BY <2>1, RemovalErrorType, ConditionsErrorType
  <2> HIDE DEF f6, f8, R
  <2> QED BY <2>1, <2>2, SeqDef
<1>3. FirstError(f6) = "OK" <=>
        \A r \in Removals(body) :
            \/ r \in Additions(body)
            \/ /\ IsConfirmed(UnspentFor(body, CoinName(r)))
               /\ ~IsSpentOnChain(UnspentFor(body, CoinName(r)))
  <2>1. FirstError(f6) = "OK" <=> AllPass(f6)
    <3> HIDE DEF f6, R
    <3> QED BY <1>2, FirstErrorIff
  <2>2. AllPass(f6) <=> \A i \in DOMAIN sols : RemovalError(body, sols[i].coin) = "OK"
    BY DEF AllPass
  <2>3. (\A i \in DOMAIN sols : RemovalError(body, sols[i].coin) = "OK")
            <=> \A r \in Removals(body) : RemovalError(body, r) = "OK"
    BY DEF Removals, RemovedCoins
  <2> HIDE DEF f6, sols
  <2> QED BY <2>1, <2>2, <2>3, RemovalErrorIff
<1>4. FirstError(f8) = "OK" <=> \A i \in DOMAIN sols : ConditionsMet(body, sols[i], time)
  <2>1. FirstError(f8) = "OK" <=> AllPass(f8)
    <3> HIDE DEF f8, R
    <3> QED BY <1>2, FirstErrorIff
  <2>2. AllPass(f8) <=> \A i \in DOMAIN sols : ConditionsError(body, sols[i], time) = "OK"
    BY DEF AllPass
  <2> HIDE DEF f8, sols
  <2> QED BY <2>1, <2>2, ConditionsErrorIff
<1>5. AllPass(errs) <=> /\ errs[1] = "OK" /\ errs[2] = "OK" /\ errs[3] = "OK"
                        /\ errs[4] = "OK" /\ errs[5] = "OK" /\ errs[6] = "OK"
                        /\ errs[7] = "OK" /\ errs[8] = "OK" /\ errs[9] = "OK"
  <2>1. DOMAIN errs = {1, 2, 3, 4, 5, 6, 7, 8, 9}
    BY <1>1
  <2> HIDE DEF errs
  <2> QED BY <2>1 DEF AllPass
<1> HIDE DEF errs, f6, f8
<1>6. /\ errs[1] = "OK" <=> \A c \in Additions(body) : ~(c.amount >= MAX_COIN_AMOUNT)
      /\ errs[2] = "OK" <=> ~DuplicateOutput(body)
      /\ errs[3] = "OK" <=> ~DuplicateRemoval(sols)
      /\ errs[4] = "OK" <=> Removals(body) \subseteq KnownCoins(body)
      /\ errs[5] = "OK" <=> \A i \in DOMAIN sols : PuzzleMatches(sols[i])
      /\ errs[7] = "OK" <=> BlockSurplus(body) = REWARD
      /\ errs[9] = "OK" <=> ValidSignature(body.aggregated_signature, sols)
  BY <1>1 DEF Raise
<1> QED BY <1>1, <1>3, <1>4, <1>5, <1>6 DEF Acceptable, errs

\* Time conditions stay met while the clock goes on, so that a block accepted
\* as of its lookups is acceptable as of its answer.
LEMMA AcceptableLater ==
  ASSUME NEW body, body.coin_solutions \in Seq(CoinSolution),
         NEW time \in Nat, NEW later \in Nat, time <= later, Acceptable(body, time)
  PROVE  Acceptable(body, later)
<1>1. ASSUME NEW i \in DOMAIN body.coin_solutions,
             ConditionsMet(body, body.coin_solutions[i], time)
      PROVE  ConditionsMet(body, body.coin_solutions[i], later)
  <2>1. body.coin_solutions[i].conditions.time_exceeds \subseteq Int
    BY SolutionFacts DEF Condition
  <2>2. \A t \in body.coin_solutions[i].conditions.time_exceeds :
            TimeExceeds(time, t) => TimeExceeds(later, t)
    BY <2>1 DEF TimeExceeds
  <2> QED BY <1>1, <2>2 DEF ConditionsMet
<1> QED BY <1>1 DEF Acceptable

\* A block that passes removes no coin twice; it knows each coin it removes,
\* sees its puzzle, and creates it or finds it on the chain and unspent.
LEMMA AcceptedBlock ==
  ASSUME NEW body \in Body, NEW time, AllPass(AcceptNewBlock(body, time))
  PROVE  /\ ~DuplicateOutput(body)
         /\ ~DuplicateRemoval(body.coin_solutions)
         /\ Removals(body) \subseteq KnownCoins(body)
         /\ \A i \in DOMAIN body.coin_solutions : PuzzleMatches(body.coin_solutions[i])
         /\ \A r \in Removals(body) :
                \/ r \in Additions(body)
                \/ /\ IsConfirmed(UnspentFor(body, CoinName(r)))
                   /\ ~IsSpentOnChain(UnspentFor(body, CoinName(r)))
         /\ BlockSurplus(body) = REWARD
<1>1. body.coin_solutions \in Seq(CoinSolution)
  BY DEF Body
<1> QED BY <1>1, AcceptedIff DEF Acceptable

-----------------------------------------------------------------------------
(* What apply_deltas writes *)

LEMMA ApplyDeltasAt ==
  ASSUME NEW index, NEW additions \in SUBSET Coin, NEW removals \in SUBSET Coin,
         NEW c \in Coin,
         CoinName(c) \in DOMAIN unspent_db \/ c \in additions
  PROVE  LET db == ApplyDeltas(index, additions, removals)
             n == CoinName(c)
         IN  /\ n \in DOMAIN db
             /\ db[n].confirmed_block_index =
                    IF c \in additions THEN index ELSE unspent_db[n].confirmed_block_index
             /\ db[n].spent_block_index =
                    IF c \in removals THEN index
                    ELSE IF c \in additions THEN 0
                    ELSE unspent_db[n].spent_block_index
<1>1. /\ CoinName(c) \in Names(additions) <=> c \in additions
      /\ CoinName(c) \in Names(removals) <=> c \in removals
  BY NamesOfCoins
<1> QED BY <1>1 DEF ApplyDeltas

-----------------------------------------------------------------------------
(* Amounts of money *)

LEMMA SlotsFinite ==
  ASSUME NEW sols \in Seq(CoinSolution)
  PROVE  IsFiniteSet(OutputSlots(sols))
<1> DEFINE b == [i \in DOMAIN sols |-> {i} \X DOMAIN sols[i].conditions.create_coin]
<1>1. IsFiniteSet(DOMAIN sols)
  BY SolutionFacts
<1>2. \A i \in DOMAIN sols : IsFiniteSet(b[i])
  <2> SUFFICES ASSUME NEW i \in DOMAIN sols
               PROVE  IsFiniteSet({i} \X DOMAIN sols[i].conditions.create_coin)
    OBVIOUS
  <2>1. PICK outs : outs = sols[i].conditions.create_coin
    OBVIOUS
  <2>2. outs \in Seq([puzzle_hash : PuzzleHash, amount : Int])
    BY <2>1, SolutionFacts
  <2>3. Len(outs) \in Nat /\ DOMAIN outs = 1 .. Len(outs)
    BY <2>2, LenProperties
  <2>4. IsFiniteSet(1 .. Len(outs))
    BY <2>3, FS_Interval
  <2>5. IsFiniteSet({i})
    BY FS_Singleton
  <2>6. IsFiniteSet({i} \X (1 .. Len(outs)))
    BY <2>4, <2>5, FS_Product
  <2> QED BY <2>1, <2>3, <2>6
<1>3. OutputSlots(sols) = UNION {b[i] : i \in DOMAIN sols}
  BY DEF OutputSlots
<1> HIDE DEF b
<1>4. IsFiniteSet({b[i] : i \in DOMAIN sols})
  BY <1>1, FiniteImage
<1>5. \A T \in {b[i] : i \in DOMAIN sols} : IsFiniteSet(T)
  BY <1>2
<1>6. IsFiniteSet(UNION {b[i] : i \in DOMAIN sols})
  BY <1>4, <1>5, FS_UNION
<1> QED BY <1>3, <1>6

\* Coins by slot; two slots may hold the same coin.
LEMMA AdditionFacts ==
  ASSUME NEW body \in Body
  PROVE  /\ IsFiniteSet(AdditionSlots(body)) /\ IsFiniteSet(Additions(body))
         /\ \A s \in AdditionSlots(body) : AdditionAt(body, s) \in Coin
<1>1. body.coin_solutions \in Seq(CoinSolution)
  BY DEF Body
<1>2. IsFiniteSet(AdditionSlots(body))
  <2>1. IsFiniteSet({CoinbaseSlot} \cup {FeesSlot})
    BY FS_Singleton, FS_Union
  <2>2. AdditionSlots(body) = ({CoinbaseSlot} \cup {FeesSlot}) \cup OutputSlots(body.coin_solutions)
    BY DEF AdditionSlots
  <2> QED BY <1>1, <2>1, <2>2, SlotsFinite, FS_Union
<1>3. \A s \in AdditionSlots(body) : AdditionAt(body, s) \in Coin
  BY AdditionsAre DEF Additions
<1>4. PICK b : b = [s \in AdditionSlots(body) |-> AdditionAt(body, s)]
  OBVIOUS
<1>5. Additions(body) = {b[s] : s \in AdditionSlots(body)}
  BY <1>4 DEF Additions
<1> QED BY <1>2, <1>3, <1>5, FiniteImage

LEMMA RemovalsFinite ==
  ASSUME NEW sols \in Seq(CoinSolution)
  PROVE  IsFiniteSet(RemovedCoins(sols))
<1>1. PICK b : b = [i \in DOMAIN sols |-> sols[i].coin]
  OBVIOUS
<1>2. RemovedCoins(sols) = {b[i] : i \in DOMAIN sols}
  BY <1>1 DEF RemovedCoins
<1>3. IsFiniteSet(DOMAIN sols)
  BY SolutionFacts
<1>4. IsFiniteSet({b[i] : i \in DOMAIN sols})
  BY <1>3, FiniteImage
<1> QED BY <1>2, <1>4

Amounts(coins) == [c \in coins |-> c.amount]

\* The value of coins is a sum of the amounts of any larger set.
LEMMA ValueWithin ==
  ASSUME NEW X \in SUBSET Coin, NEW Y \in SUBSET X, IsFiniteSet(Y)
  PROVE  Value(Y) = SumFunctionOnSet(Amounts(X), Y) /\ Value(Y) \in Int
<1>1. Value(Y) = SumFunctionOnSet(Amounts(Y), Y)
  BY DEF Value, SumFunction, Amounts
<1>2. \A c \in Y : Amounts(X)[c] \in Int /\ Amounts(Y)[c] = Amounts(X)[c]
  BY DEF Amounts, Coin
<1>3. SumFunctionOnSet(Amounts(Y), Y) = SumFunctionOnSet(Amounts(X), Y)
  BY <1>2, SumSameTerms
<1>4. SumFunctionOnSet(Amounts(X), Y) \in Int
  BY <1>2, SumType
<1> QED BY <1>1, <1>3, <1>4

LEMMA ValueType ==
  ASSUME NEW X \in SUBSET Coin, IsFiniteSet(X)
  PROVE  Value(X) \in Int
BY ValueWithin

LEMMA ValueUnion ==
  ASSUME NEW X \in SUBSET Coin, NEW Y \in SUBSET Coin, X \cap Y = {},
         IsFiniteSet(X), IsFiniteSet(Y)
  PROVE  Value(X \cup Y) = Value(X) + Value(Y)
<1>1. PICK Z : Z = X \cup Y
  OBVIOUS
<1>2. Z \in SUBSET Coin /\ X \in SUBSET Z /\ Y \in SUBSET Z /\ IsFiniteSet(Z)
  BY <1>1, FS_Union
<1>3. \A c \in X \cup Y : Amounts(Z)[c] \in Int
  BY <1>1, <1>2 DEF Amounts, Coin
<1>4. SumFunctionOnSet(Amounts(Z), X \cup Y)
        = SumFunctionOnSet(Amounts(Z), X) + SumFunctionOnSet(Amounts(Z), Y)
  BY <1>3, SumUnion
<1>5. /\ Value(Z) = SumFunctionOnSet(Amounts(Z), Z)
      /\ Value(X) = SumFunctionOnSet(Amounts(Z), X)
      /\ Value(Y) = SumFunctionOnSet(Amounts(Z), Y)
  BY <1>2, ValueWithin
<1> QED BY <1>1, <1>4, <1>5

LEMMA ValueDifference ==
  ASSUME NEW X \in SUBSET Coin, NEW Y \in SUBSET X, IsFiniteSet(X)
  PROVE  Value(X \ Y) = Value(X) - Value(Y)
<1>1. PICK Z : Z = X \ Y
  OBVIOUS
<1>2. Z \in SUBSET X /\ IsFiniteSet(Z) /\ IsFiniteSet(Y)
  BY <1>1, FS_Subset
<1>3. \A c \in X : Amounts(X)[c] \in Int
  BY DEF Amounts, Coin
<1>4. SumFunctionOnSet(Amounts(X), X \ Y)
        = SumFunctionOnSet(Amounts(X), X) - SumFunctionOnSet(Amounts(X), Y)
  BY <1>3, SumDifference
<1>5. /\ Value(X) = SumFunctionOnSet(Amounts(X), X)
      /\ Value(Z) = SumFunctionOnSet(Amounts(X), Z)
      /\ Value(Y) = SumFunctionOnSet(Amounts(X), Y)
  BY <1>2, ValueWithin
<1> QED BY <1>1, <1>4, <1>5

\* Coins removed once are worth the amounts counted solution by solution.
LEMMA AmountInIsValue ==
  ASSUME NEW sols \in Seq(CoinSolution), ~DuplicateRemoval(sols)
  PROVE  Value(RemovedCoins(sols)) = AmountIn(sols)
<1> DEFINE ixs == DOMAIN sols
<1>1. PICK f, b : f = [i \in ixs |-> sols[i].coin.amount]
                  /\ b = [i \in ixs |-> sols[i].coin]
  <2>1. \E f : f = [i \in ixs |-> sols[i].coin.amount]
    OBVIOUS
  <2>2. \E b : b = [i \in ixs |-> sols[i].coin]
    OBVIOUS
  <2> QED BY <2>1, <2>2
<1>2. IsFiniteSet(ixs) /\ DOMAIN f = ixs
  BY <1>1, SolutionFacts
<1>3. RemovedCoins(sols) = {b[i] : i \in ixs}
  BY <1>1 DEF RemovedCoins
<1>4. \A i \in ixs : b[i] \in Coin /\ f[i] = b[i].amount
  BY <1>1, SolutionFacts
<1>5. \A i \in ixs : f[i] \in Int /\ Amounts(RemovedCoins(sols))[b[i]] = f[i]
  BY <1>3, <1>4 DEF Amounts, Coin
<1>6. \A i, j \in ixs : b[i] = b[j] => i = j
  BY <1>1 DEF DuplicateRemoval
<1>7. SumFunctionOnSet(Amounts(RemovedCoins(sols)), {b[i] : i \in ixs})
        = SumFunctionOnSet(f, ixs)
  <2> HIDE DEF ixs
  <2> QED BY <1>2, <1>5, <1>6, SumReindex
<1>8. Value(RemovedCoins(sols)) = SumFunctionOnSet(Amounts(RemovedCoins(sols)), RemovedCoins(sols))
  BY DEF Value, SumFunction, Amounts
<1>9. AmountIn(sols) = SumFunctionOnSet(f, ixs)
  BY <1>1 DEF AmountIn, SumFunction
<1> HIDE DEF ixs
<1> QED BY <1>3, <1>7, <1>8, <1>9

\* Outputs that differ are worth the amounts counted output by output.
LEMMA SurplusIsValue ==
  ASSUME NEW body \in Body, ~DuplicateOutput(body), ~DuplicateRemoval(body.coin_solutions)
  PROVE  BlockSurplus(body) = Value(Additions(body)) - Value(Removals(body))
<1> DEFINE slots == AdditionSlots(body)
<1>1. PICK f, b : f = [s \in slots |-> AdditionAt(body, s).amount]
                  /\ b = [s \in slots |-> AdditionAt(body, s)]
  <2>1. \E f : f = [s \in slots |-> AdditionAt(body, s).amount]
    OBVIOUS
  <2>2. \E b : b = [s \in slots |-> AdditionAt(body, s)]
    OBVIOUS
  <2> QED BY <2>1, <2>2
<1>2. IsFiniteSet(slots) /\ DOMAIN f = slots
  BY <1>1, AdditionFacts
<1>3. Additions(body) = {b[s] : s \in slots}
  BY <1>1 DEF Additions
<1>4. \A s \in slots : b[s] \in Coin /\ f[s] = b[s].amount
  BY <1>1, AdditionFacts
<1>5. \A s \in slots : f[s] \in Int /\ Amounts(Additions(body))[b[s]] = f[s]
  BY <1>3, <1>4 DEF Amounts, Coin
<1>6. \A s, t \in slots : b[s] = b[t] => s = t
  BY <1>1 DEF DuplicateOutput
<1>7. SumFunctionOnSet(Amounts(Additions(body)), {b[s] : s \in slots}) = SumFunctionOnSet(f, slots)
  BY <1>2, <1>5, <1>6, SumReindex
<1>8. Value(Additions(body)) = SumFunctionOnSet(Amounts(Additions(body)), Additions(body))
  BY DEF Value, SumFunction, Amounts
<1>9. BlockSurplus(body) = SumFunctionOnSet(f, slots) - AmountIn(body.coin_solutions)
  BY <1>1 DEF BlockSurplus, SumFunction
<1>10. Value(Removals(body)) = AmountIn(body.coin_solutions)
  BY AmountInIsValue DEF Body, Removals
<1> HIDE DEF slots
<1> QED BY <1>3, <1>7, <1>8, <1>9, <1>10

\* The outputs of a block that passes are pairwise different coins and worth
\* the removals and one reward.
LEMMA AcceptedOutputs ==
  ASSUME NEW body \in Body, NEW time, AllPass(AcceptNewBlock(body, time))
  PROVE  /\ ~DuplicateOutput(body)
         /\ Value(Additions(body)) - Value(Removals(body)) = REWARD
BY AcceptedBlock, SurplusIsValue

-----------------------------------------------------------------------------
(* What the stores say of the chain, whatever else has been written *)

\* Both stores know the same coins.
StoresAgree == DOMAIN unspent_db = Names(preimage_db)

\* The reward coins of block i descend from the index i and nothing else does.
RewardsDescendFromIndex ==
    \A i \in DOMAIN chain :
        /\ chain[i].coinbase_coin.parent_coin_info = BlockIndexHash(i)
        /\ chain[i].fees_coin.parent_coin_info = BlockIndexHash(i)

BlocksRemoveOnce == \A i \in DOMAIN chain : ~DuplicateRemoval(chain[i].coin_solutions)

\* The records of the coins on the chain.
ConfirmedMatches ==
    \A i \in DOMAIN chain : \A c \in Additions(chain[i]) :
        /\ c \in preimage_db
        /\ unspent_db[CoinName(c)].confirmed_block_index = i

SpentMatches ==
    \A i \in DOMAIN chain : \A c \in Removals(chain[i]) :
        unspent_db[CoinName(c)].spent_block_index = i

\* A record says "spent" only of what a block has removed, or of what the next
\* one may.
SpentIsRemoved ==
    \A c \in preimage_db :
        LET spent == unspent_db[CoinName(c)].spent_block_index IN
        /\ \A j \in DOMAIN chain : spent = j => c \in Removals(chain[j])
        /\ spent <= tip_index + 1

ViewIInv ==
    /\ ViewTypeOK
    /\ StoresAgree
    /\ RewardsDescendFromIndex
    /\ BlocksRemoveOnce
    /\ ConfirmedMatches
    /\ SpentWereCreated
    /\ SpentMatches
    /\ SpentIsRemoved

\* A body with its rewards at the next index which the checks let pass.
Extension(body) ==
    /\ body \in Body
    /\ body.coinbase_coin.parent_coin_info = BlockIndexHash(tip_index + 1)
    /\ body.fees_coin.parent_coin_info = BlockIndexHash(tip_index + 1)
    /\ \E time \in Nat : AllPass(AcceptNewBlock(body, time))

-----------------------------------------------------------------------------
(* New blocks remove and create nothing the chain has removed or created   *)

LEMMA TipIndex ==
  ASSUME ViewTypeOK
  PROVE  tip_index \in Nat /\ DOMAIN chain = 1 .. tip_index
         /\ \A i \in DOMAIN chain : chain[i] \in Body
BY LenProperties, ElementOfSeq DEF ViewTypeOK, tip_index

LEMMA RemovedWereAdded ==
  ASSUME ViewIInv
  PROVE  ChainRemovals \subseteq ChainAdditions
<1> SUFFICES ASSUME NEW i \in DOMAIN chain, NEW c \in Removals(chain[i])
             PROVE  c \in ChainAdditions
  BY DEF ChainRemovals
<1>1. PICK j \in 1 .. i : c \in Additions(chain[j])
  BY DEF ViewIInv, SpentWereCreated
<1>2. j \in DOMAIN chain
  BY TipIndex DEF ViewIInv
<1> QED BY <1>1, <1>2 DEF ChainAdditions

\* A coin of the chain is a reward of its block or a child of what it removes.
LEMMA ParentOnChain ==
  ASSUME ViewIInv, NEW i \in DOMAIN chain, NEW c \in Additions(chain[i])
  PROVE  /\ c \in Coin
         /\ \/ c.parent_coin_info = BlockIndexHash(i)
            \/ \E r \in Removals(chain[i]) : c.parent_coin_info = CoinName(r)
<1>1. chain[i] \in Body /\ chain[i].coin_solutions \in Seq(CoinSolution)
  BY TipIndex DEF ViewIInv, Body
<1>2. c \in {chain[i].coinbase_coin, chain[i].fees_coin}
            \cup OutputsOf(chain[i].coin_solutions)
  BY <1>1, AdditionsAre
<1>3. c \in Coin
  BY <1>1, AdditionsAre
<1>4. CASE c \in {chain[i].coinbase_coin, chain[i].fees_coin}
  BY <1>3, <1>4 DEF ViewIInv, RewardsDescendFromIndex
<1>5. CASE c \in OutputsOf(chain[i].coin_solutions)
  BY <1>1, <1>3, <1>5, OutputParent DEF Removals
<1> QED BY <1>2, <1>4, <1>5

LEMMA ParentInNewBody ==
  ASSUME NEW body, Extension(body), NEW c \in Additions(body)
  PROVE  /\ c \in Coin
         /\ \/ c.parent_coin_info = BlockIndexHash(tip_index + 1)
            \/ \E r \in Removals(body) : c.parent_coin_info = CoinName(r)
<1>1. body \in Body /\ body.coin_solutions \in Seq(CoinSolution)
  BY DEF Extension, Body
<1>2. c \in {body.coinbase_coin, body.fees_coin} \cup OutputsOf(body.coin_solutions)
  BY <1>1, AdditionsAre
<1>3. c \in Coin
  BY <1>1, AdditionsAre
<1>4. CASE c \in {body.coinbase_coin, body.fees_coin}
  BY <1>3, <1>4 DEF Extension
<1>5. CASE c \in OutputsOf(body.coin_solutions)
  BY <1>1, <1>3, <1>5, OutputParent DEF Removals
<1> QED BY <1>2, <1>4, <1>5

\* A coin created both by the new body and by the chain is the child of a coin
\* that both remove.
LEMMA CommonParent ==
  ASSUME ViewIInv, NEW body, Extension(body), NEW c \in Additions(body), c \in ChainAdditions
  PROVE  \E r \in Removals(body) \cap ChainRemovals :
            r \in Coin /\ c.parent_coin_info = CoinName(r)
<1>1. PICK j \in DOMAIN chain : c \in Additions(chain[j])
  BY DEF ChainAdditions
<1>2. j \in 1 .. tip_index /\ tip_index \in Nat /\ chain[j] \in Body
  BY TipIndex DEF ViewIInv
<1>3. BlockIndexHash(tip_index + 1) # BlockIndexHash(j)
  BY <1>2 DEF BlockIndexHash
<1>4. \/ c.parent_coin_info = BlockIndexHash(j)
      \/ \E r \in Removals(chain[j]) : c.parent_coin_info = CoinName(r)
  BY <1>1, ParentOnChain
<1>5. \/ c.parent_coin_info = BlockIndexHash(tip_index + 1)
      \/ \E r \in Removals(body) : c.parent_coin_info = CoinName(r)
  BY ParentInNewBody
<1>6. Removals(body) \subseteq Coin /\ Removals(chain[j]) \subseteq Coin
  BY <1>2, AdditionsAre DEF Extension
<1>7. PICK r \in Removals(body), d \in Removals(chain[j]) :
        c.parent_coin_info = CoinName(r) /\ c.parent_coin_info = CoinName(d)
  BY <1>3, <1>4, <1>5, <1>6, BlockIndexHashIsNoCoin
<1>8. r = d
  BY <1>6, <1>7, CoinNameInjective
<1> QED BY <1>6, <1>7, <1>8 DEF ChainRemovals

\* The checks look a removal up in the database only if the block does not
\* create it: that a spent coin cannot be created again needs the ancestry.
LEMMA FreshRemovals ==
  ASSUME ViewIInv, NEW body, Extension(body)
  PROVE  Removals(body) \cap ChainRemovals = {}
<1> DEFINE again == Removals(body) \cap ChainRemovals
           depths == {Len(c.parent_coin_info.path) : c \in again}
<1>1. SUFFICES ASSUME again # {} PROVE FALSE
  OBVIOUS
<1>2. again \subseteq Coin
  BY AdditionsAre DEF Extension
<1>3. depths \in SUBSET Nat /\ depths # {}
  BY <1>1, <1>2, CoinNameType
<1>4. PICK c \in again : \A d \in again :
            Len(c.parent_coin_info.path) <= Len(d.parent_coin_info.path)
  <2>1. PICK x \in depths : \A y \in depths : x <= y
    <3> HIDE DEF depths
    <3> QED BY <1>3, LeastNat
  <2> QED BY <2>1
<1>5. IsSpentOnChain(UnspentFor(body, CoinName(c)))
  <2>1. PICK i \in DOMAIN chain : c \in Removals(chain[i])
    BY DEF ChainRemovals
  <2>2. i \in 1 .. tip_index /\ tip_index \in Nat
    BY TipIndex DEF ViewIInv
  <2>3. PICK j \in 1 .. i : c \in Additions(chain[j])
    BY <2>1 DEF ViewIInv, SpentWereCreated
  <2>4. j \in DOMAIN chain
    BY <2>2, TipIndex DEF ViewIInv
  <2>5. c \in preimage_db
    BY <2>3, <2>4 DEF ViewIInv, ConfirmedMatches
  <2>6. UnspentFor(body, CoinName(c)) = unspent_db[CoinName(c)]
    BY <2>5 DEF UnspentFor, ViewIInv, StoresAgree, Names
  <2>7. unspent_db[CoinName(c)].spent_block_index = i
    BY <2>1 DEF ViewIInv, SpentMatches
  <2> QED BY <2>2, <2>6, <2>7 DEF IsSpentOnChain
<1>6. c \in Additions(body)
  BY <1>5, AcceptedBlock DEF Extension
<1>7. c \in ChainAdditions
  BY RemovedWereAdded
<1>8. PICK r \in again : r \in Coin /\ c.parent_coin_info = CoinName(r)
  BY <1>6, <1>7, CommonParent
<1>9. Len(c.parent_coin_info.path) = Len(r.parent_coin_info.path) + 1
  BY <1>8, CoinNameType
<1>10. Len(r.parent_coin_info.path) \in Nat
  BY <1>8, CoinNameType
<1> QED BY <1>4, <1>8, <1>9, <1>10

LEMMA FreshAdditions ==
  ASSUME ViewIInv, NEW body, Extension(body)
  PROVE  Additions(body) \cap ChainAdditions = {}
BY FreshRemovals, CommonParent

-----------------------------------------------------------------------------
(* The stores after a trial or a farmed body                               *)

LEMMA NewRecord ==
  ASSUME ViewIInv, NEW body, Extension(body), WriteDeltas(body), NEW c \in preimage_db'
  PROVE  /\ c \in Coin
         /\ c \in preimage_db \/ c \in Additions(body)
         /\ CoinName(c) \in DOMAIN unspent_db'
         /\ unspent_db'[CoinName(c)].confirmed_block_index =
                IF c \in Additions(body) THEN tip_index + 1
                ELSE unspent_db[CoinName(c)].confirmed_block_index
         /\ unspent_db'[CoinName(c)].spent_block_index =
                IF c \in Removals(body) THEN tip_index + 1
                ELSE IF c \in Additions(body) THEN 0
                ELSE unspent_db[CoinName(c)].spent_block_index
<1>1. Additions(body) \in SUBSET Coin /\ Removals(body) \in SUBSET Coin
  BY AdditionsAre DEF Extension
<1>2. c \in preimage_db \/ c \in Additions(body)
  BY DEF WriteDeltas
<1>3. c \in Coin
  BY <1>1, <1>2 DEF ViewIInv, ViewTypeOK
<1>4. CoinName(c) \in DOMAIN unspent_db \/ c \in Additions(body)
  BY <1>2 DEF ViewIInv, StoresAgree, Names
<1>5. unspent_db' = ApplyDeltas(tip_index + 1, Additions(body), Removals(body))
  BY DEF WriteDeltas
<1> QED BY <1>1, <1>2, <1>3, <1>4, <1>5, ApplyDeltasAt

LEMMA NewStores ==
  ASSUME ViewIInv, NEW body, Extension(body), WriteDeltas(body)
  PROVE  /\ preimage_db' \subseteq Coin
         /\ StoresAgree'
         /\ DOMAIN unspent_db' \subseteq Name
         /\ \A n \in DOMAIN unspent_db' : unspent_db'[n] \in Unspent
<1>1. preimage_db' = preimage_db \cup Additions(body)
      /\ unspent_db' = ApplyDeltas(tip_index + 1, Additions(body), Removals(body))
  BY DEF WriteDeltas
<1>2. preimage_db' \subseteq Coin
  BY NewRecord
<1>3. DOMAIN unspent_db' = Names(preimage_db')
  BY <1>1 DEF ApplyDeltas, ViewIInv, StoresAgree, Names
<1>4. DOMAIN unspent_db' \subseteq Name
  BY <1>2, <1>3, CoinNameType DEF Names
<1>5. ASSUME NEW n \in DOMAIN unspent_db' PROVE unspent_db'[n] \in Unspent
  <2>1. PICK c \in preimage_db' : n = CoinName(c)
    BY <1>3 DEF Names
  <2>2. tip_index + 1 \in Nat
    BY TipIndex DEF ViewIInv
  <2>3. c \in Additions(body) \/ unspent_db[n] \in Unspent
    BY <2>1, NewRecord DEF ViewIInv, ViewTypeOK, StoresAgree, Names
  <2>4. /\ unspent_db'[n].confirmed_block_index \in Nat
        /\ unspent_db'[n].spent_block_index \in Nat
    BY <2>1, <2>2, <2>3, NewRecord DEF Unspent
  <2>5. unspent_db'[n] = [confirmed_block_index |-> unspent_db'[n].confirmed_block_index,
                          spent_block_index |-> unspent_db'[n].spent_block_index]
    BY <1>1, <1>5 DEF ApplyDeltas
  <2> QED BY <2>4, <2>5 DEF Unspent
<1> QED BY <1>2, <1>3, <1>4, <1>5 DEF StoresAgree

\* The records of the chain's coins keep what the chain says of them.
LEMMA ChainRecordsKept ==
  ASSUME ViewIInv, NEW body, Extension(body), WriteDeltas(body)
  PROVE  /\ \A i \in DOMAIN chain : \A c \in Additions(chain[i]) :
                /\ c \in preimage_db'
                /\ unspent_db'[CoinName(c)].confirmed_block_index = i
         /\ \A i \in DOMAIN chain : \A c \in Removals(chain[i]) :
                unspent_db'[CoinName(c)].spent_block_index = i
<1>1. ASSUME NEW i \in DOMAIN chain, NEW c \in Additions(chain[i])
      PROVE  /\ c \in preimage_db' /\ c \notin Additions(body)
             /\ unspent_db'[CoinName(c)].confirmed_block_index = i
  <2>1. c \in preimage_db /\ unspent_db[CoinName(c)].confirmed_block_index = i
    BY DEF ViewIInv, ConfirmedMatches
  <2>2. c \in preimage_db'
    BY <2>1 DEF WriteDeltas
  <2>3. c \notin Additions(body)
    BY FreshAdditions DEF ChainAdditions
  <2> QED BY <2>1, <2>2, <2>3, NewRecord
<1>2. ASSUME NEW i \in DOMAIN chain, NEW c \in Removals(chain[i])
      PROVE  unspent_db'[CoinName(c)].spent_block_index = i
  <2>1. unspent_db[CoinName(c)].spent_block_index = i
    BY DEF ViewIInv, SpentMatches
  <2>2. c \in ChainRemovals /\ c \in ChainAdditions
    BY RemovedWereAdded DEF ChainRemovals
  <2>3. c \notin Removals(body)
    BY <2>2, FreshRemovals
  <2>4. c \in preimage_db' /\ c \notin Additions(body)
    BY <1>1, <2>2 DEF ChainAdditions
  <2> QED BY <2>1, <2>3, <2>4, NewRecord
<1> QED BY <1>1, <1>2

-----------------------------------------------------------------------------
(* What follows of the chain and the stores *)

LEMMA ViewNoDoubleSpend == ViewIInv => NoDoubleSpend
<1> SUFFICES ASSUME ViewIInv,
                    NEW i \in DOMAIN chain, NEW j \in DOMAIN chain,
                    NEW k \in DOMAIN chain[i].coin_solutions,
                    NEW l \in DOMAIN chain[j].coin_solutions,
                    RemovedAt(i, k) = RemovedAt(j, l)
             PROVE  i = j /\ k = l
  BY DEF NoDoubleSpend
<1>1. RemovedAt(i, k) \in Removals(chain[i]) /\ RemovedAt(j, l) \in Removals(chain[j])
  BY DEF RemovedAt, Removals, RemovedCoins
<1>2. i = j
  BY <1>1 DEF ViewIInv, SpentMatches
<1>3. k = l
  BY <1>2 DEF ViewIInv, BlocksRemoveOnce, DuplicateRemoval, RemovedAt
<1> QED BY <1>2, <1>3

LEMMA ViewDbMatchesChain == ViewIInv => DbMatchesChain
<1> SUFFICES ASSUME ViewIInv, NEW i \in DOMAIN chain, NEW c \in Additions(chain[i]),
                    NEW j \in DOMAIN chain
             PROVE  /\ CoinName(c) \in DOMAIN unspent_db
                    /\ unspent_db[CoinName(c)].confirmed_block_index = i
                    /\ c \in Removals(chain[j])
                            <=> unspent_db[CoinName(c)].spent_block_index = j
  BY DEF DbMatchesChain
<1>1. c \in preimage_db /\ unspent_db[CoinName(c)].confirmed_block_index = i
  BY DEF ViewIInv, ConfirmedMatches
<1>2. CoinName(c) \in DOMAIN unspent_db
  BY <1>1 DEF ViewIInv, StoresAgree, Names
<1>3. c \in Removals(chain[j]) <=> unspent_db[CoinName(c)].spent_block_index = j
  BY <1>1 DEF ViewIInv, SpentMatches, SpentIsRemoved
<1> QED BY <1>1, <1>2, <1>3

LEMMA SpentRecordKept ==
  ASSUME ViewIInv, NEW body, Extension(body), WriteDeltas(body),
         NEW n \in DOMAIN unspent_db, IsSpent(n)
  PROVE  n \in DOMAIN unspent_db' /\ unspent_db'[n] = unspent_db[n]
<1>1. PICK c \in preimage_db : n = CoinName(c)
  BY DEF ViewIInv, StoresAgree, Names
<1>2. PICK i \in 1 .. tip_index : unspent_db[n].spent_block_index = i
  BY DEF IsSpent
<1>3. i \in DOMAIN chain
  BY TipIndex DEF ViewIInv
<1>4. c \in Removals(chain[i])
  BY <1>1, <1>2, <1>3 DEF ViewIInv, SpentIsRemoved
<1>5. unspent_db'[n].spent_block_index = i
  BY <1>1, <1>3, <1>4, ChainRecordsKept
<1>6. PICK j \in DOMAIN chain : c \in Additions(chain[j])
  BY <1>3, <1>4, RemovedWereAdded DEF ChainRemovals, ChainAdditions
<1>7. /\ c \in preimage_db'
      /\ unspent_db'[n].confirmed_block_index = j
      /\ unspent_db[n].confirmed_block_index = j
  BY <1>1, <1>6, ChainRecordsKept DEF ViewIInv, ConfirmedMatches
<1>8. n \in DOMAIN unspent_db'
  BY <1>1, <1>7, NewRecord
<1>9. unspent_db[n] \in Unspent /\ unspent_db'[n] \in Unspent
  BY <1>8, NewStores DEF ViewIInv, ViewTypeOK
<1> QED BY <1>2, <1>5, <1>7, <1>8, <1>9 DEF Unspent

-----------------------------------------------------------------------------
(* How the stores and the chain may change *)

LEMMA ViewInitially == ViewInit => ViewIInv
<1> SUFFICES ASSUME ViewInit PROVE ViewIInv
  OBVIOUS
<1>1. /\ chain = <<>> /\ unspent_db = [n \in {} |-> NoUnspent] /\ preimage_db = {}
      /\ DOMAIN chain = {} /\ DOMAIN unspent_db = {} /\ chain \in Seq(Body)
  BY DEF ViewInit
<1>2. ViewTypeOK /\ StoresAgree
  BY <1>1 DEF ViewTypeOK, StoresAgree, Names
<1> QED
  BY <1>1, <1>2 DEF ViewIInv, RewardsDescendFromIndex, BlocksRemoveOnce, ConfirmedMatches,
     SpentWereCreated, SpentMatches, SpentIsRemoved

LEMMA ViewUnchanged ==
  ASSUME ViewIInv, UNCHANGED viewVars
  PROVE  ViewIInv'
BY DEF viewVars, ViewIInv, ViewTypeOK, StoresAgree, RewardsDescendFromIndex,
   BlocksRemoveOnce, ConfirmedMatches, SpentWereCreated, SpentMatches, SpentIsRemoved,
   tip_index

\* What a record says of its spending after the deltas of a body.
LEMMA SpentAfter ==
  ASSUME ViewIInv, NEW body, Extension(body), WriteDeltas(body), NEW c \in preimage_db'
  PROVE  LET spent == unspent_db'[CoinName(c)].spent_block_index IN
         /\ \A j \in DOMAIN chain : spent = j => c \in Removals(chain[j])
         /\ spent <= tip_index + 1
         /\ spent = tip_index + 1 =>
                \/ c \in Removals(body)
                \/ /\ c \in preimage_db \ (Additions(body) \cup Removals(body))
                   /\ unspent_db[CoinName(c)].spent_block_index = tip_index + 1
<1>1. tip_index \in Nat /\ DOMAIN chain = 1 .. tip_index
  BY TipIndex DEF ViewIInv
<1>2. CASE c \in Removals(body)
  BY <1>1, <1>2, NewRecord
<1>3. CASE c \notin Removals(body) /\ c \in Additions(body)
  BY <1>1, <1>3, NewRecord
<1>4. CASE c \notin Removals(body) /\ c \notin Additions(body)
  <2>1. /\ unspent_db'[CoinName(c)].spent_block_index
                = unspent_db[CoinName(c)].spent_block_index
        /\ c \in preimage_db
    BY <1>4, NewRecord
  <2> QED BY <1>4, <2>1 DEF ViewIInv, SpentIsRemoved
<1> QED BY <1>2, <1>3, <1>4

\* A body whose deltas are written and which is dropped.
LEMMA TrialStep ==
  ASSUME ViewIInv, NEW body, Extension(body), WriteDeltas(body), chain' = chain
  PROVE  ViewIInv'
<1>1. tip_index' = tip_index
  BY DEF tip_index
<1>2. ViewTypeOK' /\ StoresAgree'
  BY NewStores DEF ViewIInv, ViewTypeOK
<1>3. ConfirmedMatches' /\ SpentMatches'
  BY ChainRecordsKept DEF ConfirmedMatches, SpentMatches
<1>4. SpentIsRemoved'
  BY <1>1, SpentAfter DEF SpentIsRemoved
<1>5. RewardsDescendFromIndex' /\ BlocksRemoveOnce' /\ SpentWereCreated'
  BY DEF ViewIInv, RewardsDescendFromIndex, BlocksRemoveOnce, SpentWereCreated
<1> QED BY <1>2, <1>3, <1>4, <1>5 DEF ViewIInv

\* A body that goes on the chain.  It may remove only coins that it creates or
\* a block has created; what has been marked spent at its index, it must remove.
LEMMA ChainStep ==
  ASSUME ViewIInv, NEW body, Extension(body), WriteDeltas(body), chain' = Append(chain, body),
         Removals(body) \subseteq Additions(body) \cup ChainAdditions,
         \A c \in preimage_db :
            unspent_db[CoinName(c)].spent_block_index = tip_index + 1 => c \in Removals(body)
  PROVE  /\ ViewIInv'
         /\ tip_index' = tip_index + 1
         /\ ChainAdditions' = ChainAdditions \cup Additions(body)
         /\ \A c \in preimage_db' :
                unspent_db'[CoinName(c)].spent_block_index < tip_index' + 1
<1> DEFINE tip == tip_index
<1>1. /\ tip \in Nat /\ DOMAIN chain = 1 .. tip /\ chain \in Seq(Body) /\ tip = Len(chain)
      /\ body \in Body
  BY TipIndex DEF ViewIInv, ViewTypeOK, tip_index, Extension
<1>2. /\ chain' \in Seq(Body)
      /\ tip_index' = tip + 1
      /\ DOMAIN chain' = 1 .. tip + 1
      /\ \A i \in 1 .. tip : chain'[i] = chain[i]
      /\ chain'[tip + 1] = body
  BY <1>1, AppendProperties, LenProperties DEF tip_index
<1> HIDE DEF tip
<1>3. ChainAdditions' = ChainAdditions \cup Additions(body)
  BY <1>1, <1>2 DEF ChainAdditions
<1>4. preimage_db' = preimage_db \cup Additions(body)
  BY DEF WriteDeltas
<1>5. ViewTypeOK' /\ StoresAgree'
  BY <1>2, NewStores DEF ViewTypeOK
<1>6. RewardsDescendFromIndex'
  BY <1>1, <1>2 DEF ViewIInv, RewardsDescendFromIndex, Extension, tip
<1>7. BlocksRemoveOnce'
  <2>1. ~DuplicateRemoval(body.coin_solutions)
    BY AcceptedBlock DEF Extension
  <2> QED BY <1>1, <1>2, <2>1 DEF ViewIInv, BlocksRemoveOnce
<1>8. ConfirmedMatches'
  <2>1. ASSUME NEW c \in Additions(body)
        PROVE  c \in preimage_db' /\ unspent_db'[CoinName(c)].confirmed_block_index = tip + 1
    BY <1>4, NewRecord DEF tip
  <2>2. ASSUME NEW i \in 1 .. tip, NEW c \in Additions(chain[i])
        PROVE  c \in preimage_db' /\ unspent_db'[CoinName(c)].confirmed_block_index = i
    BY <1>1, ChainRecordsKept
  <2> QED BY <1>1, <1>2, <2>1, <2>2 DEF ConfirmedMatches
<1>9. SpentWereCreated'
  <2>1. ASSUME NEW c \in Removals(body)
        PROVE  \E j \in 1 .. tip + 1 : c \in Additions(chain'[j])
    BY <1>1, <1>2 DEF ChainAdditions
  <2>2. ASSUME NEW i \in 1 .. tip, NEW c \in Removals(chain[i])
        PROVE  \E j \in 1 .. i : c \in Additions(chain'[j])
    <3>1. PICK j \in 1 .. i : c \in Additions(chain[j])
      BY <1>1 DEF ViewIInv, SpentWereCreated
    <3> QED BY <1>1, <1>2, <3>1
  <2> QED BY <1>1, <1>2, <2>1, <2>2 DEF SpentWereCreated
<1>10. SpentMatches'
  <2>1. ASSUME NEW c \in Removals(body)
        PROVE  unspent_db'[CoinName(c)].spent_block_index = tip + 1
    <3>1. c \in preimage_db'
      BY <1>4 DEF ViewIInv, ConfirmedMatches, ChainAdditions
    <3> QED BY <3>1, NewRecord DEF tip
  <2>2. ASSUME NEW i \in 1 .. tip, NEW c \in Removals(chain[i])
        PROVE  unspent_db'[CoinName(c)].spent_block_index = i
    BY <1>1, ChainRecordsKept
  <2> QED BY <1>1, <1>2, <2>1, <2>2 DEF SpentMatches
<1>11. \A c \in preimage_db' :
            LET spent == unspent_db'[CoinName(c)].spent_block_index IN
            /\ \A j \in 1 .. tip : spent = j => c \in Removals(chain[j])
            /\ spent = tip + 1 => c \in Removals(body)
            /\ spent \in Nat /\ spent <= tip + 1
  <2> SUFFICES ASSUME NEW c \in preimage_db'
        PROVE  LET spent == unspent_db'[CoinName(c)].spent_block_index IN
               /\ \A j \in 1 .. tip : spent = j => c \in Removals(chain[j])
               /\ spent = tip + 1 => c \in Removals(body)
               /\ spent \in Nat /\ spent <= tip + 1
    OBVIOUS
  <2>1. unspent_db'[CoinName(c)].spent_block_index \in Nat
    BY <1>5 DEF ViewTypeOK, Unspent, StoresAgree, Names
  <2>2. LET spent == unspent_db'[CoinName(c)].spent_block_index IN
        /\ \A j \in DOMAIN chain : spent = j => c \in Removals(chain[j])
        /\ spent <= tip_index + 1
        /\ spent = tip_index + 1 => c \in Removals(body)
    BY SpentAfter
  <2> QED BY <1>1, <2>1, <2>2 DEF tip
<1>12. SpentIsRemoved'
  BY <1>1, <1>2, <1>11 DEF SpentIsRemoved
<1>13. \A c \in preimage_db' : unspent_db'[CoinName(c)].spent_block_index < tip_index' + 1
  BY <1>1, <1>2, <1>11
<1> QED BY <1>2, <1>3, <1>5, <1>6, <1>7, <1>8, <1>9, <1>10, <1>12, <1>13 DEF ViewIInv, tip

-----------------------------------------------------------------------------
(* The body farmed from a bundle *)

LEMMA FeesType ==
  ASSUME NEW bundle \in SpendBundle
  PROVE  /\ AmountIn(bundle.coin_solutions) \in Int /\ AmountOut(bundle.coin_solutions) \in Int
         /\ Fees(bundle) \in Int
<1> DEFINE sols == bundle.coin_solutions
           slots == OutputSlots(sols)
<1>1. sols \in Seq(CoinSolution)
  BY DEF SpendBundle
<1>2. PICK f, g : f = [i \in DOMAIN sols |-> sols[i].coin.amount]
                  /\ g = [s \in slots |-> Output(sols, s).amount]
  <2>1. \E f : f = [i \in DOMAIN sols |-> sols[i].coin.amount]
    OBVIOUS
  <2>2. \E g : g = [s \in slots |-> Output(sols, s).amount]
    OBVIOUS
  <2> QED BY <2>1, <2>2
<1>3. \A s \in slots : Output(sols, s) \in Coin
  BY <1>1, OutputParent DEF OutputsOf
<1>4. (\A i \in DOMAIN sols : f[i] \in Int) /\ (\A s \in slots : g[s] \in Int)
  BY <1>1, <1>2, <1>3, SolutionFacts DEF Coin
<1>5. IsFiniteSet(DOMAIN sols)
  BY <1>1, SolutionFacts
<1>6. IsFiniteSet(slots)
  BY <1>1, SlotsFinite
<1>7. AmountIn(sols) = SumFunctionOnSet(f, DOMAIN sols)
  BY <1>2 DEF AmountIn, SumFunction
<1>8. AmountOut(sols) = SumFunctionOnSet(g, slots)
  BY <1>2 DEF AmountOut, SumFunction
<1>9. SumFunctionOnSet(f, DOMAIN sols) \in Int
  BY <1>4, <1>5, SumType
<1>10. SumFunctionOnSet(g, slots) \in Int
  BY <1>4, <1>6, SumType
<1> QED BY <1>7, <1>8, <1>9, <1>10 DEF Fees

LEMMA FarmedFacts ==
  ASSUME ViewTypeOK, NEW bundle \in SpendBundle, NEW h1 \in PuzzleHash, NEW h2 \in PuzzleHash,
         NEW body, body = FarmedBody(bundle, h1, h2)
  PROVE  /\ body \in Body
         /\ body.coin_solutions = bundle.coin_solutions
         /\ body.aggregated_signature = bundle.aggregated_signature
         /\ body.coinbase_coin.amount = REWARD /\ body.fees_coin.amount = Fees(bundle)
         /\ body.coinbase_coin.puzzle_hash = h1 /\ body.fees_coin.puzzle_hash = h2
         /\ body.coinbase_coin.parent_coin_info = BlockIndexHash(tip_index + 1)
         /\ body.fees_coin.parent_coin_info = BlockIndexHash(tip_index + 1)
         /\ Removals(body) = RemovedCoins(bundle.coin_solutions)
         /\ Additions(body) =
                {body.coinbase_coin, body.fees_coin} \cup OutputsOf(bundle.coin_solutions)
<1>1. tip_index \in Nat
  BY TipIndex
<1>2. BlockIndexHash(tip_index + 1) \in Name
  BY <1>1 DEF BlockIndexHash, Name
<1>3. body \in Body
  BY <1>2, FeesType, RewardAssumption DEF FarmedBody, RewardCoin, Body, Coin, SpendBundle
<1>4. body.coin_solutions = bundle.coin_solutions
  BY DEF FarmedBody
<1> QED BY <1>3, <1>4, AdditionsAre DEF FarmedBody, RewardCoin, Removals
=============================================================================
