------------------------- MODULE LedgerAsyncProofs -------------------------
(***************************************************************************)
(* The requests of LedgerAPI as interleaved tasks, for any number of       *)
(* workers: _next_block_lock makes every request that has the lock see one *)
(* state of the ledger, so that the tasks implement Ledger.                *)
(***************************************************************************)
EXTENDS LedgerAsync, LedgerPendingProofs

-----------------------------------------------------------------------------
(* The inductive invariant *)

\* Who has the lock or waits for it, once each; only the first is past it.
LockOK ==
    /\ \A i, j \in DOMAIN lock : lock[i] = lock[j] => i = j
    /\ \A v \in Worker : pc[v] # "idle" <=> \E i \in DOMAIN lock : lock[i] = v
    /\ \A i \in DOMAIN lock : i # 1 => pc[lock[i]] = "waiting"

\* What a task that has looked at the ledger has made of it is what it would
\* make of it now.
Holds(t, stage) ==
    LET bundle == BundleOf(t.request)
        h == HashesOf(t.request)
        errs == AcceptNewBlock(t.body, t.time)
    IN  /\ t.body = FarmedBody(bundle, h[1], h[2])
        /\ t.time < CLOCK_LIMIT
        /\ ValidSignature(bundle.aggregated_signature, bundle.coin_solutions)
        /\ FeesFit(bundle)
        /\ t.verdict = FirstError(errs)
        /\ \A k \in 1 .. 3 : errs[k] = "OK"
        /\ stage = "debugger" => ~(Removals(t.body) \subseteq KnownCoins(t.body))

WorkerOK(v) ==
    /\ task[v] \in Task(v)
    /\ pc[v] # "idle" => WellSigned(task[v].request)
    /\ v \in Inside => Holds(task[v], pc[v])

AsyncIInv ==
    /\ IInv
    /\ lock \in Seq(Worker)
    /\ pc \in [Worker -> PC]
    /\ DOMAIN task = Worker
    /\ accepted \subseteq Bundle
    /\ LockOK
    /\ \A v \in Worker : WorkerOK(v)

-----------------------------------------------------------------------------
(* Requests and the checks before the lookups *)

LEMMA RequestFacts ==
  ASSUME TypeOK, NEW r \in Request
  PROVE  /\ BundleOf(r) \in SpendBundle
         /\ HashesOf(r)[1] \in PuzzleHash /\ HashesOf(r)[2] \in PuzzleHash
         /\ \/ r.do = "push_tx" /\ r.tx \in Bundle
            \/ r.do = "next_block" /\ r.hashes \in RewardHashes
<1>1. \/ r.do = "push_tx" /\ r.tx \in Bundle
      \/ r.do = "next_block" /\ r.hashes \in RewardHashes
  BY DEF Request
<1>2. spend_bundle \in SpendBundle
  BY DEF TypeOK
<1>3. CASE r.do = "push_tx" /\ r.tx \in Bundle
  BY <1>2, <1>3, BundleAssumption, HashAssumption, AggregateFacts DEF BundleOf, HashesOf
<1>4. CASE r.do = "next_block" /\ r.hashes \in RewardHashes
  BY <1>2, <1>4, HashAssumption DEF BundleOf, HashesOf
<1> QED BY <1>1, <1>3, <1>4

LEMMA AcceptNewBlockParts ==
  ASSUME NEW body, NEW time, body.coin_solutions \in Seq(CoinSolution)
  PROVE  LET errs == AcceptNewBlock(body, time) IN
         /\ errs \in Seq(Reply) /\ Len(errs) = 9 /\ DOMAIN errs = 1 .. 9
         /\ errs[4] = Raise(~(Removals(body) \subseteq KnownCoins(body)), "UNKNOWN")
         /\ errs[5] = Raise(\E i \in DOMAIN body.coin_solutions :
                                ~PuzzleMatches(body.coin_solutions[i]), "WRONG_PUZZLE_HASH")
<1> DEFINE errs == AcceptNewBlock(body, time)
<1>1. errs \in Seq(Err \cup {"OK"})
  BY AcceptNewBlockType
<1>2. /\ Len(errs) = 9 /\ DOMAIN errs = 1 .. 9
      /\ errs[4] = Raise(~(Removals(body) \subseteq KnownCoins(body)), "UNKNOWN")
      /\ errs[5] = Raise(\E i \in DOMAIN body.coin_solutions :
                             ~PuzzleMatches(body.coin_solutions[i]), "WRONG_PUZZLE_HASH")
  BY DEF AcceptNewBlock
<1> HIDE DEF errs
<1>3. errs \in Seq(Reply)
  BY <1>1, SeqMonotonic DEF Reply
<1> QED BY <1>2, <1>3 DEF errs

\* The checks that run before the first lookup are the first six.
ThreeThenNine(R, first, errs, all) ==
    /\ all \in Seq(R) /\ Len(all) = 12
    /\ \A k \in 1 .. 3 : all[k] = first[k]
    /\ \A k \in 1 .. 9 : all[k + 3] = errs[k]

LEMMA ThreeMoreChecks ==
  ASSUME NEW R, NEW first \in Seq(R), Len(first) = 3, NEW errs \in Seq(R), Len(errs) = 9
  PROVE  ThreeThenNine(R, first, errs, first \o errs)
<1>1. /\ first \o errs \in Seq(R)
      /\ Len(first \o errs) = Len(first) + Len(errs)
      /\ \A i \in 1 .. Len(first) + Len(errs) :
            (first \o errs)[i] = IF i <= Len(first) THEN first[i] ELSE errs[i - Len(first)]
  BY ConcatProperties
<1>2. Len(first) + Len(errs) = 12
  OBVIOUS
<1>3. \A i \in 1 .. 12 : (first \o errs)[i] = IF i <= 3 THEN first[i] ELSE errs[i - 3]
  BY <1>1, <1>2
<1>4. ASSUME NEW k \in 1 .. 3 PROVE (first \o errs)[k] = first[k]
  <2>1. k \in 1 .. Len(first) + Len(errs) /\ k <= Len(first)
    OBVIOUS
  <2> QED BY <1>1, <2>1
<1>5. ASSUME NEW k \in 1 .. 9 PROVE (first \o errs)[k + 3] = errs[k]
  <2>1. k + 3 \in 1 .. 12 /\ ~(k + 3 <= 3) /\ (k + 3) - 3 = k
    OBVIOUS
  <2> QED BY <1>3, <2>1
<1> QED BY <1>1, <1>2, <1>4, <1>5 DEF ThreeThenNine

LEMMA FirstSix ==
  ASSUME NEW R, NEW all \in Seq(R), Len(all) = 12
  PROVE  /\ SubSeq(all, 1, 6) \in Seq(R)
         /\ AllPass(SubSeq(all, 1, 6)) => \A k \in 1 .. 6 : all[k] = "OK"
<1>1. \A i \in 1 .. 6 : all[i] \in R
  <2> SUFFICES ASSUME NEW i \in 1 .. 6 PROVE all[i] \in R
    OBVIOUS
  <2>1. i \in 1 .. Len(all)
    OBVIOUS
  <2> QED BY <2>1, ElementOfSeq
<1>2. PICK six : six = SubSeq(all, 1, 6)
  OBVIOUS
<1>3. six \in Seq(R) /\ Len(six) = 6 /\ \A i \in 1 .. 6 : six[i] = all[i]
  BY <1>1, <1>2, SubSeqProperties
<1>4. ASSUME AllPass(six) PROVE \A k \in 1 .. 6 : all[k] = "OK"
  BY <1>3, <1>4, LenProperties DEF AllPass
<1> QED BY <1>2, <1>3, <1>4

\* A request that passes them is judged by what the lookups find.
LEMMA BeforeLookupsFacts ==
  ASSUME TypeOK, NEW r \in Request, NEW body,
         body = FarmedBody(BundleOf(r), HashesOf(r)[1], HashesOf(r)[2])
  PROVE  /\ FirstError(BeforeLookups(r)) \in Reply
         /\ Verdict(r) \in Reply
         /\ AllPass(BeforeLookups(r)) =>
                /\ now < CLOCK_LIMIT
                /\ ValidSignature(BundleOf(r).aggregated_signature, BundleOf(r).coin_solutions)
                /\ FeesFit(BundleOf(r))
                /\ Verdict(r) = FirstError(AcceptNewBlock(body, now))
                /\ \A k \in 1 .. 3 : AcceptNewBlock(body, now)[k] = "OK"
<1>1. PICK bundle, h1, h2 : bundle = BundleOf(r) /\ h1 = HashesOf(r)[1] /\ h2 = HashesOf(r)[2]
  OBVIOUS
<1>2. bundle \in SpendBundle /\ now \in Nat
  BY <1>1, RequestFacts DEF TypeOK
<1>3. PICK e1, e2, e3, first, errs, all, six :
        /\ e1 = Raise(now >= FLOAT_LIMIT, "OverflowError")
        /\ e2 = Raise(~ValidSignature(bundle.aggregated_signature, bundle.coin_solutions),
                      "AssertionError")
        /\ e3 = Raise(~FeesFit(bundle) \/ now >= CLOCK_LIMIT, "struct.error")
        /\ first = <<e1, e2, e3>>
        /\ errs = AcceptNewBlock(body, now)
        /\ all = NewChainView(bundle, h1, h2, now)
        /\ six = SubSeq(all, 1, 6)
  OBVIOUS
<1>4. all = first \o errs
  BY <1>1, <1>3 DEF NewChainView
<1>5. /\ e2 = "OK" <=> ValidSignature(bundle.aggregated_signature, bundle.coin_solutions)
      /\ e3 = "OK" <=> FeesFit(bundle) /\ ~(now >= CLOCK_LIMIT)
      /\ e1 \in Reply /\ e2 \in Reply /\ e3 \in Reply
  BY <1>3 DEF Raise, Reply
<1>6. errs \in Seq(Reply) /\ Len(errs) = 9
  BY <1>1, <1>2, <1>3, AcceptNewBlockParts DEF FarmedBody, SpendBundle
<1>7. BeforeLookups(r) = six /\ Verdict(r) = FirstError(all)
  BY <1>1, <1>3 DEF BeforeLookups, Verdict
<1>8. /\ all \in Seq(Reply) /\ six \in Seq(Reply)
      /\ AllPass(six) => AllPass(first) /\ \A k \in 1 .. 3 : errs[k] = "OK"
  <2>1. first \in Seq(Reply) /\ Len(first) = 3 /\ DOMAIN first = 1 .. 3
    BY <1>3, <1>5
  <2>2. /\ all \in Seq(Reply) /\ Len(all) = 12
        /\ \A k \in 1 .. 3 : all[k] = first[k]
        /\ \A k \in 1 .. 9 : all[k + 3] = errs[k]
    <3>1. ThreeThenNine(Reply, first, errs, all)
      BY <1>4, <1>6, <2>1, ThreeMoreChecks
    <3> QED BY <3>1 DEF ThreeThenNine
  <2>3. /\ six \in Seq(Reply)
        /\ AllPass(six) => \A k \in 1 .. 6 : all[k] = "OK"
    BY <1>3, <2>2, FirstSix
  <2>4. (\A k \in 1 .. 6 : all[k] = "OK") => \A k \in 1 .. 3 : first[k] = "OK"
    BY <2>2
  <2>5. ASSUME \A k \in 1 .. 6 : all[k] = "OK", NEW k \in 1 .. 3 PROVE errs[k] = "OK"
    <3>1. k + 3 \in 1 .. 6 /\ k \in 1 .. 9
      OBVIOUS
    <3> QED BY <2>2, <2>5, <3>1
  <2> QED BY <2>1, <2>2, <2>3, <2>4, <2>5 DEF AllPass
<1>9. FirstError(six) \in Reply /\ FirstError(all) \in Reply
  <2>1. "OK" \in Reply
    BY DEF Reply
  <2> QED BY <1>8, <2>1, FirstErrorType
<1>10. ASSUME AllPass(first)
       PROVE  /\ FirstError(all) = FirstError(errs)
              /\ e2 = "OK" /\ now < CLOCK_LIMIT /\ FeesFit(bundle)
  <2>1. /\ first \in Seq(Reply) /\ DOMAIN first = 1 .. 3
        /\ first[2] = e2 /\ first[3] = e3
    BY <1>3, <1>5
  <2>2. FirstError(all) = FirstError(errs)
    BY <1>4, <1>6, <1>10, <2>1, FirstErrorSkips
  <2>3. e2 = "OK" /\ e3 = "OK"
    BY <1>10, <2>1 DEF AllPass
  <2> QED BY <1>2, <1>5, <2>2, <2>3, ClockAssumption
<1> QED BY <1>1, <1>3, <1>5, <1>7, <1>8, <1>9, <1>10

-----------------------------------------------------------------------------
(* The state a task looks at, and the lock *)

LEMMA ViewKept ==
  ASSUME UNCHANGED viewVars, NEW body, NEW time
  PROVE  /\ AcceptNewBlock(body, time)' = AcceptNewBlock(body, time)
         /\ KnownCoins(body)' = KnownCoins(body)
<1>1. chain' = chain /\ unspent_db' = unspent_db /\ preimage_db' = preimage_db
  BY DEF viewVars
<1>2. KnownCoins(body)' = KnownCoins(body)
  BY <1>1 DEF KnownCoins
<1>3. tip_index' = tip_index
  BY <1>1 DEF tip_index
<1>4. ASSUME NEW name PROVE UnspentFor(body, name)' = UnspentFor(body, name)
  BY <1>1, <1>3 DEF UnspentFor
<1>5. \A coin : RemovalError(body, coin)' = RemovalError(body, coin)
  BY <1>3, <1>4 DEF RemovalError, IsConfirmed, IsSpentOnChain
<1>6. \A sol : ConditionsError(body, sol, time)' = ConditionsError(body, sol, time)
  <2> SUFFICES ASSUME NEW sol
               PROVE  ConditionsError(body, sol, time)' = ConditionsError(body, sol, time)
    OBVIOUS
  <2>1. UnspentFor(body, CoinName(sol.coin))' = UnspentFor(body, CoinName(sol.coin))
    BY <1>4
  <2>2. /\ \A i : BlockIndexExceeds(i)' = BlockIndexExceeds(i)
        /\ \A a, u : BlockAgeExceeds(a, u)' = BlockAgeExceeds(a, u)
    BY <1>3 DEF BlockIndexExceeds, BlockAgeExceeds
  <2> QED BY <2>1, <2>2 DEF ConditionsError
<1>7. AcceptNewBlock(body, time)' = AcceptNewBlock(body, time)
  BY <1>2, <1>5, <1>6 DEF AcceptNewBlock
<1> QED BY <1>2, <1>7

LEMMA HoldsKept ==
  ASSUME UNCHANGED <<viewVars, spend_bundle>>, NEW t, NEW stage, Holds(t, stage)
  PROVE  Holds(t, stage)'
<1>1. tip_index' = tip_index
  BY DEF viewVars, tip_index
<1>2. BundleOf(t.request)' = BundleOf(t.request)
  BY DEF BundleOf
<1>3. /\ AcceptNewBlock(t.body, t.time)' = AcceptNewBlock(t.body, t.time)
      /\ KnownCoins(t.body)' = KnownCoins(t.body)
  BY ViewKept
<1>4. \A b, h1, h2 : FarmedBody(b, h1, h2)' = FarmedBody(b, h1, h2)
  BY <1>1 DEF FarmedBody, RewardCoin
<1> QED BY <1>2, <1>3, <1>4 DEF Holds

\* What a task keeps once it has called new_chain_view.
LEMMA RecordIsTask ==
  ASSUME NEW t, "view" \in DOMAIN t
  PROVE  t # NoTask
BY DEF NoTask

LEMMA TaskFacts ==
  ASSUME AsyncIInv, NEW w \in Inside
  PROVE  LET t == task[w] IN
         /\ t.request \in Request /\ t.view = chain
         /\ t.time \in 0 .. now /\ t.body \in Body /\ t.verdict \in Reply
         /\ pc[w] = "checks" => t.unspents = unspent_db
         /\ t # NoTask
         /\ WellSigned(t.request) /\ Holds(t, pc[w])
<1>1. w \in Worker /\ pc[w] \in {"coins", "unspents", "checks", "debugger"}
  BY DEF Inside
<1>2. task[w] \in Task(w) /\ WellSigned(task[w].request) /\ Holds(task[w], pc[w])
  BY <1>1 DEF AsyncIInv, WorkerOK
<1>3. CASE pc[w] = "checks"
  <2>1. task[w] \in [request : Request, view : {chain}, time : 0 .. now, body : Body,
                     verdict : Reply, unspents : {unspent_db}]
    BY <1>2, <1>3 DEF Task
  <2>2. task[w] # NoTask
    BY <2>1, RecordIsTask
  <2> QED BY <1>2, <1>3, <2>1, <2>2
<1>4. CASE pc[w] \in {"coins", "unspents", "debugger"}
  <2>1. task[w] \in [request : Request, view : {chain}, time : 0 .. now, body : Body,
                     verdict : Reply]
    BY <1>2, <1>4 DEF Task
  <2>2. task[w] # NoTask
    BY <2>1 DEF NoTask
  <2> QED BY <1>2, <1>4, <2>1, <2>2
<1> QED BY <1>1, <1>3, <1>4

\* A worker whose turn it is has the lock, and the others are idle or wait.
HasTurn(w) == w \in Inside \/ (pc[w] = "waiting" /\ Head(lock) = w)

LEMMA LockHeld ==
  ASSUME AsyncIInv, NEW w \in Worker, HasTurn(w)
  PROVE  /\ Len(lock) \in Nat /\ Len(lock) >= 1 /\ DOMAIN lock = 1 .. Len(lock)
         /\ lock # <<>> /\ lock[1] = w /\ Head(lock) = w
         /\ \A v \in Worker : v # w => pc[v] \in {"idle", "waiting"}
<1>1. Len(lock) \in Nat /\ DOMAIN lock = 1 .. Len(lock) /\ lock \in Seq(Worker)
  BY LenProperties DEF AsyncIInv
<1>2. PICK i \in DOMAIN lock : lock[i] = w
  BY DEF HasTurn, Inside, AsyncIInv, LockOK
<1>3. Len(lock) >= 1 /\ lock # <<>> /\ Head(lock) = lock[1]
  BY <1>1, <1>2, EmptySeq, HeadTailProperties
<1>4. lock[1] = w
  <2>1. CASE w \in Inside
    BY <1>2, <2>1 DEF Inside, AsyncIInv, LockOK
  <2>2. CASE Head(lock) = w
    BY <1>3, <2>2
  <2> QED BY <2>1, <2>2 DEF HasTurn
<1>5. ASSUME NEW v \in Worker, v # w PROVE pc[v] \in {"idle", "waiting"}
  <2>1. CASE pc[v] # "idle"
    <3>1. PICK j \in DOMAIN lock : lock[j] = v
      BY <2>1 DEF AsyncIInv, LockOK
    <3> QED BY <1>4, <1>5, <3>1 DEF AsyncIInv, LockOK
  <2> QED BY <2>1
<1> QED BY <1>1, <1>3, <1>4, <1>5

LEMMA LockKept ==
  ASSUME AsyncIInv, NEW w \in Worker, HasTurn(w), NEW c \in PC \ {"idle"},
         lock' = lock, pc' = [pc EXCEPT ![w] = c]
  PROVE  LockOK'
<1>1. 1 \in DOMAIN lock /\ lock[1] = w
  BY LockHeld
<1>2. \A v \in Worker : pc'[v] = IF v = w THEN c ELSE pc[v]
  BY DEF AsyncIInv
<1>3. \A i \in DOMAIN lock : lock[i] \in Worker /\ (i # 1 => lock[i] # w)
  <2>1. \A i \in DOMAIN lock : lock[i] \in Worker
    BY LenProperties, ElementOfSeq DEF AsyncIInv
  <2> QED BY <1>1, <2>1 DEF AsyncIInv, LockOK
<1>4. pc[w] # "idle"
  BY DEF HasTurn, Inside
<1> QED BY <1>1, <1>2, <1>3, <1>4 DEF AsyncIInv, LockOK

LEMMA LockReleased ==
  ASSUME AsyncIInv, NEW w \in Worker, HasTurn(w),
         lock' = Tail(lock), pc' = [pc EXCEPT ![w] = "idle"]
  PROVE  LockOK' /\ lock' \in Seq(Worker)
<1>1. /\ lock \in Seq(Worker) /\ lock # <<>> /\ lock[1] = w
      /\ Len(lock) \in Nat /\ Len(lock) >= 1 /\ DOMAIN lock = 1 .. Len(lock)
  BY LockHeld DEF AsyncIInv
<1>2. /\ lock' \in Seq(Worker) /\ Len(lock') = Len(lock) - 1
      /\ \A i \in 1 .. Len(lock') : lock'[i] = lock[i + 1]
  BY <1>1, HeadTailProperties
<1>3. DOMAIN lock' = 1 .. Len(lock) - 1
  BY <1>2, LenProperties
<1>4. \A i \in DOMAIN lock' : i + 1 \in DOMAIN lock /\ i + 1 # 1 /\ lock'[i] = lock[i + 1]
  BY <1>1, <1>2, <1>3
<1>5. \A i \in DOMAIN lock : i # 1 =>
            lock[i] # w /\ i - 1 \in DOMAIN lock' /\ lock'[i - 1] = lock[i]
  <2> SUFFICES ASSUME NEW i \in DOMAIN lock, i # 1
               PROVE  lock[i] # w /\ i - 1 \in DOMAIN lock' /\ lock'[i - 1] = lock[i]
    OBVIOUS
  <2>1. lock[i] # w
    BY <1>1 DEF AsyncIInv, LockOK
  <2>2. i - 1 \in 1 .. Len(lock) - 1 /\ (i - 1) + 1 = i
    BY <1>1
  <2> QED BY <1>3, <1>4, <2>1, <2>2
<1>6. \A v \in Worker : pc'[v] = IF v = w THEN "idle" ELSE pc[v]
  BY DEF AsyncIInv
<1>7. \A i, j \in DOMAIN lock' : lock'[i] = lock'[j] => i = j
  <2> SUFFICES ASSUME NEW i \in DOMAIN lock', NEW j \in DOMAIN lock', lock'[i] = lock'[j]
               PROVE  i = j
    OBVIOUS
  <2>1. i + 1 = j + 1
    BY <1>4 DEF AsyncIInv, LockOK
  <2> QED BY <1>3, <2>1
<1>8. ASSUME NEW v \in Worker
      PROVE  pc'[v] # "idle" <=> \E i \in DOMAIN lock' : lock'[i] = v
  <2>1. CASE v = w
    <3>1. ~\E i \in DOMAIN lock' : lock'[i] = w
      <4> SUFFICES ASSUME NEW i \in DOMAIN lock' PROVE lock'[i] # w
        OBVIOUS
      <4>1. i + 1 \in DOMAIN lock /\ i + 1 # 1 /\ lock'[i] = lock[i + 1]
        BY <1>4
      <4> QED BY <1>5, <4>1
    <3> QED BY <1>6, <2>1, <3>1
  <2>2. CASE v # w
    <3>1. pc[v] # "idle" <=> \E i \in DOMAIN lock : lock[i] = v
      BY DEF AsyncIInv, LockOK
    <3>2. (\E i \in DOMAIN lock : lock[i] = v) => \E i \in DOMAIN lock' : lock'[i] = v
      BY <1>1, <1>5, <2>2
    <3>3. (\E i \in DOMAIN lock' : lock'[i] = v) => \E i \in DOMAIN lock : lock[i] = v
      BY <1>4
    <3> QED BY <1>6, <2>2, <3>1, <3>2, <3>3
  <2> QED BY <2>1, <2>2
<1>9. ASSUME NEW i \in DOMAIN lock' PROVE pc'[lock'[i]] = "waiting"
  <2>1. lock'[i] = lock[i + 1] /\ i + 1 \in DOMAIN lock /\ i + 1 # 1
    BY <1>4
  <2>2. pc[lock[i + 1]] = "waiting" /\ lock[i + 1] # w
    BY <1>5, <2>1 DEF AsyncIInv, LockOK
  <2>3. lock'[i] \in Worker
    BY <1>2, LenProperties, ElementOfSeq
  <2> QED BY <1>6, <2>1, <2>2, <2>3
<1> QED BY <1>2, <1>7, <1>8, <1>9 DEF LockOK

LEMMA LockJoined ==
  ASSUME AsyncIInv, NEW w \in Worker, pc[w] = "idle",
         lock' = Append(lock, w), pc' = [pc EXCEPT ![w] = "waiting"]
  PROVE  LockOK' /\ lock' \in Seq(Worker)
<1>1. lock \in Seq(Worker) /\ Len(lock) \in Nat /\ DOMAIN lock = 1 .. Len(lock)
  BY LenProperties DEF AsyncIInv
<1>2. /\ lock' \in Seq(Worker) /\ Len(lock') = Len(lock) + 1
      /\ \A i \in 1 .. Len(lock) : lock'[i] = lock[i]
      /\ lock'[Len(lock) + 1] = w
  BY <1>1, AppendProperties
<1>3. DOMAIN lock' = 1 .. Len(lock) + 1
  BY <1>2, LenProperties
<1>4. \A i \in DOMAIN lock : lock[i] # w /\ lock[i] \in Worker
  <2>1. \A i \in DOMAIN lock : lock[i] \in Worker
    BY <1>1, ElementOfSeq
  <2> QED BY <2>1 DEF AsyncIInv, LockOK
<1>5. \A v \in Worker : pc'[v] = IF v = w THEN "waiting" ELSE pc[v]
  BY DEF AsyncIInv
<1>6. \A i \in DOMAIN lock' : i = Len(lock) + 1 \/ i \in DOMAIN lock
  BY <1>1, <1>3
<1>7. \A i \in DOMAIN lock : i \in DOMAIN lock' /\ lock'[i] = lock[i] /\ i # Len(lock) + 1
  BY <1>1, <1>2, <1>3
<1>8. Len(lock) + 1 \in DOMAIN lock'
  BY <1>1, <1>3
<1>9. \A i, j \in DOMAIN lock' : lock'[i] = lock'[j] => i = j
  BY <1>2, <1>4, <1>6, <1>7 DEF AsyncIInv, LockOK
<1>10. ASSUME NEW v \in Worker
       PROVE  pc'[v] # "idle" <=> \E i \in DOMAIN lock' : lock'[i] = v
  <2>1. CASE v = w
    BY <1>2, <1>5, <1>8, <2>1
  <2>2. CASE v # w
    <3>1. (\E i \in DOMAIN lock' : lock'[i] = v) <=> \E i \in DOMAIN lock : lock[i] = v
      BY <1>2, <1>6, <1>7, <2>2
    <3> QED BY <1>5, <2>2, <3>1 DEF AsyncIInv, LockOK
  <2> QED BY <2>1, <2>2
<1>11. ASSUME NEW i \in DOMAIN lock', i # 1 PROVE pc'[lock'[i]] = "waiting"
  <2>1. CASE i = Len(lock) + 1
    BY <1>2, <1>5, <2>1
  <2>2. CASE i \in DOMAIN lock
    BY <1>4, <1>5, <1>7, <1>11, <2>2 DEF AsyncIInv, LockOK
  <2> QED BY <1>6, <2>1, <2>2
<1> QED BY <1>2, <1>9, <1>10, <1>11 DEF LockOK

-----------------------------------------------------------------------------
(* What a step leaves of the invariant, for its worker and for the others *)

LEMMA OtherWorker ==
  ASSUME AsyncIInv, NEW v \in Worker, pc'[v] = pc[v], task'[v] = task[v],
         now' \in Nat, now' >= now,
         UNCHANGED <<viewVars, spend_bundle>> \/ pc[v] \in {"idle", "waiting"}
  PROVE  WorkerOK(v)'
<1>1. task[v] \in Task(v) /\ (pc[v] # "idle" => WellSigned(task[v].request)) /\ now \in Nat
  BY DEF AsyncIInv, WorkerOK, IInv, TypeOK
<1>2. pc[v] # "idle" => WellSigned(task[v].request)'
  BY <1>1 DEF WellSigned
<1>3. CASE pc[v] \in {"idle", "waiting"}
  <2>1. (task[v] \in Task(v))'
    BY <1>1, <1>3 DEF Task
  <2> QED BY <1>2, <1>3, <2>1 DEF WorkerOK, Inside
<1>4. CASE v \in Inside /\ UNCHANGED <<viewVars, spend_bundle>>
  <2>1. chain' = chain /\ unspent_db' = unspent_db
    BY <1>4 DEF viewVars
  <2>2. 0 .. now \subseteq 0 .. now'
    BY <1>1
  <2>3. (task[v] \in Task(v))'
    <3>1. CASE pc[v] = "checks"
      BY <1>1, <2>1, <2>2, <3>1 DEF Task
    <3>2. CASE pc[v] \in {"coins", "unspents", "debugger"}
      BY <1>1, <2>1, <2>2, <3>2 DEF Task
    <3> QED BY <1>4, <3>1, <3>2 DEF Inside
  <2>4. PICK t, stage : t = task[v] /\ stage = pc[v]
    OBVIOUS
  <2>5. Holds(t, stage)'
    BY <1>4, <2>4, HoldsKept DEF AsyncIInv, WorkerOK
  <2>6. Holds(task[v], pc[v])'
    BY <2>4, <2>5 DEF Holds
  <2> QED BY <1>2, <2>3, <2>6 DEF WorkerOK
<1> QED BY <1>3, <1>4 DEF Inside, AsyncIInv, PC

\* The lock is released: the answer leaves nothing of the request behind.
LEMMA AnswerStep ==
  ASSUME AsyncIInv, NEW w \in Worker, HasTurn(w), NEW answer, Answer(w, answer),
         IInv', now' >= now, accepted' \subseteq Bundle
  PROVE  AsyncIInv'
<1>1. /\ lock' = Tail(lock) /\ pc' = [pc EXCEPT ![w] = "idle"]
      /\ task' = [task EXCEPT ![w] = NoTask]
  BY DEF Answer
<1>2. LockOK' /\ lock' \in Seq(Worker)
  BY <1>1, LockReleased
<1>3. pc' \in [Worker -> PC] /\ DOMAIN task' = Worker
  BY <1>1 DEF AsyncIInv, PC
<1>4. pc'[w] = "idle" /\ task'[w] = NoTask
  BY <1>1 DEF AsyncIInv
<1>5. WorkerOK(w)'
  <2>1. (task[w] \in Task(w))'
    BY <1>4 DEF Task
  <2> QED BY <1>4, <2>1 DEF WorkerOK, Inside
<1>6. ASSUME NEW v \in Worker, v # w PROVE WorkerOK(v)'
  <2>1. pc'[v] = pc[v] /\ task'[v] = task[v]
    BY <1>1, <1>6 DEF AsyncIInv
  <2>2. pc[v] \in {"idle", "waiting"} /\ now' \in Nat
    BY <1>6, LockHeld DEF IInv, TypeOK
  <2> QED BY <2>1, <2>2, OtherWorker
<1> QED BY <1>2, <1>3, <1>5, <1>6 DEF AsyncIInv

\* A step within the lock: only the task of the worker itself changes.
LEMMA WorkStep ==
  ASSUME AsyncIInv, NEW w \in Worker, HasTurn(w), NEW c \in PC \ {"idle"},
         lock' = lock, pc' = [pc EXCEPT ![w] = c],
         DOMAIN task' = Worker, \A v \in Worker : v # w => task'[v] = task[v],
         UNCHANGED <<vars, accepted>>,
         WorkerOK(w)'
  PROVE  AsyncIInv'
<1>1. /\ UNCHANGED <<viewVars, spend_bundle>> /\ now' = now /\ reply' = reply
      /\ accepted' = accepted
  BY DEF vars, viewVars
<1>2. now \in Nat /\ reply \in Reply
  BY DEF AsyncIInv, IInv, TypeOK
<1>3. IInv'
  BY <1>1, <1>2, UnchangedStep DEF AsyncIInv
<1>4. LockOK'
  BY LockKept
<1>5. pc' \in [Worker -> PC]
  BY DEF AsyncIInv, PC
<1>6. ASSUME NEW v \in Worker, v # w PROVE WorkerOK(v)'
  <2>1. pc'[v] = pc[v] /\ task'[v] = task[v]
    BY <1>6 DEF AsyncIInv
  <2>2. now' \in Nat /\ now' >= now
    BY <1>1, <1>2
  <2> QED BY <1>1, <2>1, <2>2, OtherWorker
<1> QED BY <1>1, <1>3, <1>4, <1>5, <1>6 DEF AsyncIInv

\* The checks a task makes on what it has read are those it would make now.
LEMMA ChecksAsNow ==
  ASSUME AsyncIInv, NEW w \in Worker, pc[w] = "checks"
  PROVE  Checks(w) = AcceptNewBlock(task[w].body, task[w].time)
<1>1. ASSUME NEW body, NEW time
      PROVE  Found(chain, unspent_db)!AcceptNewBlock(body, time) = AcceptNewBlock(body, time)
  <2>1. Found(chain, unspent_db)!Additions(body) = Additions(body) /\ Found(chain, unspent_db)!Removals(body) = Removals(body)
    BY DEF Additions, AdditionAt, AdditionSlots, OutputSlots, Output, CoinName,
       CoinbaseSlot, FeesSlot, Removals, RemovedCoins, Found!Additions, Found!AdditionAt,
       Found!AdditionSlots, Found!OutputSlots, Found!Output, Found!CoinName,
       Found!CoinbaseSlot, Found!FeesSlot, Found!Removals, Found!RemovedCoins
  <2>2. Found(chain, unspent_db)!DuplicateOutput(body) <=> DuplicateOutput(body)
    BY DEF DuplicateOutput, AdditionAt, AdditionSlots, OutputSlots, Output, CoinName,
       CoinbaseSlot, FeesSlot, Found!DuplicateOutput, Found!AdditionAt, Found!AdditionSlots,
       Found!OutputSlots, Found!Output, Found!CoinName, Found!CoinbaseSlot, Found!FeesSlot
  <2>3. Found(chain, unspent_db)!DuplicateRemoval(body.coin_solutions)
            <=> DuplicateRemoval(body.coin_solutions)
    BY DEF DuplicateRemoval, CoinName, Found!DuplicateRemoval, Found!CoinName
  <2>4. Found(chain, unspent_db)!KnownCoins(body) = KnownCoins(body)
    BY DEF KnownCoins, Additions, AdditionAt, AdditionSlots, OutputSlots, Output, CoinName,
       CoinbaseSlot, FeesSlot, Found!KnownCoins, Found!Additions, Found!AdditionAt,
       Found!AdditionSlots, Found!OutputSlots, Found!Output, Found!CoinName,
       Found!CoinbaseSlot, Found!FeesSlot
  <2>5. \A sol : Found(chain, unspent_db)!PuzzleMatches(sol) <=> PuzzleMatches(sol)
    BY DEF PuzzleMatches, Found!PuzzleMatches
  <2>6. Found(chain, unspent_db)!FirstError([i \in DOMAIN body.coin_solutions |->
                    Found(chain, unspent_db)!RemovalError(body, body.coin_solutions[i].coin)])
            = FirstError([i \in DOMAIN body.coin_solutions |-> RemovalError(body, body.coin_solutions[i].coin)])
    BY Zenon DEF FirstError, Min, Raise, AllPass, RemovalError, IsConfirmed, IsSpentOnChain,
       UnspentFor, tip_index, Names, NoUnspent, Additions, AdditionAt, AdditionSlots,
       OutputSlots, Output, CoinName, CoinbaseSlot, FeesSlot, Found!FirstError, Found!Min,
       Found!Raise, Found!AllPass, Found!RemovalError, Found!IsConfirmed,
       Found!IsSpentOnChain, Found!UnspentFor, Found!tip_index, Found!Names,
       Found!NoUnspent, Found!Additions, Found!AdditionAt, Found!AdditionSlots,
       Found!OutputSlots, Found!Output, Found!CoinName, Found!CoinbaseSlot, Found!FeesSlot
  <2>7. Found(chain, unspent_db)!BlockSurplus(body) = BlockSurplus(body)
    BY Zenon DEF BlockSurplus, AmountIn, SumFunction, SumFunctionOnSet, FoldFunctionOnSet,
       MapThenFoldSet, AdditionAt, AdditionSlots, OutputSlots, Output, CoinName,
       CoinbaseSlot, FeesSlot, Found!BlockSurplus, Found!AmountIn, Found!SumFunction,
       Found!SumFunctionOnSet, Found!FoldFunctionOnSet, Found!MapThenFoldSet,
       Found!AdditionAt, Found!AdditionSlots, Found!OutputSlots, Found!Output,
       Found!CoinName, Found!CoinbaseSlot, Found!FeesSlot
  <2>8. Found(chain, unspent_db)!FirstError([i \in DOMAIN body.coin_solutions |->
                    Found(chain, unspent_db)!ConditionsError(body, body.coin_solutions[i], time)])
            = FirstError([i \in DOMAIN body.coin_solutions |->
                    ConditionsError(body, body.coin_solutions[i], time)])
    BY Zenon DEF FirstError, Min, Raise, AllPass, ConditionsError, TimeExceeds,
       BlockIndexExceeds, BlockAgeExceeds, UnspentFor, tip_index, Names, NoUnspent,
       Removals, RemovedCoins, Additions, AdditionAt, AdditionSlots, OutputSlots, Output,
       CoinName, CoinbaseSlot, FeesSlot, Found!FirstError, Found!Min, Found!Raise,
       Found!AllPass, Found!ConditionsError, Found!TimeExceeds, Found!BlockIndexExceeds,
       Found!BlockAgeExceeds, Found!UnspentFor, Found!tip_index, Found!Names,
       Found!NoUnspent, Found!Removals, Found!RemovedCoins, Found!Additions,
       Found!AdditionAt, Found!AdditionSlots, Found!OutputSlots, Found!Output,
       Found!CoinName, Found!CoinbaseSlot, Found!FeesSlot
  <2>9. Found(chain, unspent_db)!ValidSignature(body.aggregated_signature, body.coin_solutions)
            <=> ValidSignature(body.aggregated_signature, body.coin_solutions)
    BY Zenon DEF ValidSignature, HashKeyPairs, ZERO96, SumFunction, SumFunctionOnSet,
       FoldFunctionOnSet, MapThenFoldSet, Found!ValidSignature, Found!HashKeyPairs,
       Found!ZERO96, Found!SumFunction, Found!SumFunctionOnSet, Found!FoldFunctionOnSet,
       Found!MapThenFoldSet
  <2> QED BY ZenonT(120), <2>1, <2>2, <2>3, <2>4, <2>5, <2>6, <2>7, <2>8, <2>9
            DEF AcceptNewBlock, Found!AcceptNewBlock, Raise, Found!Raise
<1>2. task[w].view = chain /\ task[w].unspents = unspent_db
  BY TaskFacts DEF Inside
<1>3. Checks(w) = Found(chain, unspent_db)!AcceptNewBlock(task[w].body, task[w].time)
  BY <1>2 DEF Checks
<1> QED BY <1>1, <1>3

-----------------------------------------------------------------------------
(* One lemma per action *)

LEMMA SubmitStep ==
  ASSUME AsyncIInv, NEW w \in Worker, NEW request \in Request, Submit(w, request)
  PROVE  AsyncIInv'
<1>1. /\ pc[w] = "idle" /\ UNCHANGED <<viewVars, spend_bundle>> /\ now' = now
      /\ accepted' = accepted
  BY DEF Submit
<1>2. now \in Nat /\ reply \in Reply
  BY DEF AsyncIInv, IInv, TypeOK
<1>3. IInv'
  BY <1>1, <1>2, UnchangedStep DEF Submit, AsyncIInv, Reply
<1>4. CASE WellSigned(request)
  <2>1. /\ lock' = Append(lock, w) /\ pc' = [pc EXCEPT ![w] = "waiting"]
        /\ task' = [task EXCEPT ![w] = [request |-> request]]
    BY <1>4 DEF Submit
  <2>2. LockOK' /\ lock' \in Seq(Worker)
    BY <1>1, <2>1, LockJoined
  <2>3. pc' \in [Worker -> PC] /\ DOMAIN task' = Worker
    BY <2>1 DEF AsyncIInv, PC
  <2>4. pc'[w] = "waiting" /\ task'[w] = [request |-> request]
    BY <2>1 DEF AsyncIInv
  <2>5. WorkerOK(w)'
    <3>1. (task[w] \in Task(w))'
      BY <2>4 DEF Task
    <3>2. WellSigned(task[w].request)'
      BY <1>4, <2>4 DEF WellSigned
    <3> QED BY <2>4, <3>1, <3>2 DEF WorkerOK, Inside
  <2>6. ASSUME NEW v \in Worker, v # w PROVE WorkerOK(v)'
    <3>1. pc'[v] = pc[v] /\ task'[v] = task[v]
      BY <2>1, <2>6 DEF AsyncIInv
    <3> QED BY <1>1, <1>2, <3>1, OtherWorker
  <2> QED BY <1>1, <1>3, <2>2, <2>3, <2>5, <2>6 DEF AsyncIInv
<1>5. CASE ~WellSigned(request)
  <2>1. lock' = lock /\ pc' = pc /\ task' = task
    BY <1>5 DEF Submit
  <2>2. \A v \in Worker : WorkerOK(v)'
    BY <1>1, <1>2, <2>1, OtherWorker
  <2> QED BY <1>1, <1>3, <2>1, <2>2 DEF AsyncIInv, LockOK
<1> QED BY <1>4, <1>5

LEMMA BeginStep ==
  ASSUME AsyncIInv, NEW w \in Worker, Begin(w)
  PROVE  AsyncIInv'
<1>1. /\ pc[w] = "waiting" /\ Head(lock) = w /\ StartBody(w)
      /\ UNCHANGED <<viewVars, spend_bundle>> /\ now' = now /\ accepted' = accepted
  BY DEF Begin
<1>2. PICK r : r = task[w].request
  OBVIOUS
<1>3. r \in Request /\ WellSigned(r)
  BY <1>1, <1>2 DEF AsyncIInv, WorkerOK, Task
<1>4. HasTurn(w)
  BY <1>1 DEF HasTurn
<1>5. now \in Nat /\ TypeOK
  BY DEF AsyncIInv, IInv, TypeOK
<1>6. PICK body : body = FarmedBody(BundleOf(r), HashesOf(r)[1], HashesOf(r)[2])
  OBVIOUS
<1>7. CASE AllPass(BeforeLookups(r))
  <2>1. PICK t : t = [request |-> r, view |-> chain, time |-> now, body |-> body,
                      verdict |-> Verdict(r)]
    OBVIOUS
  <2>2. /\ lock' = lock /\ reply' = reply
        /\ pc' = [pc EXCEPT ![w] = "coins"] /\ task' = [task EXCEPT ![w] = t]
    BY <1>1, <1>2, <1>6, <1>7, <2>1 DEF StartBody
  <2>3. pc'[w] = "coins" /\ task'[w] = t
    BY <2>2 DEF AsyncIInv
  <2>4. body \in Body
    BY <1>3, <1>5, <1>6, RequestFacts, FarmedFacts DEF TypeOK
  <2>5. /\ Verdict(r) \in Reply
        /\ now < CLOCK_LIMIT
        /\ ValidSignature(BundleOf(r).aggregated_signature, BundleOf(r).coin_solutions)
        /\ FeesFit(BundleOf(r))
        /\ Verdict(r) = FirstError(AcceptNewBlock(body, now))
        /\ \A k \in 1 .. 3 : AcceptNewBlock(body, now)[k] = "OK"
    BY <1>3, <1>5, <1>6, <1>7, BeforeLookupsFacts
  <2>6. Holds(t, "coins")
    BY <1>6, <2>1, <2>5 DEF Holds
  <2>7. WorkerOK(w)'
    <3>1. chain' = chain
      BY <1>1 DEF viewVars
    <3>2. (task[w] \in Task(w))'
      BY <1>1, <1>3, <1>5, <2>1, <2>3, <2>4, <2>5, <3>1 DEF Task
    <3>3. WellSigned(task[w].request)'
      BY <1>3, <2>1, <2>3 DEF WellSigned
    <3>4. Holds(t, "coins")'
      BY <1>1, <2>6, HoldsKept
    <3>5. Holds(task[w], pc[w])'
      BY <2>3, <3>4 DEF Holds
    <3> QED BY <3>2, <3>3, <3>5 DEF WorkerOK
  <2>8. UNCHANGED <<vars, accepted>>
    BY <1>1, <2>2 DEF vars, viewVars
  <2>9. DOMAIN task' = Worker /\ \A v \in Worker : v # w => task'[v] = task[v]
    BY <2>2 DEF AsyncIInv
  <2>10. "coins" \in PC \ {"idle"}
    BY DEF PC
  <2> QED BY <1>4, <2>2, <2>7, <2>8, <2>9, <2>10, WorkStep
<1>8. CASE ~AllPass(BeforeLookups(r))
  <2>1. Answer(w, FirstError(BeforeLookups(r)))
    BY <1>1, <1>2, <1>8 DEF StartBody
  <2>2. reply' \in Reply
    BY <1>3, <1>5, <1>6, <2>1, BeforeLookupsFacts DEF Answer
  <2>3. IInv'
    BY <1>1, <1>5, <2>2, UnchangedStep DEF AsyncIInv
  <2> QED BY <1>1, <1>4, <1>5, <2>1, <2>3, AnswerStep DEF AsyncIInv
<1> QED BY <1>7, <1>8

LEMMA ReadCoinsStep ==
  ASSUME AsyncIInv, NEW w \in Worker, ReadCoins(w)
  PROVE  AsyncIInv'
<1>1. /\ pc[w] = "coins" /\ UNCHANGED <<viewVars, spend_bundle>> /\ now' = now
      /\ accepted' = accepted
  BY DEF ReadCoins
<1>2. w \in Inside /\ HasTurn(w)
  BY <1>1 DEF HasTurn, Inside
<1>3. now \in Nat
  BY DEF AsyncIInv, IInv, TypeOK
<1>4. PICK t : t = task[w]
  OBVIOUS
<1>5. WellSigned(t.request) /\ Holds(t, "coins")
  BY <1>1, <1>2, <1>4, TaskFacts
<1>6. ASSUME NEW c \in {"debugger", "unspents"},
             pc' = [pc EXCEPT ![w] = c], UNCHANGED <<lock, task, reply>>,
             c = "debugger" => ~(Removals(t.body) \subseteq KnownCoins(t.body))
      PROVE  AsyncIInv'
  <2>1. pc'[w] = c /\ task'[w] = t /\ task' = task
    BY <1>4, <1>6 DEF AsyncIInv
  <2>2. Holds(t, c)
    BY <1>5, <1>6 DEF Holds
  <2>3. Holds(t, c)'
    BY <1>1, <2>2, HoldsKept
  <2>4. Holds(task[w], pc[w])'
    BY <2>1, <2>3 DEF Holds
  <2>5. task[w] \in [request : Request, view : {chain}, time : 0 .. now, body : Body,
                     verdict : Reply]
    BY <1>1 DEF AsyncIInv, WorkerOK, Task
  <2>6. (task[w] \in Task(w))'
    BY <1>1, <1>6, <2>1, <2>5 DEF Task, viewVars
  <2>7. WorkerOK(w)'
    BY <1>5, <2>1, <2>4, <2>6 DEF WorkerOK, WellSigned
  <2>8. UNCHANGED <<vars, accepted>>
    BY <1>1, <1>6 DEF vars, viewVars
  <2>9. DOMAIN task' = Worker
    BY <2>1 DEF AsyncIInv
  <2>10. c \in PC \ {"idle"}
    BY <1>6 DEF PC
  <2> QED BY <1>2, <1>6, <2>1, <2>7, <2>8, <2>9, <2>10, WorkStep
<1>7. CASE Answer(w, "WRONG_PUZZLE_HASH")
  <2>1. reply' \in Reply
    BY <1>7 DEF Answer, Reply, Err
  <2>2. IInv'
    BY <1>1, <1>3, <2>1, UnchangedStep DEF AsyncIInv
  <2> QED BY <1>1, <1>2, <1>3, <1>7, <2>2, AnswerStep DEF AsyncIInv
<1> QED BY <1>4, <1>6, <1>7 DEF ReadCoins

LEMMA ReadUnspentsStep ==
  ASSUME AsyncIInv, NEW w \in Worker, ReadUnspents(w)
  PROVE  AsyncIInv'
<1>1. /\ pc[w] = "unspents" /\ lock' = lock /\ pc' = [pc EXCEPT ![w] = "checks"]
      /\ UNCHANGED <<vars, accepted>>
  BY DEF ReadUnspents
<1>2. w \in Inside /\ HasTurn(w)
  BY <1>1 DEF HasTurn, Inside
<1>3. PICK old, t :
        /\ old = task[w]
        /\ t = [request |-> old.request, view |-> old.view, time |-> old.time,
                body |-> old.body, verdict |-> old.verdict, unspents |-> unspent_db]
  OBVIOUS
<1>4. task' = [task EXCEPT ![w] = t]
  BY <1>3 DEF ReadUnspents
<1>5. /\ old.request \in Request /\ old.view = chain /\ old.time \in 0 .. now
      /\ old.body \in Body /\ old.verdict \in Reply
      /\ WellSigned(old.request) /\ Holds(old, "unspents")
  BY <1>1, <1>2, <1>3, TaskFacts
<1>6. pc'[w] = "checks" /\ task'[w] = t
  BY <1>1, <1>4 DEF AsyncIInv
<1>7. chain' = chain /\ unspent_db' = unspent_db /\ now' = now
      /\ UNCHANGED <<viewVars, spend_bundle>>
  BY <1>1 DEF vars, viewVars
<1>8. (task[w] \in Task(w))'
  BY <1>3, <1>5, <1>6, <1>7 DEF Task
<1>9. Holds(task[w], pc[w])'
  <2>1. Holds(t, "checks")
    BY <1>3, <1>5 DEF Holds
  <2>2. Holds(t, "checks")'
    BY <1>7, <2>1, HoldsKept
  <2> QED BY <1>6, <2>2 DEF Holds
<1>10. WorkerOK(w)'
  BY <1>3, <1>5, <1>6, <1>8, <1>9 DEF WorkerOK, WellSigned
<1>11. DOMAIN task' = Worker /\ \A v \in Worker : v # w => task'[v] = task[v]
  BY <1>4 DEF AsyncIInv
<1>12. "checks" \in PC \ {"idle"}
  BY DEF PC
<1> QED BY <1>1, <1>2, <1>10, <1>11, <1>12, WorkStep

\* An error answered within the lock leaves the ledger as it was.
LEMMA ErrorStep ==
  ASSUME AsyncIInv, NEW w \in Inside, NEW answer \in Reply, Answer(w, answer),
         UNCHANGED <<viewVars, spend_bundle, now, accepted>>
  PROVE  AsyncIInv'
<1>1. w \in Worker /\ HasTurn(w)
  BY DEF HasTurn, Inside
<1>2. UNCHANGED <<viewVars, spend_bundle>> /\ now' = now /\ accepted' = accepted
  OBVIOUS
<1>3. now \in Nat /\ reply' = answer
  BY DEF AsyncIInv, IInv, TypeOK, Answer
<1>4. IInv'
  BY <1>2, <1>3, UnchangedStep DEF AsyncIInv
<1> QED BY <1>1, <1>2, <1>3, <1>4, AnswerStep DEF AsyncIInv

LEMMA ContinueStep ==
  ASSUME AsyncIInv, NEW w \in Worker, Continue(w)
  PROVE  AsyncIInv'
<1>1. w \in Inside
  BY DEF Continue, Inside
<1>2. "UNKNOWN" \in Reply
  BY DEF Reply, Err
<1> QED BY <1>1, <1>2, ErrorStep DEF Continue

\* The verdict was made when the lock was taken; the checks come to the same.
LEMMA ChecksAreVerdict ==
  ASSUME AsyncIInv, NEW w \in Worker, pc[w] = "checks"
  PROVE  /\ Checks(w) \in Seq(Reply)
         /\ FirstError(Checks(w)) = task[w].verdict
<1>1. task[w].body \in Body /\ Holds(task[w], pc[w])
  BY TaskFacts DEF Inside
<1>2. Checks(w) = AcceptNewBlock(task[w].body, task[w].time)
  BY ChecksAsNow
<1>3. Checks(w) \in Seq(Reply)
  <2>1. PICK body, time : body = task[w].body /\ time = task[w].time
    OBVIOUS
  <2>2. AcceptNewBlock(body, time) \in Seq(Reply)
    BY <1>1, <2>1, AcceptNewBlockParts DEF Body
  <2> QED BY <1>2, <2>1, <2>2
<1> QED BY <1>1, <1>2, <1>3 DEF Holds

LEMMA RefuseStep ==
  ASSUME AsyncIInv, NEW w \in Worker, Refuse(w)
  PROVE  AsyncIInv'
<1>1. w \in Inside
  BY DEF Refuse, Inside
<1>2. FirstError(Checks(w)) \in Reply
  BY <1>1, ChecksAreVerdict, TaskFacts DEF Refuse
<1> QED BY <1>1, <1>2, ErrorStep DEF Refuse

LEMMA MoveClockStep ==
  ASSUME AsyncIInv, NEW ms \in Skip, MoveClock(ms)
  PROVE  AsyncIInv'
<1>1. /\ UNCHANGED <<viewVars, spend_bundle>> /\ now' = now + ms /\ reply' = "OK"
      /\ lock' = lock /\ pc' = pc /\ task' = task /\ accepted' = accepted
  BY DEF MoveClock, SkipMilliseconds
<1>2. now' \in Nat /\ now' >= now /\ reply' \in Reply
  BY <1>1, ClockAssumption DEF AsyncIInv, IInv, TypeOK, Reply
<1>3. IInv'
  BY <1>1, <1>2, UnchangedStep DEF AsyncIInv
<1>4. \A v \in Worker : WorkerOK(v)'
  BY <1>1, <1>2, OtherWorker
<1> QED BY <1>1, <1>3, <1>4 DEF AsyncIInv, LockOK

\* What passes the checks that follow the lookups would pass all of them now,
\* with the clock as the request read it.
LEMMA PassesNow ==
  ASSUME AsyncIInv, NEW w \in Worker, pc[w] = "checks", AllPass(Checks(w)),
         NEW r, r = task[w].request,
         NEW h1, NEW h2, h1 = HashesOf(r)[1], h2 = HashesOf(r)[2]
  PROVE  /\ task[w].body = FarmedBody(BundleOf(r), h1, h2)
         /\ task[w].time \in 0 .. now
         /\ AllPass(NewChainView(BundleOf(r), h1, h2, task[w].time))
<1>1. PICK body, time, bundle : body = task[w].body /\ time = task[w].time /\ bundle = BundleOf(r)
  OBVIOUS
<1>2. /\ r \in Request /\ body \in Body /\ time \in 0 .. now /\ Holds(task[w], "checks")
      /\ now \in Nat /\ TypeOK
  BY <1>1, TaskFacts DEF Inside, AsyncIInv, IInv, TypeOK
<1>3. /\ body = FarmedBody(bundle, h1, h2)
      /\ time < CLOCK_LIMIT
      /\ ValidSignature(bundle.aggregated_signature, bundle.coin_solutions)
      /\ FeesFit(bundle)
  BY <1>1, <1>2 DEF Holds
<1>4. body.coin_solutions \in Seq(CoinSolution)
  BY <1>2 DEF Body
<1>5. AllPass(AcceptNewBlock(body, time))
  BY <1>1, ChecksAsNow
<1>6. Acceptable(body, time)
  BY <1>4, <1>5, AcceptedIff
<1>7. bundle \in SpendBundle /\ time \in Nat
  BY <1>1, <1>2, RequestFacts
<1>8. AllPass(NewChainView(bundle, h1, h2, time))
  BY <1>3, <1>6, <1>7, NewChainViewIff
<1> QED BY <1>1, <1>2, <1>3, <1>8

\* The last step of push_tx is the AcceptTx of Ledger.
LEMMA TakeBundleAccepts ==
  ASSUME AsyncIInv, NEW w \in Worker, TakeBundle(w),
         NEW tx, tx = task[w].request.tx, NEW time, time = task[w].time
  PROVE  /\ tx \in Bundle /\ time \in 0 .. now /\ AcceptTx(tx, time)
         /\ Answer(w, "OK") /\ HasTurn(w)
<1>1. /\ task[w].request.do = "push_tx" /\ Extend(w)
      /\ spend_bundle' = Aggregate(spend_bundle, tx) /\ chain' = chain
  BY DEF TakeBundle
<1>2. pc[w] = "checks" /\ AllPass(Checks(w)) /\ Answer(w, "OK") /\ now' = now
  BY <1>1 DEF Extend
<1>3. PICK r, body : r = task[w].request /\ body = task[w].body
  OBVIOUS
<1>4. /\ r \in Request /\ WellSigned(r) /\ task[w].view = chain /\ w \in Inside
  BY <1>2, <1>3, TaskFacts DEF Inside
<1>5. tx \in Bundle
  BY <1>1, <1>3, <1>4 DEF Request
<1>6. BundleOf(r) = Aggregate(spend_bundle, tx) /\ HashesOf(r) = <<ZERO_PH, FF_PH>>
  BY <1>1, <1>3 DEF BundleOf, HashesOf
<1>7. /\ body = FarmedBody(Aggregate(spend_bundle, tx), ZERO_PH, FF_PH)
      /\ time \in 0 .. now
      /\ AllPass(NewChainView(Aggregate(spend_bundle, tx), ZERO_PH, FF_PH, time))
  <2>1. HashesOf(r)[1] = ZERO_PH /\ HashesOf(r)[2] = FF_PH
    BY <1>6
  <2> QED BY <1>2, <1>3, <1>6, <2>1, PassesNow
<1>8. AllPass(PushTxChecks(tx, time))
  <2>1. ValidSignature(tx.aggregated_signature, tx.coin_solutions)
    BY <1>1, <1>3, <1>4 DEF WellSigned
  <2>2. time \in Nat
    BY <1>7 DEF AsyncIInv, IInv, TypeOK
  <2> QED BY <1>5, <1>7, <2>1, <2>2, BundleFacts, PushTxChecksIff DEF AsyncIInv
<1>9. /\ unspent_db' = ApplyDeltas(tip_index + 1, Additions(body), Removals(body))
      /\ preimage_db' = preimage_db \cup Additions(body)
      /\ reply' = "OK"
  BY <1>1, <1>3, <1>4 DEF Extend, Answer, tip_index
<1> QED BY <1>1, <1>2, <1>4, <1>5, <1>7, <1>8, <1>9 DEF AcceptTx, WriteDeltas, HasTurn

\* The last step of next_block is the FarmBlock of Ledger.
LEMMA TakeBlockFarms ==
  ASSUME AsyncIInv, NEW w \in Worker, TakeBlock(w),
         NEW h, h = task[w].request.hashes, NEW time, time = task[w].time
  PROVE  /\ h \in RewardHashes /\ time \in 0 .. now /\ FarmBlock(h[1], h[2], time)
         /\ Answer(w, "OK") /\ HasTurn(w)
<1>1. /\ task[w].request.do = "next_block" /\ Extend(w)
      /\ spend_bundle' = EmptyBundle /\ chain' = Append(task[w].view, task[w].body)
  BY DEF TakeBlock
<1>2. pc[w] = "checks" /\ AllPass(Checks(w)) /\ Answer(w, "OK") /\ now' = now
  BY <1>1 DEF Extend
<1>3. PICK r, body : r = task[w].request /\ body = task[w].body
  OBVIOUS
<1>4. /\ r \in Request /\ task[w].view = chain /\ w \in Inside
  BY <1>2, <1>3, TaskFacts DEF Inside
<1>5. h \in RewardHashes
  BY <1>1, <1>3, <1>4 DEF Request
<1>6. BundleOf(r) = spend_bundle /\ HashesOf(r) = h
  BY <1>1, <1>3 DEF BundleOf, HashesOf
<1>7. /\ body = FarmedBody(spend_bundle, h[1], h[2])
      /\ time \in 0 .. now
      /\ AllPass(NewChainView(spend_bundle, h[1], h[2], time))
  <2>1. HashesOf(r)[1] = h[1] /\ HashesOf(r)[2] = h[2]
    BY <1>6
  <2> QED BY <1>2, <1>3, <1>6, <2>1, PassesNow
<1>8. /\ unspent_db' = ApplyDeltas(tip_index + 1, Additions(body), Removals(body))
      /\ preimage_db' = preimage_db \cup Additions(body)
      /\ reply' = "OK" /\ chain' = Append(chain, body)
  BY <1>1, <1>3, <1>4 DEF Extend, Answer, tip_index
<1> QED BY <1>1, <1>2, <1>4, <1>5, <1>7, <1>8 DEF FarmBlock, WriteDeltas, HasTurn

LEMMA TakeStep ==
  ASSUME AsyncIInv, NEW w \in Worker, TakeBundle(w) \/ TakeBlock(w)
  PROVE  AsyncIInv'
<1>1. now \in Nat /\ accepted \subseteq Bundle /\ 0 .. now \subseteq Nat
  BY DEF AsyncIInv, IInv, TypeOK
<1>2. CASE TakeBundle(w)
  <2>1. PICK tx, time : tx = task[w].request.tx /\ time = task[w].time
    OBVIOUS
  <2>2. /\ tx \in Bundle /\ time \in 0 .. now /\ AcceptTx(tx, time)
        /\ Answer(w, "OK") /\ HasTurn(w)
    BY <1>2, <2>1, TakeBundleAccepts
  <2>3. IInv'
    BY <1>1, <2>2, BundleFacts, AcceptTxStep DEF AsyncIInv
  <2>4. accepted' = accepted \cup {tx} /\ now' = now
    BY <1>2, <2>1, <2>2 DEF TakeBundle, AcceptTx
  <2>5. accepted' \subseteq Bundle /\ now' >= now
    BY <1>1, <2>2, <2>4
  <2> QED BY <2>2, <2>3, <2>5, AnswerStep
<1>3. CASE TakeBlock(w)
  <2>1. PICK h, time : h = task[w].request.hashes /\ time = task[w].time
    OBVIOUS
  <2>2. /\ h \in RewardHashes /\ time \in 0 .. now /\ FarmBlock(h[1], h[2], time)
        /\ Answer(w, "OK") /\ HasTurn(w)
    BY <1>3, <2>1, TakeBlockFarms
  <2>3. IInv'
    BY <1>1, <2>2, FarmBlockStep DEF AsyncIInv
  <2>4. accepted' \subseteq Bundle /\ now' >= now
    BY <1>1, <1>3, <2>2 DEF TakeBlock, FarmBlock
  <2> QED BY <2>2, <2>3, <2>4, AnswerStep
<1> QED BY <1>2, <1>3

LEMMA AsyncInitIInv == AsyncInit => AsyncIInv
<1> SUFFICES ASSUME AsyncInit PROVE AsyncIInv
  OBVIOUS
<1>1. /\ Init /\ lock = <<>> /\ pc = [w \in Worker |-> "idle"]
      /\ task = [w \in Worker |-> NoTask] /\ accepted = {}
  BY DEF AsyncInit
<1>2. IInv
  BY <1>1, InitIInv
<1>3. \A w \in Worker : pc[w] = "idle" /\ task[w] = NoTask
  BY <1>1
<1>4. \A w \in Worker : WorkerOK(w)
  BY <1>3 DEF WorkerOK, Task, Inside
<1>5. LockOK
  BY <1>1, <1>3 DEF LockOK
<1> QED BY <1>1, <1>2, <1>4, <1>5 DEF AsyncIInv, PC

LEMMA AsyncStep ==
  ASSUME AsyncIInv, [AsyncNext]_asyncVars
  PROVE  AsyncIInv'
<1>1. ASSUME NEW w \in Worker, NEW request \in Request, Submit(w, request) PROVE AsyncIInv'
  BY <1>1, SubmitStep
<1>2. ASSUME NEW w \in Worker, Begin(w) PROVE AsyncIInv'
  BY <1>2, BeginStep
<1>3. ASSUME NEW w \in Worker, ReadCoins(w) PROVE AsyncIInv'
  BY <1>3, ReadCoinsStep
<1>4. ASSUME NEW w \in Worker, ReadUnspents(w) PROVE AsyncIInv'
  BY <1>4, ReadUnspentsStep
<1>5. ASSUME NEW w \in Worker, TakeBundle(w) \/ TakeBlock(w) PROVE AsyncIInv'
  BY <1>5, TakeStep
<1>6. ASSUME NEW w \in Worker, Refuse(w) PROVE AsyncIInv'
  BY <1>6, RefuseStep
<1>7. ASSUME NEW w \in Worker, Continue(w) PROVE AsyncIInv'
  BY <1>7, ContinueStep
<1>8. ASSUME NEW ms \in Skip, MoveClock(ms) PROVE AsyncIInv'
  BY <1>8, MoveClockStep
<1>9. CASE UNCHANGED asyncVars
  <2>1. /\ UNCHANGED <<viewVars, spend_bundle>> /\ now' = now /\ reply' = reply
        /\ lock' = lock /\ pc' = pc /\ task' = task /\ accepted' = accepted
    BY <1>9 DEF asyncVars, vars, viewVars
  <2>2. now \in Nat /\ reply \in Reply
    BY DEF AsyncIInv, IInv, TypeOK
  <2>3. IInv'
    BY <2>1, <2>2, UnchangedStep DEF AsyncIInv
  <2>4. \A v \in Worker : WorkerOK(v)'
    BY <2>1, <2>2, OtherWorker
  <2> QED BY <2>1, <2>3, <2>4 DEF AsyncIInv, LockOK
<1> QED
  BY <1>1, <1>2, <1>3, <1>4, <1>5, <1>6, <1>7, <1>8, <1>9 DEF AsyncNext, Step

LEMMA AsyncInductive == AsyncSpec => []AsyncIInv
BY AsyncInitIInv, AsyncStep, PTL DEF AsyncSpec

-----------------------------------------------------------------------------
(* The theorems *)

\* Whatever the number of workers, their tasks, the queue of the lock and the
\* ledger keep their types.
THEOREM AsyncTypeCorrect == AsyncSpec => []AsyncTypeOK
<1>1. AsyncIInv => AsyncTypeOK
  BY DEF AsyncIInv, AsyncTypeOK, WorkerOK, IInv
<1> QED BY <1>1, AsyncInductive, PTL

\* One request at a time is past the lock, and what it has taken from the
\* ledger is still the ledger's state: the chain, the records, and the
\* pending bundle its body was made of.
THEOREM HolderIsAlone == AsyncSpec => []HolderSeesLedger
<1>1. AsyncIInv => HolderSeesLedger
  <2> SUFFICES ASSUME AsyncIInv PROVE HolderSeesLedger
    OBVIOUS
  <2>1. \A w \in Inside : w \in Worker /\ HasTurn(w)
    BY DEF Inside, HasTurn
  <2>2. ASSUME NEW v \in Inside, NEW w \in Inside PROVE v = w
    <3>1. lock[1] = v /\ lock[1] = w
      BY <2>1, LockHeld
    <3> QED BY <3>1
  <2>3. ASSUME NEW w \in Inside
        PROVE  /\ Head(lock) = w
               /\ task[w].view = chain
               /\ task[w].body.coin_solutions = BundleOf(task[w].request).coin_solutions
               /\ pc[w] = "checks" => task[w].unspents = unspent_db
    <3>1. Head(lock) = w
      BY <2>1, LockHeld
    <3>2. /\ task[w].view = chain /\ Holds(task[w], pc[w])
          /\ pc[w] = "checks" => task[w].unspents = unspent_db
      BY TaskFacts
    <3> QED BY <3>1, <3>2 DEF Holds, FarmedBody
  <2> QED BY <2>2, <2>3 DEF HolderSeesLedger
<1> QED BY <1>1, AsyncInductive, PTL

\* The database agrees with the chain in every state of the interleaved
\* ledger too, between any two steps of any requests.
THEOREM AsyncDatabaseCorrect == AsyncSpec => []DbMatchesChain
<1>1. AsyncIInv => DbMatchesChain
  BY ViewDbMatchesChain DEF AsyncIInv, IInv
<1> QED BY <1>1, AsyncInductive, PTL

LEMMA SameTxsKept ==
  ASSUME AcceptedNeverLost, UNCHANGED <<chain, spend_bundle, accepted>>
  PROVE  AcceptedNeverLost'
BY DEF AcceptedNeverLost

LEMMA ConcatToSet ==
  ASSUME NEW S, NEW s \in Seq(S), NEW t \in Seq(S)
  PROVE  ToSet(s) \subseteq ToSet(s \o t) /\ ToSet(t) \subseteq ToSet(s \o t)
<1>1. /\ Len(s) \in Nat /\ Len(t) \in Nat
      /\ DOMAIN s = 1 .. Len(s) /\ DOMAIN t = 1 .. Len(t)
      /\ DOMAIN (s \o t) = 1 .. Len(s) + Len(t)
      /\ \A i \in 1 .. Len(s) + Len(t) :
            (s \o t)[i] = IF i <= Len(s) THEN s[i] ELSE t[i - Len(s)]
  BY LenProperties, ConcatProperties
<1>2. ASSUME NEW i \in DOMAIN s PROVE s[i] \in ToSet(s \o t)
  <2>1. i \in DOMAIN (s \o t) /\ (s \o t)[i] = s[i]
    BY <1>1
  <2> QED BY <2>1 DEF ToSet
<1>3. ASSUME NEW i \in DOMAIN t PROVE t[i] \in ToSet(s \o t)
  <2>1. i + Len(s) \in DOMAIN (s \o t) /\ (s \o t)[i + Len(s)] = t[i]
    BY <1>1
  <2> QED BY <2>1 DEF ToSet
<1> QED BY <1>2, <1>3 DEF ToSet

LEMMA AcceptedKept ==
  ASSUME AsyncIInv, AcceptedNeverLost, [AsyncNext]_asyncVars
  PROVE  AcceptedNeverLost'
<1>1. ASSUME NEW w \in Worker, TakeBundle(w) PROVE AcceptedNeverLost'
  <2>1. PICK tx, time : tx = task[w].request.tx /\ time = task[w].time
    OBVIOUS
  <2>2. tx \in Bundle
    BY <1>1, <2>1, TakeBundleAccepts
  <2>3. /\ accepted' = accepted \cup {tx} /\ chain' = chain
        /\ spend_bundle'.coin_solutions = spend_bundle.coin_solutions \o tx.coin_solutions
    BY <1>1, <2>1 DEF TakeBundle, Aggregate
  <2>4. tx.coin_solutions \in Seq(CoinSolution) /\ spend_bundle.coin_solutions \in Seq(CoinSolution)
    BY <2>2, BundleAssumption DEF AsyncIInv, IInv, TypeOK, SpendBundle
  <2>5. /\ ToSet(tx.coin_solutions) \subseteq ToSet(spend_bundle'.coin_solutions)
        /\ ToSet(spend_bundle.coin_solutions) \subseteq ToSet(spend_bundle'.coin_solutions)
    BY <2>3, <2>4, ConcatToSet
  <2> QED BY <2>3, <2>5 DEF AcceptedNeverLost
<1>2. ASSUME NEW w \in Worker, TakeBlock(w) PROVE AcceptedNeverLost'
  <2>1. PICK h, time, body :
            /\ h = task[w].request.hashes /\ time = task[w].time
            /\ body = FarmedBody(spend_bundle, h[1], h[2])
    OBVIOUS
  <2>2. chain' = Append(chain, body) /\ accepted' = accepted
    BY <1>2, <2>1, TakeBlockFarms DEF FarmBlock, TakeBlock
  <2>3. body.coin_solutions = spend_bundle.coin_solutions
    BY <2>1 DEF FarmedBody
  <2>4. chain \in Seq(Body) /\ body \in Body
    <3>1. h \in RewardHashes
      BY <1>2, <2>1, TakeBlockFarms
    <3> QED BY <2>1, <3>1, HashAssumption, FarmedFacts DEF AsyncIInv, IInv, TypeOK, ViewTypeOK
  <2>5. /\ \A i \in DOMAIN chain : i \in DOMAIN chain' /\ chain'[i] = chain[i]
        /\ Len(chain) + 1 \in DOMAIN chain' /\ chain'[Len(chain) + 1] = body
    BY <2>2, <2>4, AppendProperties, LenProperties
  <2> SUFFICES ASSUME NEW tx \in accepted
               PROVE  \E i \in DOMAIN chain' :
                        ToSet(tx.coin_solutions) \subseteq ToSet(chain'[i].coin_solutions)
    BY <2>2 DEF AcceptedNeverLost
  <2>6. CASE ToSet(tx.coin_solutions) \subseteq ToSet(spend_bundle.coin_solutions)
    BY <2>3, <2>5, <2>6
  <2>7. CASE \E i \in DOMAIN chain :
                ToSet(tx.coin_solutions) \subseteq ToSet(chain[i].coin_solutions)
    BY <2>5, <2>7
  <2> QED BY <2>6, <2>7 DEF AcceptedNeverLost
<1>3. ASSUME NEW w \in Worker,
             \/ \E request \in Request : Submit(w, request)
             \/ Begin(w) \/ ReadCoins(w) \/ ReadUnspents(w) \/ Refuse(w) \/ Continue(w)
      PROVE  AcceptedNeverLost'
  <2>1. UNCHANGED <<viewVars, spend_bundle, accepted>>
    BY <1>3 DEF Submit, Begin, ReadCoins, ReadUnspents, Refuse, Continue, vars, viewVars
  <2> QED BY <2>1, SameTxsKept DEF viewVars
<1>4. ASSUME NEW ms \in Skip, MoveClock(ms) PROVE AcceptedNeverLost'
  BY <1>4, SameTxsKept DEF MoveClock, SkipMilliseconds, viewVars
<1>5. CASE UNCHANGED asyncVars
  BY <1>5, SameTxsKept DEF asyncVars, vars, viewVars
<1> QED BY <1>1, <1>2, <1>3, <1>4, <1>5 DEF AsyncNext, Step

\* A bundle that push_tx has answered "accepted" is pending or in a block,
\* whatever requests were under way when it was accepted.
THEOREM AcceptedStays == AsyncSpec => []AcceptedNeverLost
<1>1. AsyncInit => AcceptedNeverLost
  BY DEF AsyncInit, AcceptedNeverLost
<1> QED BY <1>1, AcceptedKept, AsyncInductive, PTL DEF AsyncSpec

-----------------------------------------------------------------------------
(* Refinement of Ledger *)

\* Ledger with the answers left out judges as Ledger does.
LEMMA SequentialAccepts ==
  ASSUME NEW body, NEW time
  PROVE  Sequential!AcceptNewBlock(body, time) = AcceptNewBlock(body, time)
<1>1. Sequential!Additions(body) = Additions(body) /\ Sequential!Removals(body) = Removals(body)
  BY DEF Additions, AdditionAt, AdditionSlots, OutputSlots, Output, CoinName, CoinbaseSlot,
     FeesSlot, Removals, RemovedCoins, Sequential!Additions, Sequential!AdditionAt,
     Sequential!AdditionSlots, Sequential!OutputSlots, Sequential!Output,
     Sequential!CoinName, Sequential!CoinbaseSlot, Sequential!FeesSlot, Sequential!Removals,
     Sequential!RemovedCoins
<1>2. Sequential!DuplicateOutput(body) <=> DuplicateOutput(body)
  BY DEF DuplicateOutput, AdditionAt, AdditionSlots, OutputSlots, Output, CoinName,
     CoinbaseSlot, FeesSlot, Sequential!DuplicateOutput, Sequential!AdditionAt,
     Sequential!AdditionSlots, Sequential!OutputSlots, Sequential!Output,
     Sequential!CoinName, Sequential!CoinbaseSlot, Sequential!FeesSlot
<1>3. Sequential!DuplicateRemoval(body.coin_solutions)
          <=> DuplicateRemoval(body.coin_solutions)
  BY DEF DuplicateRemoval, CoinName, Sequential!DuplicateRemoval, Sequential!CoinName
<1>4. Sequential!KnownCoins(body) = KnownCoins(body)
  BY DEF KnownCoins, Additions, AdditionAt, AdditionSlots, OutputSlots, Output, CoinName,
     CoinbaseSlot, FeesSlot, Sequential!KnownCoins, Sequential!Additions,
     Sequential!AdditionAt, Sequential!AdditionSlots, Sequential!OutputSlots,
     Sequential!Output, Sequential!CoinName, Sequential!CoinbaseSlot, Sequential!FeesSlot
<1>5. \A sol : Sequential!PuzzleMatches(sol) <=> PuzzleMatches(sol)
  BY DEF PuzzleMatches, Sequential!PuzzleMatches
<1>6. Sequential!FirstError([i \in DOMAIN body.coin_solutions |->
                  Sequential!RemovalError(body, body.coin_solutions[i].coin)])
          = FirstError([i \in DOMAIN body.coin_solutions |-> RemovalError(body, body.coin_solutions[i].coin)])
  BY Zenon DEF FirstError, Min, Raise, AllPass, RemovalError, IsConfirmed, IsSpentOnChain,
     UnspentFor, tip_index, Names, NoUnspent, Additions, AdditionAt, AdditionSlots,
     OutputSlots, Output, CoinName, CoinbaseSlot, FeesSlot, Sequential!FirstError,
     Sequential!Min, Sequential!Raise, Sequential!AllPass, Sequential!RemovalError,
     Sequential!IsConfirmed, Sequential!IsSpentOnChain, Sequential!UnspentFor,
     Sequential!tip_index, Sequential!Names, Sequential!NoUnspent, Sequential!Additions,
     Sequential!AdditionAt, Sequential!AdditionSlots, Sequential!OutputSlots,
     Sequential!Output, Sequential!CoinName, Sequential!CoinbaseSlot, Sequential!FeesSlot
<1>7. Sequential!BlockSurplus(body) = BlockSurplus(body)
  BY Zenon DEF BlockSurplus, AmountIn, SumFunction, SumFunctionOnSet, FoldFunctionOnSet,
     MapThenFoldSet, AdditionAt, AdditionSlots, OutputSlots, Output, CoinName, CoinbaseSlot,
     FeesSlot, Sequential!BlockSurplus, Sequential!AmountIn, Sequential!SumFunction,
     Sequential!SumFunctionOnSet, Sequential!FoldFunctionOnSet, Sequential!MapThenFoldSet,
     Sequential!AdditionAt, Sequential!AdditionSlots, Sequential!OutputSlots,
     Sequential!Output, Sequential!CoinName, Sequential!CoinbaseSlot, Sequential!FeesSlot
<1>8. Sequential!FirstError([i \in DOMAIN body.coin_solutions |->
                  Sequential!ConditionsError(body, body.coin_solutions[i], time)])
          = FirstError([i \in DOMAIN body.coin_solutions |->
                  ConditionsError(body, body.coin_solutions[i], time)])
  BY Zenon DEF FirstError, Min, Raise, AllPass, ConditionsError, TimeExceeds,
     BlockIndexExceeds, BlockAgeExceeds, UnspentFor, tip_index, Names, NoUnspent, Removals,
     RemovedCoins, Additions, AdditionAt, AdditionSlots, OutputSlots, Output, CoinName,
     CoinbaseSlot, FeesSlot, Sequential!FirstError, Sequential!Min, Sequential!Raise,
     Sequential!AllPass, Sequential!ConditionsError, Sequential!TimeExceeds,
     Sequential!BlockIndexExceeds, Sequential!BlockAgeExceeds, Sequential!UnspentFor,
     Sequential!tip_index, Sequential!Names, Sequential!NoUnspent, Sequential!Removals,
     Sequential!RemovedCoins, Sequential!Additions, Sequential!AdditionAt,
     Sequential!AdditionSlots, Sequential!OutputSlots, Sequential!Output,
     Sequential!CoinName, Sequential!CoinbaseSlot, Sequential!FeesSlot
<1>9. Sequential!ValidSignature(body.aggregated_signature, body.coin_solutions)
          <=> ValidSignature(body.aggregated_signature, body.coin_solutions)
  BY Zenon DEF ValidSignature, HashKeyPairs, ZERO96, SumFunction, SumFunctionOnSet,
     FoldFunctionOnSet, MapThenFoldSet, Sequential!ValidSignature, Sequential!HashKeyPairs,
     Sequential!ZERO96, Sequential!SumFunction, Sequential!SumFunctionOnSet,
     Sequential!FoldFunctionOnSet, Sequential!MapThenFoldSet
<1> QED BY ZenonT(120), <1>1, <1>2, <1>3, <1>4, <1>5, <1>6, <1>7, <1>8, <1>9
          DEF AcceptNewBlock, Sequential!AcceptNewBlock, Raise, Sequential!Raise

LEMMA SequentialFarms ==
  ASSUME NEW bundle, NEW h1, NEW h2
  PROVE  /\ Sequential!FarmedBody(bundle, h1, h2) = FarmedBody(bundle, h1, h2)
         /\ Sequential!FeesFit(bundle) = FeesFit(bundle)
         /\ Sequential!ValidSignature(bundle.aggregated_signature, bundle.coin_solutions)
                = ValidSignature(bundle.aggregated_signature, bundle.coin_solutions)
BY Zenon DEF
   FarmedBody, RewardCoin, BlockIndexHash, tip_index, FeesFit, Fees, AmountIn,
   AmountOut, SumFunction, SumFunctionOnSet, FoldFunctionOnSet, MapThenFoldSet,
   OutputSlots, Output, CoinName, ValidSignature, HashKeyPairs, ZERO96,
   Sequential!FarmedBody, Sequential!RewardCoin, Sequential!BlockIndexHash,
   Sequential!tip_index, Sequential!FeesFit, Sequential!Fees, Sequential!AmountIn,
   Sequential!AmountOut, Sequential!SumFunction, Sequential!SumFunctionOnSet,
   Sequential!FoldFunctionOnSet, Sequential!MapThenFoldSet, Sequential!OutputSlots,
   Sequential!Output, Sequential!CoinName, Sequential!ValidSignature,
   Sequential!HashKeyPairs, Sequential!ZERO96

LEMMA SequentialJudges ==
  ASSUME NEW bundle, NEW h1, NEW h2, NEW time
  PROVE  Sequential!NewChainView(bundle, h1, h2, time) = NewChainView(bundle, h1, h2, time)
BY SequentialAccepts, SequentialFarms
   DEF NewChainView, Sequential!NewChainView, Raise, Sequential!Raise

LEMMA SequentialDeltas ==
  ASSUME NEW body
  PROVE  WriteDeltas(body) => Sequential!WriteDeltas(body)
<1>1. Sequential!Additions(body) = Additions(body) /\ Sequential!Removals(body) = Removals(body)
  BY DEF
     Additions, AdditionAt, AdditionSlots, OutputSlots, Output, CoinName, CoinbaseSlot,
     FeesSlot, Removals, RemovedCoins, Sequential!Additions, Sequential!AdditionAt,
     Sequential!AdditionSlots, Sequential!OutputSlots, Sequential!Output,
     Sequential!CoinName, Sequential!CoinbaseSlot, Sequential!FeesSlot,
     Sequential!Removals, Sequential!RemovedCoins
<1>2. \A index, additions, removals :
        Sequential!ApplyDeltas(index, additions, removals) = ApplyDeltas(index, additions, removals)
  BY DEF ApplyDeltas, Sequential!ApplyDeltas, Names, Sequential!Names, CoinName,
     Sequential!CoinName
<1>3. Sequential!tip_index = tip_index
  BY DEF tip_index, Sequential!tip_index
<1> QED BY <1>1, <1>2, <1>3 DEF WriteDeltas, Sequential!WriteDeltas

LEMMA SequentialPasses == \A errs : Sequential!AllPass(errs) <=> AllPass(errs)
BY DEF AllPass, Sequential!AllPass

\* The steps of Ledger that answer "OK", with the answers left out.
LEMMA SequentialAcceptTx ==
  ASSUME NEW tx \in Bundle, NEW time, AcceptTx(tx, time)
  PROVE  Sequential!AcceptTx(tx, time)
<1>1. PICK agg, body, errs :
        /\ agg = Aggregate(spend_bundle, tx) /\ body = FarmedBody(agg, ZERO_PH, FF_PH)
        /\ errs = PushTxChecks(tx, time)
  OBVIOUS
<1>2. /\ AllPass(errs) /\ WriteDeltas(body) /\ spend_bundle' = agg
      /\ chain' = chain /\ now' = now
  BY <1>1 DEF AcceptTx
<1>3. Sequential!Aggregate(spend_bundle, tx) = agg
  BY <1>1 DEF Aggregate, Sequential!Aggregate, AggregateSignature, Sequential!AggregateSignature
<1>4. Sequential!FarmedBody(agg, ZERO_PH, FF_PH) = body
  BY <1>1, SequentialFarms
<1>5. Sequential!PushTxChecks(tx, time) = errs
  <2>1. Sequential!NewChainView(agg, ZERO_PH, FF_PH, time)
            = NewChainView(agg, ZERO_PH, FF_PH, time)
    BY SequentialJudges
  <2>2. Sequential!ValidSignature(tx.aggregated_signature, tx.coin_solutions)
            = ValidSignature(tx.aggregated_signature, tx.coin_solutions)
    BY SequentialFarms
  <2> QED BY <1>1, <1>3, <2>1, <2>2
          DEF PushTxChecks, Sequential!PushTxChecks, Raise, Sequential!Raise
<1>6. Sequential!WriteDeltas(body)
  BY <1>2, SequentialDeltas
<1>7. Sequential!AllPass(errs)
  BY <1>2, SequentialPasses
<1> QED BY <1>2, <1>3, <1>4, <1>5, <1>6, <1>7 DEF Sequential!AcceptTx

LEMMA SequentialFarmBlock ==
  ASSUME NEW h1, NEW h2, NEW time, FarmBlock(h1, h2, time)
  PROVE  Sequential!FarmBlock(h1, h2, time)
<1>1. PICK body, errs :
        /\ body = FarmedBody(spend_bundle, h1, h2)
        /\ errs = NewChainView(spend_bundle, h1, h2, time)
  OBVIOUS
<1>2. /\ AllPass(errs) /\ WriteDeltas(body) /\ spend_bundle' = EmptyBundle
      /\ chain' = Append(chain, body) /\ now' = now
  BY <1>1 DEF FarmBlock
<1>3. Sequential!FarmedBody(spend_bundle, h1, h2) = body
  BY <1>1, SequentialFarms
<1>4. Sequential!NewChainView(spend_bundle, h1, h2, time) = errs
  BY <1>1, SequentialJudges
<1>5. Sequential!WriteDeltas(body) /\ Sequential!AllPass(errs)
  BY <1>2, SequentialDeltas, SequentialPasses
<1>6. Sequential!EmptyBundle = EmptyBundle
  BY DEF EmptyBundle, Sequential!EmptyBundle, ZERO96, Sequential!ZERO96
<1> QED BY <1>2, <1>3, <1>4, <1>5, <1>6 DEF Sequential!FarmBlock

\* Every step is a step of Ledger or changes nothing Ledger knows of.
LEMMA SequentialStep ==
  ASSUME AsyncIInv, [AsyncNext]_asyncVars
  PROVE  [SequentialNext]_(Sequential!vars)
<1>1. ASSUME NEW w \in Worker, TakeBundle(w) PROVE SequentialNext
  <2>1. PICK tx, time : tx = task[w].request.tx /\ time = task[w].time
    OBVIOUS
  <2>2. tx \in Bundle /\ time \in 0 .. now /\ Sequential!AcceptTx(tx, time)
    BY <1>1, <2>1, TakeBundleAccepts, SequentialAcceptTx
  <2> QED BY <2>2 DEF SequentialNext, Sequential!Answered
<1>2. ASSUME NEW w \in Worker, TakeBlock(w) PROVE SequentialNext
  <2>1. PICK h, time : h = task[w].request.hashes /\ time = task[w].time
    OBVIOUS
  <2>2. h \in RewardHashes /\ time \in 0 .. now /\ Sequential!FarmBlock(h[1], h[2], time)
    BY <1>2, <2>1, TakeBlockFarms, SequentialFarmBlock
  <2> QED BY <2>2 DEF SequentialNext, Sequential!Answered
<1>3. ASSUME NEW ms \in Skip, MoveClock(ms) PROVE SequentialNext
  <2>1. Sequential!SkipMilliseconds(ms)
    BY <1>3 DEF MoveClock, SkipMilliseconds, Sequential!SkipMilliseconds,
       viewVars, Sequential!viewVars
  <2> QED BY <2>1 DEF SequentialNext
<1>4. ASSUME NEW w \in Worker,
             \/ \E request \in Request : Submit(w, request)
             \/ Begin(w) \/ ReadCoins(w) \/ ReadUnspents(w) \/ Refuse(w) \/ Continue(w)
      PROVE  UNCHANGED Sequential!vars
  <2>1. UNCHANGED <<viewVars, spend_bundle, now>>
    BY <1>4 DEF Submit, Begin, ReadCoins, ReadUnspents, Refuse, Continue, vars, viewVars
  <2> QED BY <2>1 DEF viewVars, Sequential!vars
<1>5. CASE UNCHANGED asyncVars
  BY <1>5 DEF asyncVars, vars, Sequential!vars
<1> QED BY <1>1, <1>2, <1>3, <1>4, <1>5 DEF AsyncNext, Step

\* The interleaved ledger implements the ledger whose requests are one step:
\* the lookups, the lock and the refusals are invisible, the answer "accepted"
\* is push_tx's step, the farmed block next_block's.  The clock that a request
\* goes by is the one it read, which may have gone on since.
THEOREM AsyncRefinement == AsyncSpec => ImplementsLedger
<1>1. AsyncInit => Sequential!Init
  BY DEF AsyncInit, Init, Sequential!Init, ViewInit, Sequential!ViewInit, EmptyBundle,
     Sequential!EmptyBundle, ZERO96, Sequential!ZERO96, NoUnspent, Sequential!NoUnspent
<1> QED BY <1>1, SequentialStep, AsyncInductive, PTL
        DEF AsyncSpec, ImplementsLedger

-----------------------------------------------------------------------------
(* Answers *)

\* A worker that is past the lock is not answered by the step of another.
LEMMA OnlyItsOwnStep ==
  ASSUME AsyncIInv, NEW w \in Inside, NEW v \in Worker, pc'[w] = "idle",
         \/ \E request \in Request : Submit(v, request)
         \/ Step(v) \/ Continue(v)
  PROVE  v = w
<1>1. w \in Worker /\ HasTurn(w) /\ pc[w] \notin {"idle", "waiting"}
  BY DEF Inside, HasTurn
<1>2. CASE \E request \in Request : Submit(v, request)
  BY <1>1, <1>2 DEF Submit, AsyncIInv
<1>3. CASE Step(v) \/ Continue(v)
  <2>1. HasTurn(v)
    BY <1>3 DEF Step, Begin, ReadCoins, ReadUnspents, TakeBundle, TakeBlock, Extend, Refuse,
       Continue, HasTurn, Inside
  <2> QED BY <1>1, <2>1, LockHeld
<1> QED BY <1>2, <1>3

LEMMA AnswersVerdict ==
  ASSUME AsyncIInv, NEW w \in Inside, pc'[w] = "idle", Step(w) \/ Continue(w)
  PROVE  reply' = task[w].verdict
<1>1. w \in Worker /\ pc[w] \in PC
  BY DEF Inside, AsyncIInv
<1>2. PICK t, body, errs :
        t = task[w] /\ body = t.body /\ errs = AcceptNewBlock(body, t.time)
  OBVIOUS
<1>3. Holds(t, pc[w]) /\ body \in Body
  BY <1>2, TaskFacts
<1>4. /\ errs \in Seq(Reply) /\ DOMAIN errs = 1 .. 9
      /\ errs[4] = Raise(~(Removals(body) \subseteq KnownCoins(body)), "UNKNOWN")
      /\ errs[5] = Raise(\E i \in DOMAIN body.coin_solutions :
                            ~PuzzleMatches(body.coin_solutions[i]), "WRONG_PUZZLE_HASH")
  <2>1. PICK time : time = t.time
    OBVIOUS
  <2>2. body.coin_solutions \in Seq(CoinSolution)
    BY <1>3 DEF Body
  <2>3. errs = AcceptNewBlock(body, time)
    BY <1>2, <2>1
  <2> QED BY <2>2, <2>3, AcceptNewBlockParts
<1>5. t.verdict = FirstError(errs) /\ \A k \in 1 .. 3 : errs[k] = "OK"
  BY <1>2, <1>3 DEF Holds
<1>6. ASSUME NEW k \in 4 .. 5, errs[k] # "OK", k = 5 => errs[4] = "OK"
      PROVE  t.verdict = errs[k]
  <2>1. k \in DOMAIN errs /\ \A j \in DOMAIN errs : j < k => j \in 1 .. 3 \/ (k = 5 /\ j = 4)
    BY <1>4
  <2>2. \A j \in DOMAIN errs : j < k => errs[j] = "OK"
    BY <1>5, <1>6, <2>1
  <2> QED BY <1>4, <1>5, <1>6, <2>1, <2>2, FirstErrorAt
<1>7. CASE ReadCoins(w)
  <2>1. /\ Removals(body) \subseteq KnownCoins(body)
        /\ \E i \in DOMAIN body.coin_solutions : ~PuzzleMatches(body.coin_solutions[i])
        /\ Answer(w, "WRONG_PUZZLE_HASH")
    <3>1. \A c \in {"debugger", "unspents"} : pc' # [pc EXCEPT ![w] = c]
      BY <1>1 DEF AsyncIInv
    <3> QED BY <1>2, <1>7, <3>1 DEF ReadCoins
  <2>2. errs[4] = "OK" /\ errs[5] = "WRONG_PUZZLE_HASH"
    BY <1>4, <2>1 DEF Raise
  <2>3. t.verdict = errs[5]
    BY <1>6, <2>2
  <2> QED BY <1>2, <2>1, <2>2, <2>3 DEF Answer
<1>8. CASE Continue(w)
  <2>1. pc[w] = "debugger" /\ Answer(w, "UNKNOWN")
    BY <1>8 DEF Continue
  <2>2. ~(Removals(body) \subseteq KnownCoins(body))
    BY <1>2, <1>3, <2>1 DEF Holds
  <2>3. errs[4] = "UNKNOWN"
    BY <1>4, <2>2 DEF Raise
  <2>4. t.verdict = errs[4]
    BY <1>6, <2>3
  <2> QED BY <1>2, <2>1, <2>3, <2>4 DEF Answer
<1>9. CASE Refuse(w)
  BY <1>1, <1>9, ChecksAreVerdict DEF Refuse, Answer
<1>10. CASE TakeBundle(w) \/ TakeBlock(w)
  <2>1. pc[w] = "checks" /\ AllPass(Checks(w)) /\ reply' = "OK"
    BY <1>10 DEF TakeBundle, TakeBlock, Extend, Answer
  <2>2. FirstError(Checks(w)) = "OK"
    BY <2>1 DEF FirstError
  <2> QED BY <1>1, <2>1, <2>2, ChecksAreVerdict
<1>11. CASE Begin(w) \/ ReadUnspents(w)
  <2>1. ~Begin(w)
    BY DEF Begin, Inside
  <2> QED BY <1>1, <1>11, <2>1 DEF ReadUnspents, AsyncIInv
<1> QED BY <1>7, <1>8, <1>9, <1>10, <1>11 DEF Step

\* What push_tx or next_block answers, success or the first error, is what it
\* would have answered in one step when it got the lock.
THEOREM AnsweredAtOnce == AsyncSpec => AnsweredAsInOneStep
<1> DEFINE Own == \A w \in Inside : pc'[w] = "idle" => reply' = task[w].verdict
<1>1. AsyncIInv /\ [AsyncNext]_asyncVars => [Own]_asyncVars
  <2> SUFFICES ASSUME AsyncIInv, AsyncNext, NEW w \in Inside, pc'[w] = "idle"
               PROVE  reply' = task[w].verdict
    OBVIOUS
  <2>1. ASSUME NEW v \in Worker, \/ \E request \in Request : Submit(v, request)
                                 \/ Step(v) \/ Continue(v)
        PROVE  reply' = task[w].verdict
    <3>1. v = w
      BY <2>1, OnlyItsOwnStep
    <3>2. ~\E request \in Request : Submit(w, request)
      BY DEF Submit, Inside
    <3> QED BY <2>1, <3>1, <3>2, AnswersVerdict
  <2>2. ASSUME NEW ms \in Skip, MoveClock(ms) PROVE FALSE
    BY <2>2 DEF MoveClock, Inside
  <2> QED BY <2>1, <2>2 DEF AsyncNext
<1> QED BY <1>1, AsyncInductive, PTL DEF AsyncSpec, AnsweredAsInOneStep

-----------------------------------------------------------------------------
(* What is pending, between the steps of the requests *)

AnsweredByNow == \E time \in 0 .. now : Answered(time)

LeftAlone == UNCHANGED <<viewVars, spend_bundle>> /\ now' \in Nat /\ now' >= now

\* Every step of a request but its last leaves the ledger alone, and so does
\* the clock.
LEMMA LedgerSteps ==
  ASSUME AsyncIInv, [AsyncNext]_asyncVars
  PROVE  AnsweredByNow \/ LeftAlone
<1> now \in Nat
  BY DEF AsyncIInv, IInv, TypeOK
<1>1. ASSUME NEW w \in Worker, TakeBundle(w) PROVE AnsweredByNow
  <2>1. PICK tx, time : tx = task[w].request.tx /\ time = task[w].time
    OBVIOUS
  <2>2. tx \in Bundle /\ time \in 0 .. now /\ AcceptTx(tx, time)
    BY <1>1, <2>1, TakeBundleAccepts
  <2> QED BY <2>2 DEF AnsweredByNow, Answered
<1>2. ASSUME NEW w \in Worker, TakeBlock(w) PROVE AnsweredByNow
  <2>1. PICK h, time : h = task[w].request.hashes /\ time = task[w].time
    OBVIOUS
  <2>2. h \in RewardHashes /\ time \in 0 .. now /\ FarmBlock(h[1], h[2], time)
    BY <1>2, <2>1, TakeBlockFarms
  <2> QED BY <2>2 DEF AnsweredByNow, Answered
<1>3. ASSUME NEW ms \in Skip, MoveClock(ms) PROVE LeftAlone
  BY <1>3, ClockAssumption DEF MoveClock, SkipMilliseconds, LeftAlone
<1>4. ASSUME NEW w \in Worker,
             \/ \E request \in Request : Submit(w, request)
             \/ Begin(w) \/ ReadCoins(w) \/ ReadUnspents(w) \/ Refuse(w) \/ Continue(w)
      PROVE  LeftAlone
  BY <1>4 DEF Submit, Begin, ReadCoins, ReadUnspents, Refuse, Continue, vars, viewVars,
     LeftAlone
<1>5. CASE UNCHANGED asyncVars
  BY <1>5 DEF asyncVars, vars, viewVars, LeftAlone
<1> QED BY <1>1, <1>2, <1>3, <1>4, <1>5 DEF AsyncNext, Step

LEMMA AsyncPendingInductive == AsyncSpec => [](PendingInStores /\ PendingIsLegal)
<1>1. AsyncInit => PendingInStores /\ PendingIsLegal
  <2> SUFFICES ASSUME AsyncInit PROVE PendingInStores /\ PendingIsLegal
    OBVIOUS
  <2>1. spend_bundle = EmptyBundle
    BY DEF AsyncInit, Init
  <2> QED BY <2>1, NothingPending, EmptyIsLegal DEF PendingInStores, PendingIsLegal
<1>2. AsyncIInv /\ PendingInStores /\ PendingIsLegal /\ [AsyncNext]_asyncVars
        => PendingInStores' /\ PendingIsLegal'
  <2> SUFFICES ASSUME AsyncIInv, PendingInStores, PendingIsLegal, [AsyncNext]_asyncVars
               PROVE  PendingInStores' /\ PendingIsLegal'
    OBVIOUS
  <2>1. IInv
    BY DEF AsyncIInv
  <2>2. ASSUME NEW time \in 0 .. now, Answered(time)
        PROVE  PendingInStores' /\ PendingIsLegal'
    <3>1. time \in Nat
      BY <2>1 DEF IInv, TypeOK
    <3> QED BY <2>1, <2>2, <3>1, InStoresAnswered, LegalAnswered
  <2>3. CASE LeftAlone
    BY <2>1, <2>3, PendingLater DEF LeftAlone
  <2> QED BY <2>2, <2>3, LedgerSteps DEF AnsweredByNow
<1> QED BY <1>1, <1>2, AsyncInductive, PTL DEF AsyncSpec

LEMMA AsyncSupply == AsyncSpec => []SupplyConserved
<1>1. AsyncInit => SupplyConserved
  BY InitialSupply DEF AsyncInit
<1>2. AsyncIInv /\ SupplyConserved /\ [AsyncNext]_asyncVars => SupplyConserved'
  <2> SUFFICES ASSUME AsyncIInv, SupplyConserved, [AsyncNext]_asyncVars
               PROVE  SupplyConserved'
    OBVIOUS
  <2>1. ASSUME NEW time \in 0 .. now, Answered(time) PROVE SupplyConserved'
    BY <2>1, SupplyAnswered DEF AsyncIInv, IInv, TypeOK
  <2>2. CASE LeftAlone
    BY <2>2 DEF LeftAlone, viewVars, SupplyConserved, ChainAdditions, ChainRemovals, tip_index
  <2> QED BY <2>1, <2>2, LedgerSteps DEF AnsweredByNow
<1> QED BY <1>1, <1>2, AsyncInductive, PTL DEF AsyncSpec

\* What holds of the ledger whose requests are single steps holds in every
\* state of the interleaved one, with requests half done: no double spend,
\* nothing spent that was not created, no money from nothing, and no stray
\* coins but the rewards of trial blocks.
THEOREM AsyncMoneyCorrect ==
    AsyncSpec => [](/\ NoDoubleSpend /\ SpentWereCreated
                    /\ SupplyConserved /\ StrayCoinsAreTrialRewards)
<1>1. AsyncIInv => NoDoubleSpend /\ SpentWereCreated /\ StrayCoinsAreTrialRewards
  BY ViewNoDoubleSpend DEF AsyncIInv, IInv, ViewIInv
<1> QED BY <1>1, AsyncInductive, AsyncSupply, PTL

\* Whatever requests are under way, a bundle would be accepted now exactly if
\* it is legal on the chain with what is pending, and what is pending can be
\* farmed now, as long as a timestamp can hold the clock.
THEOREM AsyncMempoolCorrect == AsyncSpec => [](PushTxJudgesByChain /\ MempoolFarmable)
<1>1. AsyncIInv /\ PendingInStores /\ PendingIsLegal => PushTxJudgesByChain /\ MempoolFarmable
  BY JudgedByChain, PendingIsFarmable DEF AsyncIInv
<1> QED BY <1>1, AsyncInductive, AsyncPendingInductive, PTL

\* The interleaved ledger implements UtxoLedger: of all the steps of all the
\* requests only the last one of next_block shows, a spent coin stays spent and
\* no coin on the chain moves to another block.
THEOREM AsyncUtxoRefinement == AsyncSpec => ImplementsUtxoLedger /\ SpentRecordsAreFinal
<1>1. AsyncInit => Utxo!UtxoInit
  BY UtxoInitially DEF AsyncInit
<1>2. /\ AsyncIInv /\ SupplyConserved /\ AsyncIInv' /\ SupplyConserved'
      /\ [AsyncNext]_asyncVars
      => [Utxo!Block]_(Utxo!utxoVars)
  <2> SUFFICES ASSUME AsyncIInv, SupplyConserved, AsyncIInv', SupplyConserved',
                      [AsyncNext]_asyncVars
               PROVE  Utxo!Block \/ UNCHANGED <<SpendableCoins, SpentCoins, tip_index>>
    BY DEF Utxo!utxoVars
  <2>1. IInv /\ IInv'
    BY DEF AsyncIInv
  <2>2. ASSUME NEW time \in 0 .. now, Answered(time)
        PROVE  Utxo!Block \/ UNCHANGED <<SpendableCoins, SpentCoins, tip_index>>
    <3>1. time \in Nat
      BY <2>1 DEF IInv, TypeOK
    <3> QED BY <2>1, <2>2, <3>1, UtxoAnswered
  <2>3. CASE LeftAlone
    BY <2>1, <2>3, OthersStutter DEF LeftAlone, viewVars
  <2> QED BY <2>2, <2>3, LedgerSteps DEF AnsweredByNow
<1>3. AsyncIInv /\ [AsyncNext]_asyncVars => [SpentKept /\ CreationKept]_vars
  <2> SUFFICES ASSUME AsyncIInv, [AsyncNext]_asyncVars PROVE SpentKept /\ CreationKept
    OBVIOUS
  <2>1. IInv
    BY DEF AsyncIInv
  <2>2. ASSUME NEW time \in 0 .. now, Answered(time) PROVE SpentKept /\ CreationKept
    <3>1. time \in Nat
      BY <2>1 DEF IInv, TypeOK
    <3> QED BY <2>1, <2>2, <3>1, StepWrites, RecordsKept
  <2>3. CASE LeftAlone
    BY <2>1, <2>3, RecordsKept DEF LeftAlone
  <2> QED BY <2>2, <2>3, LedgerSteps DEF AnsweredByNow
<1> QED
  BY <1>1, <1>2, <1>3, AsyncInductive, AsyncSupply, PTL
     DEF AsyncSpec, ImplementsUtxoLedger, Utxo!UtxoSpec, SpentRecordsAreFinal, SpentKept,
         CreationKept

-----------------------------------------------------------------------------
(* Waiting for the lock: the argument RequestsAnswered rests on *)

\* The head of the lock is the one worker whose turn it is.
LEMMA HeadHasTurn ==
  ASSUME AsyncIInv, NEW w \in Worker, pc[w] # "idle"
  PROVE  /\ lock # <<>> /\ Head(lock) \in Worker
         /\ HasTurn(Head(lock))
<1>1. lock \in Seq(Worker) /\ Len(lock) \in Nat /\ DOMAIN lock = 1 .. Len(lock)
  BY LenProperties DEF AsyncIInv
<1>2. PICK i \in DOMAIN lock : lock[i] = w
  BY DEF AsyncIInv, LockOK
<1>3. lock # <<>> /\ 1 \in DOMAIN lock /\ Head(lock) = lock[1]
  BY <1>1, <1>2, EmptySeq, HeadTailProperties
<1>4. lock[1] \in Worker
  BY <1>1, <1>3, ElementOfSeq
<1>5. pc[lock[1]] \in PC \ {"idle"}
  BY <1>3, <1>4 DEF AsyncIInv, LockOK
<1> QED BY <1>3, <1>4, <1>5 DEF HasTurn, Inside, PC

\* A request that waits never waits for nobody: unless the process is stopped
\* in the debugger, the head of the lock can take a step.
THEOREM NobodyIsStranded == AsyncSpec => []SomeoneCanGoOn
<1>1. AsyncIInv => SomeoneCanGoOn
  <2> SUFFICES ASSUME AsyncIInv, NEW w \in Worker, pc[w] # "idle", ~Stopped
               PROVE  \E v \in Worker : Ready(v)
    BY DEF SomeoneCanGoOn, Busy
  <2>1. Head(lock) \in Worker /\ HasTurn(Head(lock))
    BY HeadHasTurn
  <2>2. pc[Head(lock)] # "debugger"
    BY <2>1 DEF Stopped
  <2>3. Ready(Head(lock))
    BY <2>1, <2>2 DEF Ready, HasTurn, Inside
  <2> QED BY <2>1, <2>3
<1> QED BY <1>1, AsyncInductive, PTL

\* What a step does to the lock
MovesTo(v, stage) ==
    /\ HasTurn(v) /\ lock' = lock
    /\ pc' = [pc EXCEPT ![v] = stage]
    /\ StepsLeft(stage) < StepsLeft(pc[v])

Moves(v) == \E stage \in PC \ {"idle"} : MovesTo(v, stage)

Leaves(v) == HasTurn(v) /\ lock' = Tail(lock) /\ pc' = [pc EXCEPT ![v] = "idle"]

Joins(v) ==
    pc[v] = "idle" /\ lock' = Append(lock, v) /\ pc' = [pc EXCEPT ![v] = "waiting"]

LEMMA Stages ==
  /\ {"coins", "unspents", "checks", "debugger"} \subseteq PC \ {"idle"}
  /\ StepsLeft("checks") = 1 /\ StepsLeft("debugger") = 1
  /\ StepsLeft("unspents") = 2 /\ StepsLeft("coins") = 3 /\ StepsLeft("waiting") = 4
  /\ \A stage \in PC \ {"idle"} : StepsLeft(stage) \in 1 .. 4
BY DEF PC, StepsLeft

LEMMA StepKinds ==
  ASSUME AsyncIInv, [AsyncNext]_asyncVars
  PROVE  \/ \E v \in Worker : Moves(v) \/ Leaves(v) \/ Joins(v)
         \/ lock' = lock /\ pc' = pc
<1>1. ASSUME NEW v \in Worker, NEW request \in Request, Submit(v, request)
      PROVE  Joins(v) \/ (lock' = lock /\ pc' = pc)
  BY <1>1 DEF Submit, Joins
<1>2. ASSUME NEW v \in Worker, Begin(v) PROVE Moves(v) \/ Leaves(v)
  <2>1. HasTurn(v) /\ pc[v] = "waiting" /\ StartBody(v)
    BY <1>2 DEF Begin, HasTurn
  <2>2. \/ pc' = [pc EXCEPT ![v] = "coins"] /\ lock' = lock
        \/ lock' = Tail(lock) /\ pc' = [pc EXCEPT ![v] = "idle"]
    BY <2>1 DEF StartBody, Answer
  <2>3. ASSUME pc' = [pc EXCEPT ![v] = "coins"], lock' = lock PROVE MovesTo(v, "coins")
    BY <2>1, <2>3, Stages DEF MovesTo
  <2> QED BY <2>1, <2>2, <2>3, Stages DEF Moves, Leaves
<1>3. ASSUME NEW v \in Worker, ReadCoins(v) PROVE Moves(v) \/ Leaves(v)
  <2>1. HasTurn(v) /\ pc[v] = "coins"
    BY <1>3 DEF ReadCoins, HasTurn, Inside
  <2>2. \/ \E stage \in {"debugger", "unspents"} :
                pc' = [pc EXCEPT ![v] = stage] /\ lock' = lock
        \/ lock' = Tail(lock) /\ pc' = [pc EXCEPT ![v] = "idle"]
    BY <1>3 DEF ReadCoins, Answer
  <2>3. ASSUME NEW stage \in {"debugger", "unspents"},
               pc' = [pc EXCEPT ![v] = stage], lock' = lock
        PROVE  MovesTo(v, stage)
    BY <2>1, <2>3, Stages DEF MovesTo
  <2> QED BY <2>1, <2>2, <2>3, Stages DEF Moves, Leaves
<1>4. ASSUME NEW v \in Worker, ReadUnspents(v) PROVE Moves(v)
  <2>1. HasTurn(v) /\ pc[v] = "unspents"
    BY <1>4 DEF ReadUnspents, HasTurn, Inside
  <2>2. MovesTo(v, "checks")
    BY <1>4, <2>1, Stages DEF ReadUnspents, MovesTo
  <2> QED BY <2>2, Stages DEF Moves
<1>5. ASSUME NEW v \in Worker, TakeBundle(v) \/ TakeBlock(v) \/ Refuse(v) \/ Continue(v)
      PROVE  Leaves(v)
  <2>1. HasTurn(v)
    BY <1>5 DEF TakeBundle, TakeBlock, Extend, Refuse, Continue, HasTurn, Inside
  <2> QED BY <1>5, <2>1 DEF TakeBundle, TakeBlock, Extend, Refuse, Continue, Answer, Leaves
<1>6. ASSUME NEW ms \in Skip, MoveClock(ms) PROVE lock' = lock /\ pc' = pc
  BY <1>6 DEF MoveClock
<1>7. CASE UNCHANGED asyncVars
  BY <1>7 DEF asyncVars
<1> QED BY <1>1, <1>2, <1>3, <1>4, <1>5, <1>6, <1>7 DEF AsyncNext, Step

LEMMA OnePlace ==
  ASSUME NEW q, NEW i \in DOMAIN q, \A j, k \in DOMAIN q : q[j] = q[k] => j = k
  PROVE  (CHOOSE j \in DOMAIN q : q[j] = q[i]) = i
OBVIOUS

LEMMA PlaceIs ==
  ASSUME AsyncIInv, NEW i \in DOMAIN lock
  PROVE  Place(lock[i]) = i
<1>1. \A j, k \in DOMAIN lock : lock[j] = lock[k] => j = k
  BY DEF AsyncIInv, LockOK
<1> QED BY <1>1, OnePlace DEF Place

\* Everybody in the lock has a place and a number of steps to wait for.
LEMMA TurnsFacts ==
  ASSUME AsyncIInv, NEW w \in Worker, pc[w] # "idle"
  PROVE  \E i \in 1 .. Len(lock) : \E left \in 1 .. 4 :
            /\ lock[i] = w /\ Place(w) = i
            /\ left = StepsLeft(pc[Head(lock)])
            /\ TurnsLeft(w) = 4 * (i - 1) + left
<1>1. lock \in Seq(Worker) /\ DOMAIN lock = 1 .. Len(lock) /\ Len(lock) \in Nat
  BY LenProperties DEF AsyncIInv
<1>2. PICK i \in DOMAIN lock : lock[i] = w
  BY DEF AsyncIInv, LockOK
<1>3. Place(w) = i
  BY <1>2, PlaceIs
<1>4. PICK left : left = StepsLeft(pc[Head(lock)])
  OBVIOUS
<1>5. left \in 1 .. 4
  BY <1>4, HeadHasTurn DEF HasTurn, Inside, StepsLeft
<1> QED BY <1>1, <1>2, <1>3, <1>4, <1>5 DEF TurnsLeft

Turns(i, left) == 4 * (i - 1) + left

\* The same in the next state, by the places alone.
LEMMA TurnsNext ==
  ASSUME AsyncIInv', NEW w, NEW i \in DOMAIN lock', lock'[i] = w,
         NEW left, left = StepsLeft(pc[Head(lock)])'
  PROVE  TurnsLeft(w)' = Turns(i, left)
<1>1. \A j, k \in DOMAIN lock' : lock'[j] = lock'[k] => j = k
  BY DEF AsyncIInv, LockOK
<1>2. (CHOOSE j \in DOMAIN lock' : lock'[j] = lock'[i]) = i
  BY <1>1, OnePlace
<1> QED BY <1>2 DEF TurnsLeft, Place, Turns

LEMMA TurnOfHead ==
  ASSUME AsyncIInv, AsyncIInv', NEW w \in Worker, pc[w] # "idle",
         NEW v \in Worker, Moves(v)
  PROVE  TurnsLeft(w)' < TurnsLeft(w)
<1>1. PICK stage \in PC \ {"idle"} : MovesTo(v, stage)
  BY DEF Moves
<1>2. /\ HasTurn(v) /\ lock' = lock /\ pc' = [pc EXCEPT ![v] = stage]
      /\ StepsLeft(stage) < StepsLeft(pc[v])
  BY <1>1 DEF MovesTo
<1>3. Head(lock) = v /\ Head(lock') = v /\ pc'[v] = stage
  BY <1>2, LockHeld DEF AsyncIInv
<1>4. PICK i \in 1 .. Len(lock), left \in 1 .. 4 :
        /\ lock[i] = w /\ left = StepsLeft(pc[Head(lock)])
        /\ TurnsLeft(w) = 4 * (i - 1) + left
  BY TurnsFacts
<1>5. i \in DOMAIN lock' /\ lock'[i] = w /\ i \in Int
  BY <1>2, <1>4, LenProperties DEF AsyncIInv
<1>6. PICK less : less = StepsLeft(stage)
  OBVIOUS
<1>7. less \in 1 .. 4 /\ less < left
  <2>1. less \in 1 .. 4
    BY <1>6, Stages
  <2> QED BY <1>2, <1>3, <1>4, <1>6, <2>1
<1>8. TurnsLeft(w)' = Turns(i, less)
  <2>1. less = StepsLeft(pc[Head(lock)])'
    BY <1>3, <1>6 DEF StepsLeft
  <2> QED BY <1>5, <2>1, TurnsNext
<1>9. Turns(i, less) < Turns(i, left)
  <2>1. i \in Int /\ less \in Int /\ left \in Int /\ less < left
    BY <1>5, <1>7
  <2> QED BY <2>1 DEF Turns
<1>10. TurnsLeft(w) = Turns(i, left)
  BY <1>4 DEF Turns
<1> QED BY <1>8, <1>9, <1>10

\* The next in the lock has all its steps before it, one fewer than it had
\* with the last step of the one that leaves.
LEMMA HandedOn ==
  ASSUME AsyncIInv, AsyncIInv', NEW w \in Worker, pc[w] # "idle", pc'[w] # "idle",
         NEW v \in Worker, Leaves(v)
  PROVE  TurnsLeft(w)' < TurnsLeft(w)
<1>1. HasTurn(v) /\ lock' = Tail(lock) /\ pc' = [pc EXCEPT ![v] = "idle"]
  BY DEF Leaves
<1>2. /\ Len(lock) \in Nat /\ DOMAIN lock = 1 .. Len(lock) /\ lock # <<>>
      /\ lock[1] = v /\ lock \in Seq(Worker)
  BY <1>1, LockHeld DEF AsyncIInv
<1>3. PICK i \in 1 .. Len(lock), left \in 1 .. 4 :
        lock[i] = w /\ TurnsLeft(w) = 4 * (i - 1) + left
  BY TurnsFacts
<1>4. i # 1 /\ i \in Int /\ i >= 1
  BY <1>1, <1>2, <1>3 DEF AsyncIInv
<1>5. /\ Len(lock') = Len(lock) - 1 /\ lock' \in Seq(Worker)
      /\ \A k \in 1 .. Len(lock') : lock'[k] = lock[k + 1]
  BY <1>1, <1>2, HeadTailProperties
<1>6. DOMAIN lock' = 1 .. Len(lock) - 1
  BY <1>5, LenProperties
<1>7. PICK j : j = i - 1
  OBVIOUS
<1>8. j \in DOMAIN lock' /\ lock'[j] = w /\ j \in Int
  <2>1. j \in 1 .. Len(lock') /\ j + 1 = i
    BY <1>2, <1>3, <1>4, <1>5, <1>7
  <2> QED BY <1>3, <1>5, <1>6, <2>1
<1>9. 4 = StepsLeft(pc[Head(lock)])'
  <2>1. 1 \in DOMAIN lock' /\ Head(lock') = lock'[1] /\ lock'[1] = lock[2]
    BY <1>2, <1>5, <1>6, <1>8, HeadTailProperties
  <2>2. 2 \in DOMAIN lock
    BY <1>2, <1>6, <2>1
  <2>3. pc[lock[2]] = "waiting" /\ lock[2] # v
    BY <1>2, <2>2 DEF AsyncIInv, LockOK
  <2>4. pc'[Head(lock')] = "waiting"
    <3>1. lock[2] \in Worker
      BY <1>2, <2>2, ElementOfSeq
    <3> QED BY <1>1, <2>1, <2>3, <3>1 DEF AsyncIInv
  <2> QED BY <2>4, Stages DEF StepsLeft
<1>10. TurnsLeft(w)' = Turns(j, 4)
  BY <1>8, <1>9, TurnsNext
<1> QED BY <1>3, <1>4, <1>7, <1>10 DEF Turns

\* Who comes later changes nothing for those who are there.
LEMMA NobodyOvertakes ==
  ASSUME AsyncIInv, AsyncIInv', NEW w \in Worker, pc[w] # "idle",
         NEW v \in Worker, Joins(v)
  PROVE  TurnsLeft(w)' = TurnsLeft(w)
<1>1. /\ pc[v] = "idle" /\ lock' = Append(lock, v) /\ pc' = [pc EXCEPT ![v] = "waiting"]
      /\ lock \in Seq(Worker) /\ Len(lock) \in Nat
  BY LenProperties DEF Joins, AsyncIInv
<1>2. PICK i \in 1 .. Len(lock), left \in 1 .. 4 :
        /\ lock[i] = w /\ left = StepsLeft(pc[Head(lock)])
        /\ TurnsLeft(w) = 4 * (i - 1) + left
  BY TurnsFacts
<1>3. /\ Len(lock') = Len(lock) + 1 /\ lock' \in Seq(Worker)
      /\ \A k \in 1 .. Len(lock) : lock'[k] = lock[k]
  BY <1>1, AppendProperties
<1>4. i \in DOMAIN lock' /\ lock'[i] = w /\ i \in Int
  <2>1. DOMAIN lock' = 1 .. Len(lock')
    BY <1>3, LenProperties
  <2>2. i \in 1 .. Len(lock') /\ i \in Int
    BY <1>1, <1>2, <1>3
  <2> QED BY <1>2, <1>3, <2>1, <2>2
<1>5. Head(lock') = Head(lock) /\ Head(lock) # v /\ Head(lock) \in Worker
  <2>1. lock # <<>> /\ HasTurn(Head(lock)) /\ Head(lock) \in Worker
    BY HeadHasTurn
  <2>2. Head(lock) = lock[1] /\ Head(lock') = lock'[1]
    BY <1>1, <1>3, <2>1, HeadTailProperties, EmptySeq
  <2>3. 1 \in 1 .. Len(lock)
    BY <1>1, <1>2
  <2> QED BY <1>1, <1>3, <2>1, <2>2, <2>3 DEF HasTurn, Inside
<1>6. pc'[Head(lock')] = pc[Head(lock)]
  BY <1>1, <1>5 DEF AsyncIInv
<1>7. left = StepsLeft(pc[Head(lock)])'
  BY <1>2, <1>6 DEF StepsLeft
<1>8. TurnsLeft(w)' = Turns(i, left)
  BY <1>4, <1>7, TurnsNext
<1> QED BY <1>2, <1>8 DEF Turns

\* Each step of a request brings every request that waits closer to its
\* answer, by a count that starts at four times its place in the lock and that
\* nothing sets back: a request is answered after at most that many steps.
THEOREM NobodyIsOvertaken == AsyncSpec => EveryTurnCounts
<1> DEFINE Counts == \A w \in Busy : pc'[w] # "idle" =>
                        IF \E v \in Busy : pc'[v] # pc[v]
                        THEN TurnsLeft(w)' < TurnsLeft(w)
                        ELSE TurnsLeft(w)' = TurnsLeft(w)
<1>1. AsyncIInv /\ AsyncIInv' /\ [AsyncNext]_asyncVars => [Counts]_asyncVars
  <2> SUFFICES ASSUME AsyncIInv, AsyncIInv', [AsyncNext]_asyncVars,
                      NEW w \in Worker, pc[w] # "idle", pc'[w] # "idle"
               PROVE  IF \E v \in Busy : pc'[v] # pc[v]
                      THEN TurnsLeft(w)' < TurnsLeft(w)
                      ELSE TurnsLeft(w)' = TurnsLeft(w)
    BY DEF Busy
  <2>1. ASSUME NEW v \in Worker, Moves(v) \/ Leaves(v)
        PROVE  TurnsLeft(w)' < TurnsLeft(w) /\ \E u \in Busy : pc'[u] # pc[u]
    <3>1. TurnsLeft(w)' < TurnsLeft(w)
      BY <2>1, TurnOfHead, HandedOn
    <3>2. pc[v] # "idle" /\ HasTurn(v)
      BY <2>1 DEF Moves, MovesTo, Leaves, HasTurn, Inside
    <3>3. pc'[v] # pc[v]
      <4>1. CASE Leaves(v)
        BY <3>2, <4>1 DEF Leaves, AsyncIInv
      <4>2. CASE Moves(v)
        <5>1. PICK stage \in PC \ {"idle"} : MovesTo(v, stage)
          BY <4>2 DEF Moves
        <5>2. pc'[v] = stage
          BY <5>1 DEF MovesTo, AsyncIInv
        <5>3. stage # pc[v]
          BY <3>2, <5>1 DEF MovesTo, StepsLeft, PC, HasTurn, Inside
        <5> QED BY <5>2, <5>3
      <4> QED BY <2>1, <4>1, <4>2
    <3> QED BY <3>1, <3>2, <3>3 DEF Busy
  <2>2. ASSUME NEW v \in Worker, Joins(v)
        PROVE  TurnsLeft(w)' = TurnsLeft(w) /\ ~\E u \in Busy : pc'[u] # pc[u]
    <3>1. \A u \in Worker : u # v => pc'[u] = pc[u]
      BY <2>2 DEF Joins, AsyncIInv
    <3> QED BY <2>2, <3>1, NobodyOvertakes DEF Joins, Busy
  <2>3. ASSUME lock' = lock, pc' = pc
        PROVE  TurnsLeft(w)' = TurnsLeft(w) /\ ~\E u \in Busy : pc'[u] # pc[u]
    BY <2>3 DEF TurnsLeft, Place, StepsLeft
  <2> QED BY <2>1, <2>2, <2>3, StepKinds
<1> QED BY <1>1, AsyncInductive, PTL DEF AsyncSpec, EveryTurnCounts
=============================================================================
