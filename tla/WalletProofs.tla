---------------------------- MODULE WalletProofs ----------------------------
(***************************************************************************)
(* The wallet's account is that of the chain and blocks spend coins only   *)
(* as their puzzles allow, for every keychain, every set of payments and   *)
(* chains of any length.  TLC checks the same properties on the instance   *)
(* of MCWallet.                                                            *)
(***************************************************************************)
EXTENDS Wallet, LedgerPendingProofs

-----------------------------------------------------------------------------
(* The walk from the tip to the client's header *)

\* Induction over an interval, with the property given by the set of numbers
\* that have it.
LEMMA IntervalInduction ==
  ASSUME NEW a \in Nat, NEW b \in Nat, NEW Good,
         a \in Good, \A t \in a + 1 .. b : t - 1 \in Good => t \in Good
  PROVE  a .. b \subseteq Good
<1> DEFINE Bad == {t \in a .. b : t \notin Good}
<1> SUFFICES ASSUME Bad # {} PROVE FALSE
  OBVIOUS
<1>1. PICK t \in Bad : \A u \in Bad : t <= u
  <2>1. Bad \in SUBSET Nat
    OBVIOUS
  <2> HIDE DEF Bad
  <2> QED BY <2>1, LeastNat
<1>2. t \in a .. b /\ t \notin Good /\ t # a
  OBVIOUS
<1>3. t - 1 \in a .. b /\ t \in a + 1 .. b /\ ~(t <= t - 1)
  BY <1>2
<1>4. t - 1 \in Good
  BY <1>1, <1>3
<1> QED BY <1>2, <1>3, <1>4

IsWalk(header, w) ==
    w = [t \in header .. tip_index |->
            IF t = header THEN <<>>
            ELSE <<chain[t]>> \o (IF t - 1 = 1 THEN <<chain[1]>> ELSE <<>>) \o w[t - 1]]

\* How many blocks older than its own the client is given: block 1 once more.
Again(header, t) == IF header = 1 /\ t > 1 THEN 1 ELSE 0

\* The blocks from t down to the client's, newest first
Down(header, t) ==
    [k \in 1 .. t - header + Again(header, t) |-> chain[t + 1 - k]]

LEMMA DownStep ==
  ASSUME ViewTypeOK, NEW header \in Nat \ {0}, NEW t \in header + 1 .. tip_index
  PROVE  Down(header, t) =
            <<chain[t]>> \o (IF t - 1 = 1 THEN <<chain[1]>> ELSE <<>>) \o Down(header, t - 1)
<1>1. /\ tip_index \in Nat /\ DOMAIN chain = 1 .. tip_index
      /\ \A i \in DOMAIN chain : chain[i] \in Body
  BY TipIndex
<1>2. t \in Nat /\ t > 1 /\ header < t
  BY <1>1
<1>3. PICK n, m, d, e :
        /\ n = t - header + Again(header, t) /\ d = Down(header, t)
        /\ m = t - 1 - header + Again(header, t - 1) /\ e = Down(header, t - 1)
  OBVIOUS
<1>4. n \in Nat /\ m \in Nat /\ n <= t /\ m <= t - 1
  BY <1>2, <1>3 DEF Again
<1>5. /\ d \in Seq(Body) /\ Len(d) = n /\ \A k \in 1 .. n : d[k] = chain[t + 1 - k]
      /\ e \in Seq(Body) /\ Len(e) = m /\ \A k \in 1 .. m : e[k] = chain[t - k]
  <2>1. \A k \in 1 .. n : t + 1 - k \in 1 .. tip_index
    BY <1>1, <1>2, <1>4
  <2>2. \A k \in 1 .. m : t - k \in 1 .. tip_index /\ t - 1 + 1 - k = t - k
    BY <1>1, <1>2, <1>4
  <2>3. d = [k \in 1 .. n |-> chain[t + 1 - k]] /\ e = [k \in 1 .. m |-> chain[t - 1 + 1 - k]]
    BY <1>3 DEF Down
  <2>4. d \in Seq(Body) /\ Len(d) = n
    <3>1. \A k \in 1 .. n : chain[t + 1 - k] \in Body
      BY <1>1, <2>1
    <3>2. DOMAIN d = 1 .. n /\ \A k \in 1 .. n : d[k] \in Body
      BY <2>3, <3>1
    <3> QED BY <1>4, <2>3, <3>2
  <2>5. e \in Seq(Body) /\ Len(e) = m
    BY <1>1, <1>4, <2>2, <2>3
  <2> QED BY <2>2, <2>3, <2>4, <2>5
<1>6. PICK f : f = IF t - 1 = 1 THEN <<chain[1]>> ELSE <<>>
  OBVIOUS
<1>7. f \in Seq(Body) /\ <<chain[t]>> \in Seq(Body) /\ chain[1] \in Body
  BY <1>1, <1>2, <1>6
<1>8. CASE t = 2
  <2>1. header = 1 /\ n = 2 /\ m = 0 /\ f = <<chain[1]>>
    BY <1>2, <1>3, <1>6, <1>8 DEF Again
  <2>2. e = <<>>
    BY <1>5, <2>1
  <2>3. PICK g : g = <<chain[t]>>
    OBVIOUS
  <2>4. g \o f = d
    <3>1. /\ g \in Seq(Body) /\ Len(g) = 1 /\ g[1] = chain[2]
          /\ f \in Seq(Body) /\ Len(f) = 1 /\ f[1] = chain[1]
      BY <1>7, <1>8, <2>1, <2>3
    <3>2. /\ g \o f \in Seq(Body) /\ Len(g \o f) = 2
          /\ (g \o f)[1] = chain[2] /\ (g \o f)[2] = chain[1]
      BY <3>1, ConcatProperties
    <3>3. d[1] = chain[2] /\ d[2] = chain[1] /\ Len(d) = 2
      BY <1>5, <1>8, <2>1
    <3>4. \A k \in 1 .. 2 : (g \o f)[k] = d[k]
      BY <3>2, <3>3
    <3> QED BY <1>5, <3>2, <3>3, <3>4, SeqEqual
  <2>5. <<chain[t]>> \o f \o e = d
    BY <1>5, <2>2, <2>3, <2>4, ConcatEmptySeq
  <2> QED BY <1>3, <1>6, <2>5
<1>9. CASE t # 2
  <2>1. n = m + 1 /\ f = <<>>
    BY <1>2, <1>3, <1>6, <1>9 DEF Again
  <2>2. d = <<chain[t]>> \o e
    <3>1. /\ <<chain[t]>> \o e \in Seq(Body) /\ Len(<<chain[t]>> \o e) = 1 + m
          /\ \A k \in 1 .. 1 + m :
                (<<chain[t]>> \o e)[k] = IF k <= 1 THEN chain[t] ELSE e[k - 1]
      BY <1>4, <1>5, <1>7, ConcatProperties
    <3>2. \A k \in 1 .. n : d[k] = (<<chain[t]>> \o e)[k]
      <4> SUFFICES ASSUME NEW k \in 1 .. n PROVE d[k] = (<<chain[t]>> \o e)[k]
        OBVIOUS
      <4>1. CASE k = 1
        BY <1>2, <1>4, <1>5, <2>1, <3>1, <4>1
      <4>2. CASE k # 1
        <5>1. k - 1 \in 1 .. m /\ t - (k - 1) = t + 1 - k /\ ~(k <= 1) /\ k \in 1 .. 1 + m
          BY <1>2, <1>4, <2>1, <4>2
        <5> QED BY <1>5, <3>1, <5>1
      <4> QED BY <4>1, <4>2
    <3>3. Len(d) = Len(<<chain[t]>> \o e)
      BY <1>4, <1>5, <2>1, <3>1
    <3> QED BY <1>5, <3>1, <3>2, <3>3, SeqEqual
  <2>3. <<chain[t]>> \o f \o e = <<chain[t]>> \o e
    BY <1>7, <2>1, ConcatEmptySeq
  <2> QED BY <1>3, <1>6, <2>2, <2>3
<1> QED BY <1>8, <1>9

LEMMA WalkIs ==
  ASSUME ViewTypeOK, NEW header \in 1 .. tip_index
  PROVE  Walk(header) = Down(header, tip_index)
<1>1. tip_index \in Nat /\ header \in Nat \ {0} /\ tip_index \in header .. tip_index
  BY TipIndex
<1>2. Down(header, header) = <<>>
  BY <1>1 DEF Down, Again
<1> DEFINE down == [t \in header .. tip_index |-> Down(header, t)]
<1>3. IsWalk(header, down)
  <2>1. ASSUME NEW t \in header .. tip_index, t # header
        PROVE  down[t] = <<chain[t]>> \o (IF t - 1 = 1 THEN <<chain[1]>> ELSE <<>>) \o down[t - 1]
    <3>1. t \in header + 1 .. tip_index /\ t - 1 \in header .. tip_index
      BY <1>1, <2>1
    <3>2. down[t] = Down(header, t) /\ down[t - 1] = Down(header, t - 1)
      BY <3>1
    <3> HIDE DEF down
    <3> QED BY <1>1, <3>1, <3>2, DownStep
  <2>2. down[header] = <<>>
    BY <1>1, <1>2
  <2>3. down = [t \in header .. tip_index |-> down[t]]
    OBVIOUS
  <2> HIDE DEF down
  <2> QED BY <2>1, <2>2, <2>3 DEF IsWalk
<1>4. ASSUME NEW w, IsWalk(header, w) PROVE w = down
  <2> DEFINE Good == {t \in header .. tip_index : w[t] = down[t]}
  <2>1. header \in Good
    BY <1>1, <1>2, <1>4 DEF IsWalk
  <2>2. ASSUME NEW t \in header + 1 .. tip_index, t - 1 \in Good PROVE t \in Good
    <3>1. t \in header .. tip_index /\ t # header
      BY <1>1
    <3>2. /\ w[t] = <<chain[t]>> \o (IF t - 1 = 1 THEN <<chain[1]>> ELSE <<>>) \o w[t - 1]
          /\ down[t] = <<chain[t]>> \o (IF t - 1 = 1 THEN <<chain[1]>> ELSE <<>>) \o down[t - 1]
      <4> HIDE DEF down
      <4> QED BY <1>3, <1>4, <3>1 DEF IsWalk
    <3> HIDE DEF down
    <3> QED BY <2>2, <3>1, <3>2
  <2>3. header .. tip_index \subseteq Good
    <3> HIDE DEF Good
    <3> QED BY <1>1, <2>1, <2>2, IntervalInduction
  <2>4. \A t \in header .. tip_index : w[t] = down[t]
    BY <2>3
  <2>5. w = [t \in header .. tip_index |-> w[t]]
    BY <1>4 DEF IsWalk
  <2>6. down = [t \in header .. tip_index |-> down[t]]
    OBVIOUS
  <2> HIDE DEF down
  <2> QED BY <2>4, <2>5, <2>6
<1>5. down[tip_index] = Down(header, tip_index)
  BY <1>1
<1>6. Walk(header) = (CHOOSE w : IsWalk(header, w))[tip_index]
  BY DEF Walk, IsWalk
<1> HIDE DEF down
<1> QED BY <1>3, <1>4, <1>5, <1>6

\* The blocks of the chain from block m to the tip
From(m) == [i \in 1 .. tip_index + 1 - m |-> chain[m - 1 + i]]

\* The client gets every block after its own in the order of the chain, and
\* block 1 too if that is its own and not the tip.
LEMMA RecentBlocks ==
  ASSUME ViewTypeOK, NEW header \in 1 .. tip_index
  PROVE  do_get_recent_blocks(header) = From(header + 1 - Again(header, tip_index))
<1>1. tip_index \in Nat /\ header \in Nat \ {0} /\ header <= tip_index
  BY TipIndex
<1>2. PICK n, a : a = Again(header, tip_index) /\ n = tip_index - header + a
  OBVIOUS
<1>3. a \in 0 .. 1 /\ n \in Nat /\ tip_index + 1 - (header + 1 - a) = n
  BY <1>1, <1>2 DEF Again
<1>4. PICK d : d = Down(header, tip_index)
  OBVIOUS
<1>5. d = [k \in 1 .. n |-> chain[tip_index + 1 - k]]
  BY <1>2, <1>4 DEF Down
<1>6. Len(d) = n
  BY <1>3, <1>5
<1>7. do_get_recent_blocks(header) = [i \in 1 .. n |-> d[n - i + 1]]
  BY <1>4, <1>6, WalkIs DEF do_get_recent_blocks, Reverse
<1>8. \A i \in 1 .. n : d[n - i + 1] = chain[header + 1 - a - 1 + i]
  <2> SUFFICES ASSUME NEW i \in 1 .. n PROVE d[n - i + 1] = chain[header + 1 - a - 1 + i]
    OBVIOUS
  <2>1. n - i + 1 \in 1 .. n
    BY <1>3
  <2>2. tip_index + 1 - (n - i + 1) = header + 1 - a - 1 + i
    BY <1>1, <1>2, <1>3
  <2> QED BY <1>5, <2>1, <2>2
<1>9. From(header + 1 - a) = [i \in 1 .. n |-> chain[header + 1 - a - 1 + i]]
  BY <1>3 DEF From
<1>10. [i \in 1 .. n |-> d[n - i + 1]] = [i \in 1 .. n |-> chain[header + 1 - a - 1 + i]]
  BY <1>8
<1> QED BY <1>2, <1>7, <1>9, <1>10

-----------------------------------------------------------------------------
(* Replaying a list of bodies *)

LEMMA MaxIn ==
  ASSUME NEW n \in Nat, NEW S \in SUBSET (1 .. n), S # {}
  PROVE  Max(S) \in S /\ \A y \in S : y <= Max(S)
<1> DEFINE D == {n - x : x \in S}
<1>1. PICK d \in D : \A e \in D : d <= e
  <2>1. D \subseteq Nat /\ D # {}
    <3>1. \A x \in S : n - x \in Nat
      OBVIOUS
    <3> QED BY <3>1
  <2> HIDE DEF D
  <2> QED BY <2>1, LeastNat
<1>2. PICK x \in S : d = n - x
  OBVIOUS
<1>3. \A y \in S : x >= y
  <2> SUFFICES ASSUME NEW y \in S PROVE x >= y
    OBVIOUS
  <2>1. n - x <= n - y
    BY <1>1, <1>2
  <2>2. x \in Int /\ y \in Int
    OBVIOUS
  <2> QED BY <2>1, <2>2
<1>4. Max(S) \in S /\ \A y \in S : Max(S) >= y
  BY <1>3, Zenon DEF Max
<1>5. \A y \in S : y \in Int
  OBVIOUS
<1> QED BY <1>4, <1>5

IsReplay(account, bodies, g) ==
    g = [T \in SUBSET DOMAIN bodies |->
            IF T = {} THEN account
            ELSE (g[T \ {Max(T)}] \cup Additions(bodies[Max(T)])) \ Removals(bodies[Max(T)])]

\* A coin is left if it was there or a body added it, and no body removed it
\* then or later.
Left(account, bodies, T) ==
    {c \in account : \A l \in T : c \notin Removals(bodies[l])}
        \cup
    {c \in UNION {Additions(bodies[k]) : k \in T} :
        \E k \in T : /\ c \in Additions(bodies[k])
                     /\ \A l \in T : l >= k => c \notin Removals(bodies[l])}

LEMMA LeftStep ==
  ASSUME NEW account, NEW bodies, NEW n \in Nat, NEW T \in SUBSET (1 .. n), T # {}
  PROVE  Left(account, bodies, T) =
            (Left(account, bodies, T \ {Max(T)}) \cup Additions(bodies[Max(T)]))
                \ Removals(bodies[Max(T)])
<1>1. PICK m, U : m = Max(T) /\ U = T \ {m}
  OBVIOUS
<1>2. m \in T /\ (\A y \in T : y <= m) /\ T = U \cup {m} /\ m \notin U
  BY <1>1, MaxIn
<1>3. \A y \in T : y \in Int
  OBVIOUS
<1>4. ASSUME NEW c, c \in Left(account, bodies, T)
      PROVE  /\ c \in Left(account, bodies, U) \cup Additions(bodies[m])
             /\ c \notin Removals(bodies[m])
  <2>1. CASE c \in account /\ \A l \in T : c \notin Removals(bodies[l])
    BY <1>2, <2>1 DEF Left
  <2>2. CASE \E k \in T : /\ c \in Additions(bodies[k])
                          /\ \A l \in T : l >= k => c \notin Removals(bodies[l])
    <3>1. PICK k \in T : /\ c \in Additions(bodies[k])
                         /\ \A l \in T : l >= k => c \notin Removals(bodies[l])
      BY <2>2
    <3>2. m >= k
      BY <1>2, <1>3
    <3>3. c \notin Removals(bodies[m])
      BY <1>2, <3>1, <3>2
    <3>4. CASE k = m
      BY <3>1, <3>3, <3>4
    <3>5. CASE k # m
      <4>1. k \in U
        BY <1>2, <3>5
      <4> QED BY <1>2, <3>1, <3>3, <4>1 DEF Left
    <3> QED BY <3>4, <3>5
  <2> QED BY <1>4, <2>1, <2>2 DEF Left
<1>5. ASSUME NEW c, c \in Left(account, bodies, U) \cup Additions(bodies[m]),
             c \notin Removals(bodies[m])
      PROVE  c \in Left(account, bodies, T)
  <2>1. CASE c \in Additions(bodies[m])
    <3>1. \A l \in T : l >= m => l = m
      BY <1>2, <1>3
    <3> QED BY <1>2, <1>5, <2>1, <3>1 DEF Left
  <2>2. CASE c \in account /\ \A l \in U : c \notin Removals(bodies[l])
    BY <1>2, <1>5, <2>2 DEF Left
  <2>3. CASE \E k \in U : /\ c \in Additions(bodies[k])
                          /\ \A l \in U : l >= k => c \notin Removals(bodies[l])
    <3>1. PICK k \in U : /\ c \in Additions(bodies[k])
                         /\ \A l \in U : l >= k => c \notin Removals(bodies[l])
      BY <2>3
    <3>2. k \in T /\ \A l \in T : l >= k => c \notin Removals(bodies[l])
      BY <1>2, <1>5, <3>1
    <3> QED BY <3>1, <3>2 DEF Left
  <2> QED BY <1>5, <2>1, <2>2, <2>3 DEF Left
<1> QED BY <1>1, <1>4, <1>5

LEMMA ReplayIs ==
  ASSUME NEW account, NEW bodies, NEW n \in Nat, DOMAIN bodies = 1 .. n
  PROVE  Replay(account, bodies) = Left(account, bodies, 1 .. n)
<1> DEFINE left == [T \in SUBSET (1 .. n) |-> Left(account, bodies, T)]
<1>1. \A T \in SUBSET (1 .. n) : T # {} => T \ {Max(T)} \in SUBSET (1 .. n)
  OBVIOUS
<1>2. left[{}] = account
  BY DEF Left
<1>3. ASSUME NEW T \in SUBSET (1 .. n), T # {}
      PROVE  left[T] = (left[T \ {Max(T)}] \cup Additions(bodies[Max(T)]))
                            \ Removals(bodies[Max(T)])
  <2>1. left[T] = Left(account, bodies, T)
        /\ left[T \ {Max(T)}] = Left(account, bodies, T \ {Max(T)})
    BY <1>1
  <2> HIDE DEF left
  <2>2. Left(account, bodies, T) =
            (Left(account, bodies, T \ {Max(T)}) \cup Additions(bodies[Max(T)]))
                \ Removals(bodies[Max(T)])
    BY <1>3, LeftStep
  <2> QED BY <2>1, <2>2
<1>4. left = [T \in SUBSET (1 .. n) |-> left[T]]
  OBVIOUS
<1>5. left[1 .. n] = Left(account, bodies, 1 .. n)
  OBVIOUS
<1> HIDE DEF left
<1>6. IsReplay(account, bodies, left)
  BY <1>2, <1>3, <1>4 DEF IsReplay
<1>7. ASSUME NEW g, IsReplay(account, bodies, g) PROVE g = left
  <2> DEFINE Good == {T \in SUBSET (1 .. n) : g[T] = left[T]}
  <2>1. ASSUME NEW T \in SUBSET (1 .. n), \A U \in SUBSET T : U # T => U \in Good
        PROVE  T \in Good
    <3>1. CASE T = {}
      BY <1>2, <1>7, <3>1 DEF IsReplay
    <3>2. CASE T # {}
      <4>1. PICK m : m = Max(T) /\ m \in T
        BY <3>2, MaxIn
      <4>2. T \ {m} \in Good
        BY <2>1, <4>1
      <4>3. g[T] = (g[T \ {m}] \cup Additions(bodies[m])) \ Removals(bodies[m])
        BY <1>7, <3>2, <4>1 DEF IsReplay
      <4>4. left[T] = (left[T \ {m}] \cup Additions(bodies[m])) \ Removals(bodies[m])
        BY <1>3, <3>2, <4>1
      <4> QED BY <4>2, <4>3, <4>4
    <3> QED BY <3>1, <3>2
  <2>2. IsFiniteSet(1 .. n)
    BY FS_Interval
  <2>3. \A T \in SUBSET (1 .. n) : T \in Good
    <3> HIDE DEF Good
    <3>1. PICK S : S = 1 .. n
      OBVIOUS
    <3>2. /\ IsFiniteSet(S)
          /\ \A T \in SUBSET S : (\A U \in SUBSET T : U # T => U \in Good) => T \in Good
      BY <2>1, <2>2, <3>1
    <3>3. \A T \in SUBSET S : T \in Good
      BY <3>2, SubsetInduction
    <3> QED BY <3>1, <3>3
  <2>4. g = [T \in SUBSET (1 .. n) |-> g[T]]
    BY <1>7 DEF IsReplay
  <2> QED BY <1>4, <2>3, <2>4
<1>8. Replay(account, bodies) = (CHOOSE g : IsReplay(account, bodies, g))[DOMAIN bodies]
  BY DEF Replay, FoldLeft, MapThenFoldSet, IsReplay
<1> QED BY <1>5, <1>6, <1>7, <1>8

-----------------------------------------------------------------------------
(* The account after a replay *)

\* A coin is created once, and removed by its own block or a later one.
LEMMA CoinsInOrder ==
  ASSUME ViewIInv, NEW i \in 1 .. tip_index, NEW c \in Additions(chain[i])
  PROVE  /\ \A j \in 1 .. tip_index : c \in Additions(chain[j]) => j = i
         /\ \A l \in 1 .. tip_index : c \in Removals(chain[l]) => i <= l
<1>1. tip_index \in Nat /\ DOMAIN chain = 1 .. tip_index
  BY TipIndex DEF ViewIInv
<1>2. ASSUME NEW j \in 1 .. tip_index, c \in Additions(chain[j]) PROVE j = i
  BY <1>1, <1>2 DEF ViewIInv, ConfirmedMatches
<1>3. ASSUME NEW l \in 1 .. tip_index, c \in Removals(chain[l]) PROVE i <= l
  <2>1. PICK k \in 1 .. l : c \in Additions(chain[k])
    BY <1>1, <1>3 DEF ViewIInv, SpentWereCreated
  <2>2. k \in 1 .. tip_index /\ k <= l
    BY <1>1
  <2> QED BY <1>2, <2>1, <2>2
<1> QED BY <1>2, <1>3

LEMMA UnspentAfterIff ==
  ASSUME NEW n, NEW c
  PROVE  c \in UnspentAfter(n) <=>
            /\ \E i \in 1 .. n : c \in Additions(chain[i])
            /\ \A l \in 1 .. n : c \notin Removals(chain[l])
<1>1. PICK X, Y : /\ X = UNION {Additions(chain[i]) : i \in 1 .. n}
                  /\ Y = UNION {Removals(chain[i]) : i \in 1 .. n}
  OBVIOUS
<1>2. c \in X <=> \E i \in 1 .. n : c \in Additions(chain[i])
  BY <1>1
<1>3. c \in Y <=> \E l \in 1 .. n : c \in Removals(chain[l])
  BY <1>1
<1>4. UnspentAfter(n) = X \ Y
  BY <1>1 DEF UnspentAfter
<1> QED BY <1>2, <1>3, <1>4

\* Whatever the client has of the blocks up to seen, replaying every block from
\* one no later than the next brings it up to the tip.
LEMMA CaughtUp ==
  ASSUME ViewIInv, NEW m \in Nat \ {0}, NEW upto \in 0 .. tip_index, m <= upto + 1
  PROVE  Replay(UnspentAfter(upto), From(m)) = UnspentAfter(tip_index)
<1>1. tip_index \in Nat /\ DOMAIN chain = 1 .. tip_index
  BY TipIndex DEF ViewIInv
<1>2. PICK n : n = tip_index + 1 - m
  OBVIOUS
<1>3. n \in Nat /\ m - 1 + n = tip_index
  BY <1>1, <1>2
<1>4. PICK bodies : bodies = From(m)
  OBVIOUS
<1>5. DOMAIN bodies = 1 .. n /\ \A i \in 1 .. n : bodies[i] = chain[m - 1 + i]
  BY <1>2, <1>4 DEF From
<1>6. /\ \A i \in 1 .. n : m - 1 + i \in m .. tip_index
      /\ \A j \in m .. tip_index : j - m + 1 \in 1 .. n /\ bodies[j - m + 1] = chain[j]
  <2>1. \A j \in m .. tip_index : j - m + 1 \in 1 .. n /\ m - 1 + (j - m + 1) = j
    BY <1>1, <1>3
  <2>2. \A i \in 1 .. n : m - 1 + i \in m .. tip_index
    BY <1>1, <1>3
  <2> QED BY <1>5, <2>1, <2>2
<1>7. PICK account : account = UnspentAfter(upto)
  OBVIOUS
<1>8. \A c : c \in account <=>
        /\ \E i \in 1 .. upto : c \in Additions(chain[i])
        /\ \A l \in 1 .. upto : c \notin Removals(chain[l])
  BY <1>7, UnspentAfterIff
<1>9. \A c : c \in UnspentAfter(tip_index) <=>
        /\ \E i \in 1 .. tip_index : c \in Additions(chain[i])
        /\ \A l \in 1 .. tip_index : c \notin Removals(chain[l])
  BY UnspentAfterIff
<1>10. ASSUME NEW c \in UnspentAfter(tip_index)
       PROVE  c \in Left(account, bodies, 1 .. n)
  <2>1. PICK i \in 1 .. tip_index : c \in Additions(chain[i])
    BY <1>9
  <2>2. \A l \in 1 .. n : c \notin Removals(bodies[l])
    <3>1. \A l \in 1 .. n : m - 1 + l \in 1 .. tip_index
      BY <1>1, <1>6
    <3> QED BY <1>5, <1>9, <3>1
  <2>3. CASE i < m
    <3>1. i \in 1 .. upto /\ \A l \in 1 .. upto : l \in 1 .. tip_index
      BY <1>1, <2>3
    <3>2. c \in account
      BY <1>8, <1>9, <2>1, <3>1
    <3> QED BY <2>2, <3>2 DEF Left
  <2>4. CASE ~(i < m)
    <3>1. i \in m .. tip_index
      BY <1>1, <2>4
    <3> QED BY <1>6, <2>1, <2>2, <3>1 DEF Left
  <2> QED BY <2>3, <2>4
<1>11. ASSUME NEW c \in Left(account, bodies, 1 .. n)
       PROVE  c \in UnspentAfter(tip_index)
  <2>1. CASE c \in account /\ \A l \in 1 .. n : c \notin Removals(bodies[l])
    <3>1. PICK i \in 1 .. upto : c \in Additions(chain[i])
      BY <1>8, <2>1
    <3>2. ASSUME NEW l \in 1 .. tip_index PROVE c \notin Removals(chain[l])
      <4>1. CASE l \in 1 .. upto
        BY <1>8, <2>1, <4>1
      <4>2. CASE l \notin 1 .. upto
        <5>1. l \in m .. tip_index
          BY <1>1, <4>2
        <5> QED BY <1>6, <2>1, <5>1
      <4> QED BY <4>1, <4>2
    <3>3. i \in 1 .. tip_index
      BY <1>1
    <3> QED BY <1>9, <3>1, <3>2, <3>3
  <2>2. CASE \E k \in 1 .. n : /\ c \in Additions(bodies[k])
                               /\ \A l \in 1 .. n : l >= k => c \notin Removals(bodies[l])
    <3>1. PICK k \in 1 .. n : /\ c \in Additions(bodies[k])
                              /\ \A l \in 1 .. n : l >= k => c \notin Removals(bodies[l])
      BY <2>2
    <3>2. PICK i : i = m - 1 + k
      OBVIOUS
    <3>3. i \in 1 .. tip_index /\ i \in m .. tip_index /\ c \in Additions(chain[i])
      BY <1>1, <1>5, <1>6, <3>1, <3>2
    <3>4. ASSUME NEW l \in 1 .. tip_index, c \in Removals(chain[l]) PROVE FALSE
      <4>1. i <= l
        BY <3>3, <3>4, CoinsInOrder
      <4>2. l \in m .. tip_index /\ l - m + 1 >= k
        BY <1>1, <3>2, <3>3, <4>1
      <4> QED BY <1>6, <3>1, <3>4, <4>2
    <3> QED BY <1>9, <3>3, <3>4
  <2> QED BY <2>1, <2>2 DEF Left
<1>12. Replay(account, bodies) = Left(account, bodies, 1 .. n)
  BY <1>3, <1>5, ReplayIs
<1>13. Left(account, bodies, 1 .. n) = UnspentAfter(tip_index)
  BY <1>10, <1>11
<1> QED BY <1>4, <1>7, <1>12, <1>13

-----------------------------------------------------------------------------
(* The inductive invariant *)

\* A spend the puzzle of its coin allows, for what the keychain has signed
Authorised(sol) ==
    LET outs == sol.conditions.create_coin
    IN  \/ \E key \in Keychain :
            /\ sol.coin.puzzle_hash = puzzle_hash_for_index[key]
            /\ <<key, outs>> \in signed
        \/ /\ outs \in DOMAIN puzzle_hash_for_conditions
           /\ sol.coin.puzzle_hash = puzzle_hash_for_conditions[outs]

PendingAuthorised ==
    \A k \in DOMAIN spend_bundle.coin_solutions : Authorised(spend_bundle.coin_solutions[k])

Synced ==
    /\ synced \in Nat /\ asked \in Nat /\ seen \in Nat
    /\ synced <= asked /\ asked <= tip_index /\ seen <= tip_index

WalletIInv ==
    /\ IInv
    /\ Synced
    /\ AccountMatchesChain
    /\ signed \subseteq Keychain \X Payment
    /\ SpendsAuthorised
    /\ PendingAuthorised

\* The chain is the same or has one block more.
ChainGrows ==
    chain' = chain \/ \E body \in Body : chain' = Append(chain, body)

LEMMA ChainKept ==
  ASSUME ViewTypeOK, ChainGrows
  PROVE  /\ tip_index' \in Nat /\ tip_index <= tip_index'
         /\ DOMAIN chain \subseteq DOMAIN chain'
         /\ \A i \in DOMAIN chain : chain'[i] = chain[i]
<1>1. chain \in Seq(Body)
  BY DEF ViewTypeOK
<1>2. CASE chain' = chain
  BY <1>1, <1>2, LenProperties DEF tip_index
<1>3. CASE \E body \in Body : chain' = Append(chain, body)
  <2>1. PICK body \in Body : chain' = Append(chain, body)
    BY <1>3
  <2>2. /\ Len(chain') = Len(chain) + 1 /\ Len(chain) \in Nat
        /\ DOMAIN chain = 1 .. Len(chain) /\ DOMAIN chain' = 1 .. Len(chain')
        /\ \A i \in 1 .. Len(chain) : chain'[i] = chain[i]
    BY <1>1, <2>1, AppendProperties, LenProperties
  <2> QED BY <2>2 DEF tip_index
<1> QED BY <1>2, <1>3 DEF ChainGrows

LEMMA UnspentAfterKept ==
  ASSUME ViewTypeOK, ChainGrows, NEW n \in 0 .. tip_index
  PROVE  UnspentAfter(n)' = UnspentAfter(n)
<1>1. \A i \in 1 .. n : i \in DOMAIN chain /\ chain'[i] = chain[i]
  BY TipIndex, ChainKept
<1>2. {Additions(chain'[i]) : i \in 1 .. n} = {Additions(chain[i]) : i \in 1 .. n}
  BY <1>1
<1>3. {Removals(chain'[i]) : i \in 1 .. n} = {Removals(chain[i]) : i \in 1 .. n}
  BY <1>1
<1> QED BY <1>2, <1>3 DEF UnspentAfter

LEMMA WalletInitIInv == WalletInit => WalletIInv
<1> SUFFICES ASSUME WalletInit PROVE WalletIInv
  OBVIOUS
<1>1. /\ IInv /\ coins = {} /\ signed = {} /\ synced = 0 /\ asked = 0 /\ seen = 0
      /\ chain = <<>> /\ spend_bundle.coin_solutions = <<>>
  BY InitIInv DEF WalletInit, Init, ViewInit, EmptyBundle
<1>2. tip_index = 0
  BY <1>1 DEF tip_index
<1>3. UnspentAfter(0) = {}
  <2>1. \A c : c \notin UnspentAfter(0)
    BY UnspentAfterIff
  <2> QED BY <2>1
<1> QED BY <1>1, <1>2, <1>3
        DEF WalletIInv, Synced, AccountMatchesChain, SpendsAuthorised, PendingAuthorised

\* Steps that leave the account alone
LEMMA AccountKept ==
  ASSUME WalletIInv, ChainGrows, UNCHANGED <<coins, seen>>, synced' = synced
  PROVE  AccountMatchesChain' /\ seen' <= tip_index'
<1>1. ViewTypeOK /\ tip_index \in Nat /\ seen \in Nat /\ seen <= tip_index
  BY TipIndex DEF WalletIInv, Synced, IInv, ViewIInv
<1>2. PICK n : n = seen
  OBVIOUS
<1>3. UnspentAfter(n)' = UnspentAfter(n)
  BY <1>1, <1>2, UnspentAfterKept
<1>4. (UnspentAfter(seen))' = UnspentAfter(seen)
  BY <1>2, <1>3 DEF UnspentAfter
<1>5. tip_index <= tip_index' /\ tip_index' \in Nat
  BY <1>1, ChainKept
<1> QED BY <1>1, <1>4, <1>5 DEF WalletIInv, AccountMatchesChain

-----------------------------------------------------------------------------
(* The steps of the wallet *)

LEMMA SameSpends ==
  ASSUME SpendsAuthorised, PendingAuthorised,
         chain' = chain, spend_bundle' = spend_bundle, signed' = signed
  PROVE  SpendsAuthorised' /\ PendingAuthorised'
<1>1. SpendsAuthorised'
  BY DEF SpendsAuthorised, RemovedAt
<1>2. \A sol : Authorised(sol)' <=> Authorised(sol)
  BY DEF Authorised
<1>3. PendingAuthorised'
  BY <1>2 DEF PendingAuthorised
<1> QED BY <1>1, <1>3

LEMMA FetchStep ==
  ASSUME WalletIInv, NEW m \in Nat \ {0}, m <= seen + 1, Fetch(From(m))
  PROVE  WalletIInv'
<1>1. /\ coins' = Replay(coins, From(m)) /\ synced' = asked /\ seen' = tip_index
      /\ chain' = chain /\ unspent_db' = unspent_db /\ preimage_db' = preimage_db
      /\ spend_bundle' = spend_bundle /\ now' = now /\ reply' = reply
      /\ asked' = asked /\ signed' = signed
  BY DEF Fetch, vars
<1>2. ViewIInv /\ tip_index \in Nat /\ tip_index' = tip_index
  BY <1>1, TipIndex DEF WalletIInv, IInv, ViewIInv, tip_index
<1>3. seen \in 0 .. tip_index /\ coins = UnspentAfter(seen)
  BY <1>2 DEF WalletIInv, Synced, AccountMatchesChain
<1>4. coins' = UnspentAfter(tip_index)
  BY <1>1, <1>2, <1>3, CaughtUp
<1>5. (UnspentAfter(seen))' = UnspentAfter(tip_index)
  BY <1>1 DEF UnspentAfter
<1>6. Synced'
  BY <1>1, <1>2 DEF WalletIInv, Synced
<1>7. AccountMatchesChain'
  BY <1>1, <1>2, <1>4, <1>5 DEF AccountMatchesChain, WalletIInv, Synced
<1>8. IInv'
  BY <1>1, UnchangedStep DEF WalletIInv, IInv, TypeOK, viewVars
<1>9. SpendsAuthorised' /\ PendingAuthorised'
  BY <1>1, SameSpends DEF WalletIInv
<1> QED BY <1>1, <1>6, <1>7, <1>8, <1>9 DEF WalletIInv

LEMMA FetchAllStep ==
  ASSUME WalletIInv, FetchAll
  PROVE  WalletIInv'
<1>1. chain \in Seq(Body)
  BY DEF WalletIInv, IInv, ViewIInv, ViewTypeOK
<1>2. chain = [i \in 1 .. tip_index |-> chain[i]] /\ tip_index \in Nat
  BY <1>1, LenProperties DEF tip_index
<1>3. From(1) = [i \in 1 .. tip_index |-> chain[i]]
  BY <1>2 DEF From
<1>4. Fetch(From(1)) /\ 1 <= seen + 1
  BY <1>2, <1>3 DEF FetchAll, do_get_all_blocks, WalletIInv, Synced
<1> QED BY <1>4, FetchStep

LEMMA FetchRecentStep ==
  ASSUME WalletIInv, FetchRecent
  PROVE  WalletIInv'
<1>1. ViewTypeOK /\ tip_index \in Nat
  BY TipIndex DEF WalletIInv, IInv, ViewIInv
<1>2. /\ synced \in 1 .. tip_index /\ Fetch(do_get_recent_blocks(synced))
      /\ synced <= seen /\ seen \in Nat
  BY <1>1 DEF FetchRecent, WalletIInv, Synced, AccountMatchesChain
<1>3. PICK m : m = synced + 1 - Again(synced, tip_index)
  OBVIOUS
<1>4. m \in Nat \ {0} /\ m <= seen + 1
  BY <1>1, <1>2, <1>3 DEF Again
<1>5. Fetch(From(m))
  BY <1>1, <1>2, <1>3, RecentBlocks
<1> QED BY <1>4, <1>5, FetchStep

LEMMA GetTipStep ==
  ASSUME WalletIInv, GetTip
  PROVE  WalletIInv'
<1>1. /\ asked' = tip_index /\ coins' = coins /\ synced' = synced /\ seen' = seen
      /\ chain' = chain /\ unspent_db' = unspent_db /\ preimage_db' = preimage_db
      /\ spend_bundle' = spend_bundle /\ now' = now /\ reply' = reply
      /\ signed' = signed
  BY DEF GetTip, vars
<1>2. tip_index \in Nat /\ tip_index' = tip_index
  BY <1>1, TipIndex DEF WalletIInv, IInv, ViewIInv, tip_index
<1>3. Synced'
  BY <1>1, <1>2 DEF WalletIInv, Synced
<1>4. AccountMatchesChain'
  BY <1>1, AccountKept DEF ChainGrows
<1>5. IInv'
  BY <1>1, UnchangedStep DEF WalletIInv, IInv, TypeOK, viewVars
<1>6. SpendsAuthorised' /\ PendingAuthorised'
  BY <1>1, SameSpends DEF WalletIInv
<1> QED BY <1>1, <1>3, <1>4, <1>5, <1>6 DEF WalletIInv

-----------------------------------------------------------------------------
(* Payments *)

LEMMA SolutionsFacts ==
  ASSUME NEW coin \in Coin, NEW solution \in Solutions(coin)
  PROVE  /\ solution.coin = coin
         /\ solution \in CoinSolution
         /\ solution.conditions.agg_sig \in Signature
         /\ solution.puzzle_hash \notin {ZERO_PH, FF_PH}
         /\ LET outs == solution.conditions.create_coin
            IN  \/ \E key \in Key :
                    /\ outs \in Payment
                    /\ solution.puzzle_hash = puzzle_hash_for_index[key]
                    /\ PairsOf(solution) = {<<key, outs>>}
                \/ /\ outs \in DOMAIN puzzle_hash_for_conditions
                   /\ solution.puzzle_hash = puzzle_hash_for_conditions[outs]
                   /\ PairsOf(solution) = {}
<1>1. /\ Payment \subseteq Seq([puzzle_hash : PuzzleHash, amount : Int])
      /\ Key \X Payment \subseteq Pair
      /\ \A key \in Key : /\ puzzle_hash_for_index[key] \in PuzzleHash
                          /\ puzzle_hash_for_index[key] \notin {ZERO_PH, FF_PH}
      /\ \A outs \in DOMAIN puzzle_hash_for_conditions :
            /\ outs \in Payment
            /\ puzzle_hash_for_conditions[outs] \in PuzzleHash
            /\ puzzle_hash_for_conditions[outs] \notin {ZERO_PH, FF_PH}
  BY PuzzleAssumption DEF Range
<1>2. ASSUME NEW outs \in Payment, NEW agg_sig \in Signature
      PROVE  Conditions(outs, agg_sig) \in Condition
  BY <1>1, <1>2 DEF Conditions, Condition, Signature
<1>3. CASE \E outs \in Payment, key \in Key : solution = DelegatedSolution(coin, outs, key)
  <2>1. PICK outs \in Payment, key \in Key : solution = DelegatedSolution(coin, outs, key)
    BY <1>3
  <2>2. PICK sig : sig = [ZERO96 EXCEPT ![<<key, outs>>] = 1]
    OBVIOUS
  <2>3. <<key, outs>> \in Pair
    BY <1>1
  <2>4. sig \in Signature /\ \A pair \in Pair : sig[pair] > 0 <=> pair = <<key, outs>>
    BY <2>2, <2>3 DEF Signature, ZERO96
  <2>5. PICK cond : cond = Conditions(outs, sig)
    OBVIOUS
  <2>6. cond \in Condition /\ cond.create_coin = outs /\ cond.agg_sig = sig
    BY <1>2, <2>4, <2>5 DEF Conditions
  <2>7. solution = [coin |-> coin, puzzle_hash |-> puzzle_hash_for_index[key],
                    conditions |-> cond]
    BY <2>1, <2>2, <2>5 DEF DelegatedSolution
  <2>8. PairsOf(solution) = {<<key, outs>>}
    BY <2>3, <2>4, <2>6, <2>7 DEF PairsOf
  <2> QED BY <1>1, <2>4, <2>6, <2>7, <2>8 DEF CoinSolution
<1>4. CASE \E outs \in DOMAIN puzzle_hash_for_conditions : solution = FixedSolution(coin, outs)
  <2>1. PICK outs \in DOMAIN puzzle_hash_for_conditions : solution = FixedSolution(coin, outs)
    BY <1>4
  <2>2. ZERO96 \in Signature /\ \A pair \in Pair : ~(ZERO96[pair] > 0)
    BY DEF Signature, ZERO96
  <2>3. PICK sig, cond : sig = ZERO96 /\ cond = Conditions(outs, sig)
    OBVIOUS
  <2>4. cond \in Condition /\ cond.create_coin = outs /\ cond.agg_sig = sig
    BY <1>1, <1>2, <2>2, <2>3 DEF Conditions
  <2>5. solution = [coin |-> coin, puzzle_hash |-> puzzle_hash_for_conditions[outs],
                    conditions |-> cond]
    BY <2>1, <2>3 DEF FixedSolution
  <2>6. PairsOf(solution) = {}
    BY <2>2, <2>3, <2>4, <2>5 DEF PairsOf
  <2> QED BY <1>1, <2>2, <2>3, <2>4, <2>5, <2>6 DEF CoinSolution
<1> QED BY <1>3, <1>4 DEF Solutions

\* What one solution asks for, the keychain signs.
LEMMA PaymentSigned ==
  ASSUME NEW sol, sol.conditions.agg_sig \in Signature
  PROVE  HashKeyPairs(<<sol>>) = signature_for_solution(sol)
<1>1. PICK sols, sig : sols = <<sol>> /\ sig = sol.conditions.agg_sig
  OBVIOUS
<1>2. DOMAIN sols = {1} /\ sols[1].conditions.agg_sig = sig
  BY <1>1
<1>3. ASSUME NEW p \in Pair
      PROVE  SumFunction([i \in DOMAIN sols |-> sols[i].conditions.agg_sig[p]]) = sig[p]
  <2>1. PICK f : f = [i \in DOMAIN sols |-> sols[i].conditions.agg_sig[p]]
    OBVIOUS
  <2>2. DOMAIN f = {} \cup {1} /\ f[1] = sig[p] /\ f[1] \in Int
    BY <1>1, <1>2, <2>1 DEF Signature
  <2>3. SumFunctionOnSet(f, {} \cup {1}) = f[1] + SumFunctionOnSet(f, {})
    BY <2>2, SumAdd, FS_EmptySet
  <2>4. SumFunctionOnSet(f, {} \cup {1}) = f[1]
    BY <2>2, <2>3, SumOfNothing
  <2> QED BY <2>1, <2>2, <2>4 DEF SumFunction
<1>4. HashKeyPairs(sols) = [p \in Pair |-> sig[p]]
  BY <1>3 DEF HashKeyPairs
<1>5. sig = [p \in Pair |-> sig[p]]
  BY <1>1 DEF Signature
<1> QED BY <1>1, <1>4, <1>5 DEF signature_for_solution

\* A bundle of one solution is valid only with a signature of its pairs.
LEMMA SignedPairs ==
  ASSUME NEW meant,
         NEW solution, solution.conditions.agg_sig \in Signature,
         ValidSignature(signature_for_solution(meant), <<solution>>)
  PROVE  PairsOf(solution) \subseteq PairsOf(meant)
<1>1. HashKeyPairs(<<solution>>) = solution.conditions.agg_sig
  BY PaymentSigned DEF signature_for_solution
<1>2. \/ solution.conditions.agg_sig = ZERO96
      \/ solution.conditions.agg_sig = meant.conditions.agg_sig
  BY <1>1 DEF ValidSignature, signature_for_solution
<1> QED BY <1>2 DEF PairsOf, ZERO96

LEMMA AccountType ==
  ASSUME WalletIInv
  PROVE  coins \subseteq Coin
<1>1. UnspentAfter(seen) \subseteq ChainAdditions
  <2> SUFFICES ASSUME NEW c \in UnspentAfter(seen) PROVE c \in ChainAdditions
    OBVIOUS
  <2>1. PICK i \in 1 .. seen : c \in Additions(chain[i])
    BY UnspentAfterIff
  <2>2. i \in DOMAIN chain
    BY TipIndex DEF WalletIInv, Synced, IInv, ViewIInv
  <2> QED BY <2>1, <2>2 DEF ChainAdditions
<1>2. ChainAdditions \subseteq Coin
  BY ChainFinite DEF WalletIInv
<1> QED BY <1>1, <1>2 DEF WalletIInv, AccountMatchesChain

LEMMA AuthorisedKept ==
  ASSUME NEW sol, signed \subseteq signed', Authorised(sol)
  PROVE  Authorised(sol)'
BY DEF Authorised

\* A wallet's push: the solution that is sent may not be the one it signed.
Pushes(coin, meant, solution, tx) ==
    /\ tx = [coin_solutions |-> <<solution>>,
             aggregated_signature |-> signature_for_solution(meant)]
    /\ CanSign(meant)
    /\ signed' = signed \cup PairsOf(meant)

LEMMA PushedFacts ==
  ASSUME NEW coin \in Coin, NEW meant \in Solutions(coin), NEW solution \in Solutions(coin),
         NEW tx, Pushes(coin, meant, solution, tx)
  PROVE  /\ tx \in SpendBundle
         /\ tx.coin_solutions = <<solution>>
         /\ RevealsKnownPuzzles(tx.coin_solutions)
<1>1. solution \in CoinSolution /\ solution.puzzle_hash \notin {ZERO_PH, FF_PH}
  BY SolutionsFacts
<1>2. signature_for_solution(meant) \in Signature
  BY SolutionsFacts DEF signature_for_solution
<1>3. PICK sols : sols = <<solution>>
  OBVIOUS
<1>4. sols \in Seq(CoinSolution) /\ \A i \in DOMAIN sols : sols[i] = solution
  BY <1>1, <1>3
<1>5. tx = [coin_solutions |-> sols, aggregated_signature |-> signature_for_solution(meant)]
  BY <1>3 DEF Pushes
<1> QED BY <1>1, <1>2, <1>3, <1>4, <1>5 DEF SpendBundle, RevealsKnownPuzzles

\* What push_tx accepts its puzzle allows.
LEMMA AcceptedIsAuthorised ==
  ASSUME WalletIInv, NEW coin \in coins, NEW meant \in Solutions(coin),
         NEW solution \in Solutions(coin), NEW tx, Pushes(coin, meant, solution, tx),
         AllPass(PushTxChecks(tx, now))
  PROVE  Authorised(solution)'
<1>1. coin \in Coin
  BY AccountType
<1>2. /\ tx \in SpendBundle /\ tx.coin_solutions = <<solution>>
      /\ RevealsKnownPuzzles(tx.coin_solutions)
      /\ tx.aggregated_signature = signature_for_solution(meant)
  BY <1>1, PushedFacts DEF Pushes
<1>3. PICK agg, body : /\ agg = Aggregate(spend_bundle, tx)
                       /\ body = FarmedBody(agg, ZERO_PH, FF_PH)
  OBVIOUS
<1>4. Extends(body) /\ ValidSignature(tx.aggregated_signature, tx.coin_solutions)
  BY <1>2, <1>3, AcceptedTx DEF WalletIInv, IInv, TypeOK
<1>5. PairsOf(solution) \subseteq PairsOf(meant)
  BY <1>1, <1>2, <1>4, SolutionsFacts, SignedPairs
<1>6. solution.coin.puzzle_hash = solution.puzzle_hash
  <2>1. PICK ms, ts : ms = spend_bundle.coin_solutions /\ ts = tx.coin_solutions
    OBVIOUS
  <2>2. /\ ms \in Seq(CoinSolution) /\ ts \in Seq(CoinSolution)
        /\ Len(ts) = 1 /\ ts[1] = solution
    <3>1. ms \in Seq(CoinSolution) /\ ts \in Seq(CoinSolution)
      BY <1>2, <2>1 DEF WalletIInv, IInv, TypeOK, SpendBundle
    <3>2. ts = <<solution>>
      BY <1>2, <2>1
    <3> QED BY <3>1, <3>2
  <2>3. body.coin_solutions = ms \o ts
    BY <1>3, <2>1 DEF FarmedBody, Aggregate
  <2>4. PICK k : k = Len(ms) + 1
    OBVIOUS
  <2>5. Len(ms) \in Nat
    BY <2>2, LenProperties
  <2>6. k \in DOMAIN (ms \o ts) /\ (ms \o ts)[k] = solution
    <3>1. k \in 1 .. Len(ms) + Len(ts) /\ ~(k <= Len(ms)) /\ k - Len(ms) = 1
      BY <2>2, <2>4, <2>5
    <3>2. ms \o ts \in Seq(CoinSolution) /\ Len(ms \o ts) = Len(ms) + Len(ts)
      BY <2>2, ConcatProperties
    <3>3. DOMAIN (ms \o ts) = 1 .. Len(ms) + Len(ts)
      BY <3>2, LenProperties
    <3> QED BY <2>2, <3>1, <3>3, ConcatProperties
  <2>7. PuzzleMatches(body.coin_solutions[k])
    BY <1>4, <2>3, <2>6, AcceptedBlock DEF Extends, Extension
  <2> QED BY <2>3, <2>6, <2>7 DEF PuzzleMatches
<1>7. \A pair \in PairsOf(solution) : pair[1] \in Keychain /\ pair \in signed'
  BY <1>5 DEF Pushes, CanSign
<1>8. PICK outs : outs = solution.conditions.create_coin
  OBVIOUS
<1>9. CASE \E key \in Key : /\ solution.puzzle_hash = puzzle_hash_for_index[key]
                            /\ PairsOf(solution) = {<<key, outs>>}
  <2>1. PICK key \in Key : /\ solution.puzzle_hash = puzzle_hash_for_index[key]
                           /\ PairsOf(solution) = {<<key, outs>>}
    BY <1>9
  <2>2. key \in Keychain /\ <<key, outs>> \in signed'
    BY <1>7, <2>1
  <2> QED BY <1>6, <1>8, <2>1, <2>2 DEF Authorised
<1>10. CASE /\ outs \in DOMAIN puzzle_hash_for_conditions
            /\ solution.puzzle_hash = puzzle_hash_for_conditions[outs]
  BY <1>6, <1>8, <1>10 DEF Authorised
<1> QED BY <1>1, <1>8, <1>9, <1>10, SolutionsFacts

LEMMA PushStep ==
  ASSUME WalletIInv, NEW coin \in coins, NEW meant \in Solutions(coin),
         NEW solution \in Solutions(coin), NEW tx, Pushes(coin, meant, solution, tx),
         AcceptTx(tx, now) \/ RefuseTx(tx, now), UNCHANGED <<coins, synced, asked, seen>>
  PROVE  WalletIInv'
<1>1. coin \in Coin
  BY AccountType
<1>2. /\ tx \in SpendBundle /\ tx.coin_solutions = <<solution>>
      /\ RevealsKnownPuzzles(tx.coin_solutions)
  BY <1>1, PushedFacts
<1>3. chain' = chain /\ tip_index' = tip_index
  BY DEF AcceptTx, RefuseTx, viewVars, tip_index
<1>4. IInv'
  <2>1. CASE AcceptTx(tx, now)
    BY <1>2, <2>1, AcceptTxStep DEF WalletIInv, IInv, TypeOK
  <2>2. CASE RefuseTx(tx, now)
    <3>1. UNCHANGED <<viewVars, spend_bundle>> /\ now' = now /\ reply' \in Reply
      BY <1>2, <2>2, RefusalType DEF RefuseTx, WalletIInv, IInv, TypeOK
    <3> QED BY <3>1, UnchangedStep DEF WalletIInv, IInv, TypeOK
  <2> QED BY <2>1, <2>2
<1>5. Synced' /\ AccountMatchesChain'
  BY <1>3, AccountKept DEF WalletIInv, Synced, ChainGrows
<1>6. signed \subseteq signed' /\ signed' \subseteq Keychain \X Payment
  <2>1. PairsOf(meant) \subseteq Key \X Payment
    BY <1>1, SolutionsFacts, PuzzleAssumption
  <2>2. PairsOf(meant) \subseteq Keychain \X Payment
    BY <2>1 DEF Pushes, CanSign
  <2> QED BY <2>2 DEF Pushes, WalletIInv
<1>7. SpendsAuthorised'
  <2> SUFFICES ASSUME NEW i \in DOMAIN chain, NEW k \in DOMAIN chain[i].coin_solutions
               PROVE  Authorised(chain[i].coin_solutions[k])'
    BY <1>3 DEF SpendsAuthorised, Authorised, RemovedAt
  <2>1. PICK sol : sol = chain[i].coin_solutions[k]
    OBVIOUS
  <2>2. Authorised(sol)
    BY <2>1 DEF WalletIInv, SpendsAuthorised, Authorised, RemovedAt
  <2>3. Authorised(sol)'
    BY <1>6, <2>2, AuthorisedKept
  <2>4. chain'[i].coin_solutions[k] = sol
    BY <1>3, <2>1
  <2> QED BY <2>3, <2>4 DEF Authorised
<1>8. PendingAuthorised'
  <2>1. PICK ms, ts : ms = spend_bundle.coin_solutions /\ ts = tx.coin_solutions
    OBVIOUS
  <2>2. /\ ms \in Seq(CoinSolution) /\ ts \in Seq(CoinSolution)
        /\ \A k \in DOMAIN ms : Authorised(ms[k])'
    <3>1. ms \in Seq(CoinSolution) /\ ts \in Seq(CoinSolution)
      BY <1>2, <2>1 DEF WalletIInv, IInv, TypeOK, SpendBundle
    <3>2. ASSUME NEW k \in DOMAIN ms PROVE Authorised(ms[k])'
      <4>1. PICK sol : sol = ms[k]
        OBVIOUS
      <4>2. Authorised(sol)
        BY <2>1, <4>1 DEF WalletIInv, PendingAuthorised
      <4>3. Authorised(sol)'
        BY <1>6, <4>2, AuthorisedKept
      <4> QED BY <4>1, <4>3
    <3> QED BY <3>1, <3>2
  <2>3. CASE AcceptTx(tx, now)
    <3>1. PICK s : s = ms \o ts
      OBVIOUS
    <3>2. spend_bundle'.coin_solutions = s
      BY <2>1, <2>3, <3>1 DEF AcceptTx, Aggregate
    <3>3. Authorised(solution)'
      BY <2>3, AcceptedIsAuthorised DEF AcceptTx
    <3>4. ASSUME NEW k \in DOMAIN s PROVE (k \in DOMAIN ms /\ s[k] = ms[k]) \/ s[k] = solution
      <4>1. Len(ms) \in Nat /\ Len(ts) \in Nat
            /\ DOMAIN ms = 1 .. Len(ms) /\ DOMAIN ts = 1 .. Len(ts)
        BY <2>2, LenProperties
      <4>2. s \in Seq(CoinSolution) /\ Len(s) = Len(ms) + Len(ts)
        BY <2>2, <3>1, ConcatProperties
      <4>3. k \in 1 .. Len(ms) + Len(ts)
        BY <4>2, LenProperties
      <4>4. s[k] = IF k <= Len(ms) THEN ms[k] ELSE ts[k - Len(ms)]
        BY <2>2, <3>1, <4>3, ConcatProperties
      <4>5. \A l \in DOMAIN ts : ts[l] = solution
        BY <1>2, <2>1
      <4>6. CASE k <= Len(ms)
        BY <4>1, <4>3, <4>4, <4>6
      <4>7. CASE ~(k <= Len(ms))
        <5>1. k - Len(ms) \in DOMAIN ts
          BY <4>1, <4>3, <4>7
        <5> QED BY <4>4, <4>5, <4>7, <5>1
      <4> QED BY <4>6, <4>7
    <3>5. ASSUME NEW k \in DOMAIN s PROVE Authorised(s[k])'
      <4>1. PICK sol : sol = s[k]
        OBVIOUS
      <4>2. CASE sol = solution
        BY <3>3, <4>1, <4>2
      <4>3. CASE k \in DOMAIN ms /\ sol = ms[k]
        BY <2>2, <4>1, <4>3
      <4> QED BY <3>4, <4>1, <4>2, <4>3
    <3> QED BY <3>2, <3>5 DEF PendingAuthorised, Authorised
  <2>4. CASE RefuseTx(tx, now)
    <3>1. spend_bundle'.coin_solutions = ms
      BY <2>1, <2>4 DEF RefuseTx
    <3> QED BY <2>2, <3>1 DEF PendingAuthorised, Authorised
  <2> QED BY <2>3, <2>4
<1> QED BY <1>4, <1>5, <1>6, <1>7, <1>8 DEF WalletIInv

-----------------------------------------------------------------------------
(* Blocks *)

LEMMA WalletFarmStep ==
  ASSUME WalletIInv, NEW h \in RewardHashes, FarmBlock(h[1], h[2], now) \/ RefuseBlock(h[1], h[2], now),
         UNCHANGED walletVars
  PROVE  WalletIInv'
<1>1. coins' = coins /\ synced' = synced /\ asked' = asked /\ seen' = seen /\ signed' = signed
  BY DEF walletVars
<1>2. CASE RefuseBlock(h[1], h[2], now)
  <2>1. UNCHANGED <<viewVars, spend_bundle>> /\ now' = now /\ reply' \in Reply
    BY <1>2, RefusalType DEF RefuseBlock, WalletIInv, IInv, TypeOK
  <2>2. chain' = chain /\ spend_bundle' = spend_bundle /\ tip_index' = tip_index
    BY <2>1 DEF viewVars, tip_index
  <2>3. IInv'
    BY <2>1, UnchangedStep DEF WalletIInv, IInv, TypeOK
  <2>4. Synced' /\ AccountMatchesChain'
    BY <1>1, <2>2, AccountKept DEF WalletIInv, Synced, ChainGrows
  <2>5. SpendsAuthorised' /\ PendingAuthorised' /\ signed' \subseteq Keychain \X Payment
    BY <1>1, <2>2, SameSpends DEF WalletIInv
  <2> QED BY <2>3, <2>4, <2>5 DEF WalletIInv
<1>3. CASE FarmBlock(h[1], h[2], now)
  <2>1. PICK body : body = FarmedBody(spend_bundle, h[1], h[2])
    OBVIOUS
  <2>2. /\ chain' = Append(chain, body) /\ spend_bundle' = EmptyBundle
        /\ body.coin_solutions = spend_bundle.coin_solutions
        /\ AllPass(NewChainView(spend_bundle, h[1], h[2], now))
    BY <1>3, <2>1 DEF FarmBlock, FarmedBody
  <2>3. body \in Body
    BY <2>1, <2>2, HashAssumption, NewChainViewOK
       DEF WalletIInv, IInv, TypeOK, Extends, Extension
  <2>4. IInv'
    BY <1>3, FarmBlockStep DEF WalletIInv, IInv, TypeOK
  <2>5. ViewTypeOK /\ ChainGrows
    BY <2>2, <2>3 DEF WalletIInv, IInv, ViewIInv, ChainGrows
  <2>6. tip_index \in Nat /\ tip_index' \in Nat /\ tip_index <= tip_index'
    BY <2>5, TipIndex, ChainKept
  <2>7. Synced' /\ AccountMatchesChain'
    BY <1>1, <2>5, <2>6, AccountKept DEF WalletIInv, Synced
  <2>8. SpendsAuthorised'
    <3>1. /\ DOMAIN chain' = DOMAIN chain \cup {tip_index + 1}
          /\ \A i \in DOMAIN chain : chain'[i] = chain[i]
          /\ chain'[tip_index + 1] = body
      <4>1. chain \in Seq(Body)
        BY <2>5 DEF ViewTypeOK
      <4>2. /\ Len(chain') = Len(chain) + 1 /\ Len(chain) \in Nat
            /\ DOMAIN chain = 1 .. Len(chain) /\ DOMAIN chain' = 1 .. Len(chain')
            /\ \A i \in 1 .. Len(chain) : chain'[i] = chain[i]
            /\ chain'[Len(chain) + 1] = body
        BY <2>2, <2>3, <4>1, AppendProperties, LenProperties
      <4> QED BY <4>2 DEF tip_index
    <3> SUFFICES ASSUME NEW i \in DOMAIN chain', NEW k \in DOMAIN chain'[i].coin_solutions
                 PROVE  Authorised(chain[i].coin_solutions[k])'
      BY DEF SpendsAuthorised, Authorised, RemovedAt
    <3>2. PICK sol : sol = chain'[i].coin_solutions[k]
      OBVIOUS
    <3>3. Authorised(sol)
      <4>1. CASE i \in DOMAIN chain
        <5>1. k \in DOMAIN chain[i].coin_solutions /\ sol = chain[i].coin_solutions[k]
          BY <3>1, <3>2, <4>1
        <5> QED BY <4>1, <5>1 DEF WalletIInv, SpendsAuthorised, Authorised, RemovedAt
      <4>2. CASE i = tip_index + 1
        <5>1. /\ k \in DOMAIN spend_bundle.coin_solutions
              /\ sol = spend_bundle.coin_solutions[k]
          BY <2>2, <3>1, <3>2, <4>2
        <5> QED BY <5>1 DEF WalletIInv, PendingAuthorised
      <4> QED BY <3>1, <4>1, <4>2
    <3>4. Authorised(sol)'
      BY <1>1, <3>3, AuthorisedKept
    <3> QED BY <3>2, <3>4 DEF Authorised
  <2>9. PendingAuthorised'
    BY <2>2 DEF PendingAuthorised, EmptyBundle
  <2> QED BY <1>1, <2>4, <2>7, <2>8, <2>9 DEF WalletIInv
<1> QED BY <1>2, <1>3

LEMMA WalletStep == WalletIInv /\ [WalletNext]_<<vars, walletVars>> => WalletIInv'
<1> SUFFICES ASSUME WalletIInv, [WalletNext]_<<vars, walletVars>> PROVE WalletIInv'
  OBVIOUS
<1>1. CASE GetTip
  BY <1>1, GetTipStep
<1>2. CASE FetchAll
  BY <1>2, FetchAllStep
<1>3. CASE FetchRecent
  BY <1>3, FetchRecentStep
<1>4. CASE Pay
  <2>1. PICK coin \in coins : \E solution \in Solutions(coin) :
        /\ CanSign(solution)
        /\ signed' = signed \cup PairsOf(solution)
        /\ LET tx == build_spend_bundle(solution) IN AcceptTx(tx, now) \/ RefuseTx(tx, now)
        /\ UNCHANGED <<coins, synced, asked, seen>>
    BY <1>4 DEF Pay
  <2>2. PICK solution \in Solutions(coin) :
        /\ CanSign(solution)
        /\ signed' = signed \cup PairsOf(solution)
        /\ LET tx == build_spend_bundle(solution) IN AcceptTx(tx, now) \/ RefuseTx(tx, now)
        /\ UNCHANGED <<coins, synced, asked, seen>>
    BY <2>1
  <2>3. PICK tx : tx = build_spend_bundle(solution)
    OBVIOUS
  <2>4. Pushes(coin, solution, solution, tx) /\ (AcceptTx(tx, now) \/ RefuseTx(tx, now))
    BY <2>2, <2>3 DEF Pushes, build_spend_bundle
  <2> QED BY <2>2, <2>4, PushStep
<1>5. CASE PayOther
  <2>1. PICK coin \in coins : \E meant, solution \in Solutions(coin) :
        /\ CanSign(meant)
        /\ signed' = signed \cup PairsOf(meant)
        /\ LET tx == [coin_solutions |-> <<solution>>,
                      aggregated_signature |-> signature_for_solution(meant)]
           IN  AcceptTx(tx, now) \/ RefuseTx(tx, now)
        /\ UNCHANGED <<coins, synced, asked, seen>>
    BY <1>5 DEF PayOther
  <2>2. PICK meant \in Solutions(coin), solution \in Solutions(coin) :
        /\ CanSign(meant)
        /\ signed' = signed \cup PairsOf(meant)
        /\ LET tx == [coin_solutions |-> <<solution>>,
                      aggregated_signature |-> signature_for_solution(meant)]
           IN  AcceptTx(tx, now) \/ RefuseTx(tx, now)
        /\ UNCHANGED <<coins, synced, asked, seen>>
    BY <2>1
  <2>3. PICK tx : tx = [coin_solutions |-> <<solution>>,
                        aggregated_signature |-> signature_for_solution(meant)]
    OBVIOUS
  <2>4. Pushes(coin, meant, solution, tx) /\ (AcceptTx(tx, now) \/ RefuseTx(tx, now))
    BY <2>2, <2>3 DEF Pushes
  <2> QED BY <2>2, <2>4, PushStep
<1>6. CASE /\ \E h \in RewardHashes : FarmBlock(h[1], h[2], now) \/ RefuseBlock(h[1], h[2], now)
           /\ UNCHANGED walletVars
  BY <1>6, WalletFarmStep
<1>7. CASE UNCHANGED <<vars, walletVars>>
  <2>1. /\ coins' = coins /\ synced' = synced /\ asked' = asked /\ seen' = seen
        /\ signed' = signed /\ chain' = chain /\ spend_bundle' = spend_bundle
        /\ now' = now /\ reply' = reply /\ tip_index' = tip_index
        /\ UNCHANGED viewVars
    BY <1>7 DEF vars, walletVars, viewVars, tip_index
  <2>2. IInv'
    BY <2>1, UnchangedStep DEF WalletIInv, IInv, TypeOK
  <2>3. AccountMatchesChain' /\ Synced'
    BY <2>1, AccountKept DEF WalletIInv, Synced, ChainGrows
  <2>4. SpendsAuthorised' /\ PendingAuthorised'
    BY <2>1, SameSpends DEF WalletIInv
  <2>5. (signed \subseteq Keychain \X Payment)'
    BY <2>1 DEF WalletIInv
  <2> QED BY <2>2, <2>3, <2>4, <2>5 DEF WalletIInv
<1> QED BY <1>1, <1>2, <1>3, <1>4, <1>5, <1>6, <1>7 DEF WalletNext

LEMMA WalletInductive == WalletSpec => []WalletIInv
BY WalletInitIInv, WalletStep, PTL DEF WalletSpec

-----------------------------------------------------------------------------
(* Bundles with one solution more *)

Follows(as, ms, sol) ==
    /\ ms \in Seq(CoinSolution) /\ as \in Seq(CoinSolution) /\ sol \in CoinSolution
    /\ Len(as) = Len(ms) + 1
    /\ \A i \in 1 .. Len(ms) : as[i] = ms[i]
    /\ as[Len(as)] = sol

LEMMA FollowsFacts ==
  ASSUME NEW as, NEW ms, NEW sol, Follows(as, ms, sol), NEW n, n = Len(as)
  PROVE  /\ n \notin DOMAIN ms /\ DOMAIN as = DOMAIN ms \cup {n}
         /\ IsFiniteSet(DOMAIN ms)
         /\ \A i \in DOMAIN ms : as[i] = ms[i]
         /\ as[n] = sol
<1>1. PICK m : m = Len(ms)
  OBVIOUS
<1>2. m \in Nat /\ DOMAIN ms = 1 .. m /\ IsFiniteSet(DOMAIN ms) /\ DOMAIN as = 1 .. Len(as)
  BY <1>1, SolutionFacts DEF Follows
<1>3. n = m + 1 /\ as[n] = sol /\ \A i \in 1 .. m : as[i] = ms[i]
  BY <1>1 DEF Follows
<1>4. n \notin 1 .. m /\ 1 .. n = (1 .. m) \cup {n}
  BY <1>2, <1>3
<1> QED BY <1>2, <1>3, <1>4

LEMMA FollowsNothing ==
  ASSUME NEW sol \in CoinSolution
  PROVE  Follows(<<sol>>, <<>>, sol)
BY DEF Follows

LEMMA FollowsConcat ==
  ASSUME NEW ms \in Seq(CoinSolution), NEW sol \in CoinSolution
  PROVE  Follows(ms \o <<sol>>, ms, sol)
<1>1. PICK ts, as, m : ts = <<sol>> /\ as = ms \o ts /\ m = Len(ms)
  OBVIOUS
<1>2. ts \in Seq(CoinSolution) /\ Len(ts) = 1 /\ ts[1] = sol
  BY <1>1
<1>3. /\ as \in Seq(CoinSolution) /\ Len(as) = m + 1 /\ m \in Nat
      /\ \A i \in 1 .. m + 1 : as[i] = IF i <= m THEN ms[i] ELSE ts[i - m]
  BY <1>1, <1>2, ConcatProperties, LenProperties
<1>4. as[m + 1] = sol
  <2>1. m + 1 \in 1 .. m + 1 /\ ~(m + 1 <= m) /\ (m + 1) - m = 1
    BY <1>3
  <2> QED BY <1>2, <1>3, <2>1
<1>5. ASSUME NEW i \in 1 .. m PROVE as[i] = ms[i]
  <2>1. i \in 1 .. m + 1 /\ i <= m
    BY <1>3
  <2> QED BY <1>3, <2>1
<1> QED BY <1>1, <1>3, <1>4, <1>5 DEF Follows

LEMMA FollowsRemoved ==
  ASSUME NEW as, NEW ms, NEW sol, Follows(as, ms, sol)
  PROVE  RemovedCoins(as) = RemovedCoins(ms) \cup {sol.coin}
<1>1. PICK n, D : n = Len(as) /\ D = DOMAIN ms
  OBVIOUS
<1>2. /\ n \notin D /\ DOMAIN as = D \cup {n}
      /\ IsFiniteSet(D)
      /\ \A i \in D : as[i] = ms[i]
      /\ as[n] = sol
  <2>1. n \notin D /\ DOMAIN as = D \cup {n}
    BY <1>1, FollowsFacts
  <2>2. IsFiniteSet(D)
    BY <1>1, FollowsFacts
  <2>3. \A i \in D : as[i] = ms[i]
    BY <1>1, FollowsFacts
  <2>4. as[n] = sol
    BY <1>1 DEF Follows
  <2> QED BY <2>1, <2>2, <2>3, <2>4
<1>3. \A c : c \in RemovedCoins(as) <=> \E i \in D \cup {n} : c = as[i].coin
  BY <1>2 DEF RemovedCoins
<1>4. \A c : c \in RemovedCoins(ms) <=> \E i \in D : c = ms[i].coin
  BY <1>1 DEF RemovedCoins
<1>5. \A c : (\E i \in D \cup {n} : c = as[i].coin)
                <=> (\E i \in D : c = ms[i].coin) \/ c = sol.coin
  BY <1>2
<1> QED BY <1>3, <1>4, <1>5

LEMMA FollowsSpent ==
  ASSUME NEW as, NEW ms, NEW sol, Follows(as, ms, sol)
  PROVE  AmountIn(as) = AmountIn(ms) + sol.coin.amount
<1>1. PICK n, D : n = Len(as) /\ D = DOMAIN ms
  OBVIOUS
<1>2. /\ n \notin D /\ DOMAIN as = D \cup {n}
      /\ IsFiniteSet(D)
      /\ \A i \in D : as[i] = ms[i]
      /\ as[n] = sol
  <2>1. n \notin D /\ DOMAIN as = D \cup {n}
    BY <1>1, FollowsFacts
  <2>2. IsFiniteSet(D)
    BY <1>1, FollowsFacts
  <2>3. \A i \in D : as[i] = ms[i]
    BY <1>1, FollowsFacts
  <2>4. as[n] = sol
    BY <1>1 DEF Follows
  <2> QED BY <2>1, <2>2, <2>3, <2>4
<1>3. PICK f, g : /\ f = [i \in DOMAIN as |-> as[i].coin.amount]
                  /\ g = [i \in DOMAIN ms |-> ms[i].coin.amount]
  <2>1. \E f : f = [i \in DOMAIN as |-> as[i].coin.amount]
    OBVIOUS
  <2>2. \E g : g = [i \in DOMAIN ms |-> ms[i].coin.amount]
    OBVIOUS
  <2> QED BY <2>1, <2>2
<1>4. AmountIn(as) = SumFunctionOnSet(f, D \cup {n}) /\ AmountIn(ms) = SumFunctionOnSet(g, D)
  BY <1>1, <1>2, <1>3 DEF AmountIn, SumFunction
<1>5. \A i \in D : g[i] \in Int /\ f[i] = g[i]
  BY <1>1, <1>2, <1>3, SolutionFacts DEF Follows, Coin
<1>6. f[n] = sol.coin.amount /\ f[n] \in Int
  BY <1>2, <1>3 DEF Follows, CoinSolution, Coin
<1>7. SumFunctionOnSet(f, D \cup {n}) = f[n] + SumFunctionOnSet(f, D)
  BY <1>2, <1>5, <1>6, SumAdd
<1>8. SumFunctionOnSet(f, D) = SumFunctionOnSet(g, D)
  BY <1>2, <1>5, SumSameTerms
<1>9. SumFunctionOnSet(g, D) \in Int
  BY <1>2, <1>5, SumType
<1> QED BY <1>4, <1>6, <1>7, <1>8, <1>9

\* The outputs of the last solution come in slots of their own.
LastSlots(as, sol) == {Len(as)} \X DOMAIN sol.conditions.create_coin

LastOutput(sol, k) ==
    [parent_coin_info |-> CoinName(sol.coin),
     puzzle_hash |-> sol.conditions.create_coin[k].puzzle_hash,
     amount |-> sol.conditions.create_coin[k].amount]

LEMMA FollowsSlots ==
  ASSUME NEW as, NEW ms, NEW sol, Follows(as, ms, sol)
  PROVE  /\ OutputSlots(as) = OutputSlots(ms) \cup LastSlots(as, sol)
         /\ OutputSlots(ms) \cap LastSlots(as, sol) = {}
         /\ \A s \in OutputSlots(ms) : Output(as, s) = Output(ms, s)
         /\ \A s \in LastSlots(as, sol) :
                s[2] \in DOMAIN sol.conditions.create_coin /\ Output(as, s) = LastOutput(sol, s[2])
<1>1. PICK n, new : n = Len(as) /\ new = LastSlots(as, sol)
  OBVIOUS
<1>2. /\ n \notin DOMAIN ms /\ DOMAIN as = DOMAIN ms \cup {n}
      /\ \A i \in DOMAIN ms : as[i] = ms[i]
      /\ as[n] = sol
  <2>1. n \notin DOMAIN ms /\ DOMAIN as = DOMAIN ms \cup {n}
    BY <1>1, FollowsFacts
  <2>2. \A i \in DOMAIN ms : as[i] = ms[i]
    BY <1>1, FollowsFacts
  <2>3. as[n] = sol
    BY <1>1 DEF Follows
  <2> QED BY <2>1, <2>2, <2>3
<1>3. \A s \in OutputSlots(ms) : s[1] \in DOMAIN ms
  BY DEF OutputSlots
<1>4. \A s \in new : s[1] = n /\ s[2] \in DOMAIN sol.conditions.create_coin
  BY <1>1 DEF LastSlots
<1>5. OutputSlots(as) = OutputSlots(ms) \cup new
  <2>1. \A s : s \in OutputSlots(as) <=>
            \E i \in DOMAIN as : s \in {i} \X DOMAIN as[i].conditions.create_coin
    BY DEF OutputSlots
  <2>2. \A s : s \in OutputSlots(ms) <=>
            \E i \in DOMAIN ms : s \in {i} \X DOMAIN ms[i].conditions.create_coin
    BY DEF OutputSlots
  <2>3. ASSUME NEW s
        PROVE  (\E i \in DOMAIN as : s \in {i} \X DOMAIN as[i].conditions.create_coin)
                <=> \/ \E i \in DOMAIN ms : s \in {i} \X DOMAIN ms[i].conditions.create_coin
                    \/ s \in new
    <3>1. \A i \in DOMAIN ms :
            DOMAIN as[i].conditions.create_coin = DOMAIN ms[i].conditions.create_coin
      BY <1>2
    <3>2. {n} \X DOMAIN as[n].conditions.create_coin = new
      BY <1>1, <1>2 DEF LastSlots
    <3>3. (\E i \in DOMAIN as : s \in {i} \X DOMAIN as[i].conditions.create_coin)
            <=> \/ \E i \in DOMAIN ms : s \in {i} \X DOMAIN as[i].conditions.create_coin
                \/ s \in {n} \X DOMAIN as[n].conditions.create_coin
      BY <1>2
    <3> QED BY <3>1, <3>2, <3>3
  <2> QED BY <2>1, <2>2, <2>3
<1>6. \A s \in OutputSlots(ms) : Output(as, s) = Output(ms, s)
  BY <1>2, <1>3 DEF Output
<1>7. \A s \in new : Output(as, s) = LastOutput(sol, s[2])
  BY <1>2, <1>4 DEF Output, LastOutput
<1> QED BY <1>1, <1>2, <1>3, <1>4, <1>5, <1>6, <1>7

\* What the last solution creates is added to what the others create.
LastAmounts(sol) ==
    [k \in DOMAIN sol.conditions.create_coin |-> sol.conditions.create_coin[k].amount]

LEMMA FollowsAmount ==
  ASSUME NEW as, NEW ms, NEW sol, Follows(as, ms, sol)
  PROVE  AmountOut(as) = AmountOut(ms) + SumFunction(LastAmounts(sol))
<1>1. PICK n, outs, K, slots, new, amounts :
            /\ n = Len(as) /\ outs = sol.conditions.create_coin /\ K = DOMAIN outs
            /\ slots = OutputSlots(ms) /\ new = LastSlots(as, sol)
            /\ amounts = LastAmounts(sol)
  OBVIOUS
<1>2. amounts = [k \in K |-> outs[k].amount]
  BY <1>1 DEF LastAmounts
<1>3. /\ OutputSlots(as) = slots \cup new /\ slots \cap new = {}
      /\ \A s \in slots : Output(as, s) = Output(ms, s)
      /\ \A s \in new : Output(as, s) = LastOutput(sol, s[2])
  <2>1. OutputSlots(as) = OutputSlots(ms) \cup LastSlots(as, sol)
    BY FollowsSlots
  <2>2. OutputSlots(ms) \cap LastSlots(as, sol) = {}
    BY FollowsSlots
  <2>3. \A s \in OutputSlots(ms) : Output(as, s) = Output(ms, s)
    BY FollowsSlots
  <2>4. \A s \in LastSlots(as, sol) : Output(as, s) = LastOutput(sol, s[2])
    BY FollowsSlots
  <2> QED BY <1>1, <2>1, <2>2, <2>3, <2>4
<1>4. outs \in Seq([puzzle_hash : PuzzleHash, amount : Int])
  BY <1>1 DEF Follows, CoinSolution, Condition
<1>5. IsFiniteSet(K) /\ \A k \in K : outs[k].amount \in Int
  <2>1. K = 1 .. Len(outs) /\ Len(outs) \in Nat
    BY <1>1, <1>4, LenProperties
  <2>2. \A k \in K : outs[k] \in [puzzle_hash : PuzzleHash, amount : Int]
    BY <1>4, <2>1, ElementOfSeq
  <2>3. IsFiniteSet(1 .. Len(outs))
    BY <2>1, FS_Interval
  <2> QED BY <2>1, <2>2, <2>3
<1>6. PICK f, g, b : /\ f = [s \in slots \cup new |-> Output(as, s).amount]
                     /\ g = [s \in slots |-> Output(ms, s).amount]
                     /\ b = [k \in K |-> <<n, k>>]
  <2>1. \E f : f = [s \in slots \cup new |-> Output(as, s).amount]
    OBVIOUS
  <2>2. \E g : g = [s \in slots |-> Output(ms, s).amount]
    OBVIOUS
  <2>3. \E b : b = [k \in K |-> <<n, k>>]
    OBVIOUS
  <2> QED BY <2>1, <2>2, <2>3
<1>7. /\ AmountOut(as) = SumFunctionOnSet(f, slots \cup new)
      /\ AmountOut(ms) = SumFunctionOnSet(g, slots)
      /\ SumFunction(amounts) = SumFunctionOnSet(amounts, K)
  <2>1. AmountOut(as) = SumFunctionOnSet(f, slots \cup new)
    BY <1>3, <1>6 DEF AmountOut, SumFunction
  <2>2. AmountOut(ms) = SumFunctionOnSet(g, slots)
    BY <1>1, <1>6 DEF AmountOut, SumFunction
  <2>3. SumFunction(amounts) = SumFunctionOnSet(amounts, K)
    BY <1>2 DEF SumFunction
  <2> QED BY <2>1, <2>2, <2>3
<1>8. IsFiniteSet(slots)
  BY <1>1, SlotsFinite DEF Follows
<1>9. \A s \in slots : g[s] \in Int /\ f[s] = g[s]
  <2>1. \A s \in slots : Output(ms, s) \in Coin
    BY <1>1, OutputParent DEF OutputsOf, Follows
  <2> QED BY <1>3, <1>6, <2>1 DEF Coin
<1>10. new = {b[k] : k \in K}
  <2>1. new = {n} \X K
    BY <1>1 DEF LastSlots
  <2> QED BY <1>6, <2>1
<1>11. \A k \in K : amounts[k] \in Int /\ f[b[k]] = amounts[k]
  <2> SUFFICES ASSUME NEW k \in K PROVE amounts[k] \in Int /\ f[b[k]] = amounts[k]
    OBVIOUS
  <2>1. b[k] \in new /\ b[k][2] = k
    BY <1>6, <1>10
  <2>2. Output(as, b[k]).amount = outs[k].amount
    <3>1. Output(as, b[k]) = LastOutput(sol, k)
      BY <1>3, <2>1
    <3>2. LastOutput(sol, k).amount = outs[k].amount
      BY <1>1 DEF LastOutput
    <3> QED BY <3>1, <3>2
  <2>3. f[b[k]] = outs[k].amount
    BY <1>6, <2>1, <2>2
  <2> QED BY <1>2, <1>5, <2>3
<1>12. \A k, l \in K : b[k] = b[l] => k = l
  BY <1>6
<1>13. IsFiniteSet(new) /\ SumFunctionOnSet(f, new) = SumFunctionOnSet(amounts, K)
  <2>1. IsFiniteSet(K) /\ \A k \in K : amounts[k] \in Int /\ f[b[k]] = amounts[k]
    BY <1>5, <1>11
  <2>2. IsFiniteSet({b[k] : k \in K})
    BY <2>1, FiniteImage
  <2>3. SumFunctionOnSet(f, {b[k] : k \in K}) = SumFunctionOnSet(amounts, K)
    BY <1>12, <2>1, SumReindex
  <2> QED BY <1>10, <2>2, <2>3
<1>14. SumFunctionOnSet(f, slots \cup new)
            = SumFunctionOnSet(f, slots) + SumFunctionOnSet(f, new)
  <2>1. \A s \in new : f[s] \in Int
    BY <1>10, <1>11
  <2> QED BY <1>3, <1>8, <1>9, <1>13, <2>1, SumUnion
<1>15. SumFunctionOnSet(f, slots) = SumFunctionOnSet(g, slots)
  BY <1>8, <1>9, SumSameTerms
<1>16. SumFunctionOnSet(g, slots) \in Int /\ SumFunctionOnSet(amounts, K) \in Int
  BY <1>5, <1>8, <1>9, <1>11, SumType
<1> QED BY <1>1, <1>7, <1>13, <1>14, <1>15, <1>16

LEMMA DistinctOutputs ==
  ASSUME NEW sols \in Seq(CoinSolution)
  PROVE  Cardinality(OutputsOf(sols)) = Cardinality(OutputSlots(sols))
            <=> \A s, t \in OutputSlots(sols) : Output(sols, s) = Output(sols, t) => s = t
<1>1. PICK slots, b : slots = OutputSlots(sols) /\ b = [s \in slots |-> Output(sols, s)]
  <2>1. \E b : b = [s \in OutputSlots(sols) |-> Output(sols, s)]
    OBVIOUS
  <2> QED BY <2>1
<1>2. OutputsOf(sols) = {b[s] : s \in slots}
  BY <1>1 DEF OutputsOf
<1>3. IsFiniteSet(slots)
  BY <1>1, SlotsFinite
<1>4. Cardinality({b[s] : s \in slots}) = Cardinality(slots)
        <=> \A s, t \in slots : b[s] = b[t] => s = t
  BY <1>3, DistinctValues
<1> QED BY <1>1, <1>2, <1>4

\* A payment's outputs differ from each other, and from others by their parent.
LEMMA FollowsDistinct ==
  ASSUME NEW as, NEW ms, NEW sol, Follows(as, ms, sol),
         Cardinality(OutputsOf(ms)) = Cardinality(OutputSlots(ms)),
         sol.coin \notin RemovedCoins(ms), IsInjective(sol.conditions.create_coin)
  PROVE  Cardinality(OutputsOf(as)) = Cardinality(OutputSlots(as))
<1>1. /\ ms \in Seq(CoinSolution) /\ as \in Seq(CoinSolution) /\ sol.coin \in Coin
      /\ sol.conditions.create_coin \in Seq([puzzle_hash : PuzzleHash, amount : Int])
  BY DEF Follows, CoinSolution, Condition
<1>2. PICK n, outs, slots, new : /\ n = Len(as) /\ outs = sol.conditions.create_coin
                                 /\ slots = OutputSlots(ms) /\ new = LastSlots(as, sol)
  OBVIOUS
<1>3. /\ OutputSlots(as) = slots \cup new
      /\ \A s \in slots : Output(as, s) = Output(ms, s)
      /\ \A s \in new : s[2] \in DOMAIN outs /\ Output(as, s) = LastOutput(sol, s[2])
  <2>1. OutputSlots(as) = OutputSlots(ms) \cup LastSlots(as, sol)
    BY FollowsSlots
  <2>2. \A s \in OutputSlots(ms) : Output(as, s) = Output(ms, s)
    BY FollowsSlots
  <2>3. \A s \in LastSlots(as, sol) : s[2] \in DOMAIN sol.conditions.create_coin
                                      /\ Output(as, s) = LastOutput(sol, s[2])
    BY FollowsSlots
  <2> QED BY <1>2, <2>1, <2>2, <2>3
<1>4. ASSUME NEW s \in new PROVE Output(as, s).parent_coin_info = CoinName(sol.coin)
  <2>1. Output(as, s) = LastOutput(sol, s[2])
    BY <1>3
  <2>2. \A k : LastOutput(sol, k).parent_coin_info = CoinName(sol.coin)
    BY DEF LastOutput
  <2> QED BY <2>1, <2>2
<1>5. ASSUME NEW s \in slots PROVE Output(as, s).parent_coin_info # CoinName(sol.coin)
  <2>1. Output(as, s) \in OutputsOf(ms)
    BY <1>2, <1>3 DEF OutputsOf
  <2>2. PICK r \in RemovedCoins(ms) : Output(as, s).parent_coin_info = CoinName(r)
    BY <1>1, <2>1, OutputParent
  <2>3. r \in Coin /\ r # sol.coin
    BY <1>1, RemovalsAreCoins
  <2> QED BY <1>1, <2>2, <2>3, CoinNameInjective
<1>6. \A s, t \in slots : Output(as, s) = Output(as, t) => s = t
  <2>1. \A s, t \in OutputSlots(ms) : Output(ms, s) = Output(ms, t) => s = t
    BY <1>1, DistinctOutputs
  <2> QED BY <1>2, <1>3, <2>1
<1>7. ASSUME NEW s \in new, NEW t \in new, Output(as, s) = Output(as, t)
      PROVE  s = t
  <2>1. PICK k, l : k = s[2] /\ l = t[2]
    OBVIOUS
  <2>2. k \in DOMAIN outs /\ l \in DOMAIN outs /\ LastOutput(sol, k) = LastOutput(sol, l)
    BY <1>3, <1>7, <2>1
  <2>3. outs[k].puzzle_hash = outs[l].puzzle_hash /\ outs[k].amount = outs[l].amount
    BY <1>2, <2>2 DEF LastOutput
  <2>4. /\ outs[k] \in [puzzle_hash : PuzzleHash, amount : Int]
        /\ outs[l] \in [puzzle_hash : PuzzleHash, amount : Int]
    <3>1. outs \in Seq([puzzle_hash : PuzzleHash, amount : Int])
      BY <1>1, <1>2
    <3> QED BY <2>2, <3>1, LenProperties, ElementOfSeq
  <2>5. outs[k] = outs[l]
    BY <2>3, <2>4
  <2>6. k = l
    BY <1>2, <2>2, <2>5 DEF IsInjective
  <2>7. s \in {n} \X DOMAIN outs /\ t \in {n} \X DOMAIN outs
    BY <1>2 DEF LastSlots
  <2>8. PICK i \in {n}, x \in DOMAIN outs : s = <<i, x>>
    BY <2>7
  <2>9. PICK j \in {n}, y \in DOMAIN outs : t = <<j, y>>
    BY <2>7
  <2>10. x = k /\ y = l /\ i = j
    BY <2>1, <2>8, <2>9
  <2> QED BY <2>6, <2>8, <2>9, <2>10
<1>8. \A s, t \in OutputSlots(as) : Output(as, s) = Output(as, t) => s = t
  BY <1>3, <1>4, <1>5, <1>6, <1>7
<1> QED BY <1>1, <1>8, DistinctOutputs

-----------------------------------------------------------------------------
(* Good payments are taken *)

\* One signature for each pair that is asked for, and none besides.
LEMMA FollowsSigned ==
  ASSUME NEW as, NEW ms, NEW sol, Follows(as, ms, sol)
  PROVE  HashKeyPairs(as) = AggregateSignature(HashKeyPairs(ms), signature_for_solution(sol))
<1>1. ASSUME NEW p \in Pair
      PROVE  HashKeyPairs(as)[p] = HashKeyPairs(ms)[p] + signature_for_solution(sol)[p]
  <2>1. PICK n, D : n = Len(as) /\ D = DOMAIN ms
    OBVIOUS
  <2>2. /\ n \notin D /\ DOMAIN as = D \cup {n}
        /\ IsFiniteSet(D)
        /\ \A i \in D : as[i] = ms[i]
        /\ as[n] = sol
    <3>1. n \notin D /\ DOMAIN as = D \cup {n}
      BY <2>1, FollowsFacts
    <3>2. IsFiniteSet(D)
      BY <2>1, FollowsFacts
    <3>3. \A i \in D : as[i] = ms[i]
      BY <2>1, FollowsFacts
    <3>4. as[n] = sol
      BY <2>1 DEF Follows
    <3> QED BY <3>1, <3>2, <3>3, <3>4
  <2>3. PICK f, g : /\ f = [i \in DOMAIN as |-> as[i].conditions.agg_sig[p]]
                    /\ g = [i \in DOMAIN ms |-> ms[i].conditions.agg_sig[p]]
    <3>1. \E f : f = [i \in DOMAIN as |-> as[i].conditions.agg_sig[p]]
      OBVIOUS
    <3>2. \E g : g = [i \in DOMAIN ms |-> ms[i].conditions.agg_sig[p]]
      OBVIOUS
    <3> QED BY <3>1, <3>2
  <2>4. /\ HashKeyPairs(as)[p] = SumFunctionOnSet(f, D \cup {n})
        /\ HashKeyPairs(ms)[p] = SumFunctionOnSet(g, D)
    BY <2>1, <2>2, <2>3 DEF HashKeyPairs, SumFunction
  <2>5. \A i \in D : g[i] \in Int /\ f[i] = g[i]
    <3> SUFFICES ASSUME NEW i \in D PROVE g[i] \in Int /\ f[i] = g[i]
      OBVIOUS
    <3>1. ms[i] \in CoinSolution
      BY <2>1, SolutionFacts DEF Follows
    <3>2. ms[i].conditions.agg_sig \in [Pair -> Nat]
      BY <3>1 DEF CoinSolution, Condition
    <3>3. i \in DOMAIN as /\ i \in DOMAIN ms /\ as[i] = ms[i]
      BY <2>1, <2>2
    <3>4. f[i] = as[i].conditions.agg_sig[p] /\ g[i] = ms[i].conditions.agg_sig[p]
      BY <2>3, <3>3
    <3> QED BY <3>2, <3>3, <3>4
  <2>6. f[n] = signature_for_solution(sol)[p] /\ f[n] \in Int
    <3>1. sol.conditions.agg_sig \in [Pair -> Nat]
      BY DEF Follows, CoinSolution, Condition
    <3> QED BY <2>2, <2>3, <3>1 DEF signature_for_solution
  <2>7. SumFunctionOnSet(f, D \cup {n}) = f[n] + SumFunctionOnSet(f, D)
    BY <2>2, <2>5, <2>6, SumAdd
  <2>8. SumFunctionOnSet(f, D) = SumFunctionOnSet(g, D)
    BY <2>2, <2>5, SumSameTerms
  <2>9. SumFunctionOnSet(g, D) \in Int
    BY <2>2, <2>5, SumType
  <2> QED BY <2>4, <2>6, <2>7, <2>8, <2>9
<1>2. AggregateSignature(HashKeyPairs(ms), signature_for_solution(sol))
        = [p \in Pair |-> HashKeyPairs(ms)[p] + signature_for_solution(sol)[p]]
  BY DEF AggregateSignature
<1>3. HashKeyPairs(as) = [p \in Pair |-> HashKeyPairs(as)[p]]
  BY DEF HashKeyPairs
<1> QED BY <1>1, <1>2, <1>3

LEMMA NoPairs ==
  HashKeyPairs(<<>>) = ZERO96 /\ AmountIn(<<>>) = 0 /\ AmountOut(<<>>) = 0
<1>1. DOMAIN <<>> = {} /\ OutputSlots(<<>>) = {}
  BY DEF OutputSlots
<1>2. HashKeyPairs(<<>>) = ZERO96
  BY <1>1, SumOfNothing DEF HashKeyPairs, ZERO96, SumFunction
<1> QED BY <1>1, <1>2, SumOfNothing DEF AmountIn, AmountOut, SumFunction

\* Fees add up.
LEMMA FollowsFees ==
  ASSUME NEW m \in SpendBundle, NEW tx, NEW agg, NEW sol,
         Follows(agg.coin_solutions, m.coin_solutions, sol),
         Follows(tx.coin_solutions, <<>>, sol)
  PROVE  Fees(agg) = Fees(m) + Fees(tx) /\ Fees(tx) \in Int
<1>1. PICK ms, as, ts, out :
            /\ ms = m.coin_solutions /\ as = agg.coin_solutions /\ ts = tx.coin_solutions
            /\ out = SumFunction(LastAmounts(sol))
  OBVIOUS
<1>2. sol \in CoinSolution /\ sol.coin.amount \in Int
  BY DEF Follows, CoinSolution, Coin
<1>3. /\ AmountIn(as) = AmountIn(ms) + sol.coin.amount
      /\ AmountOut(as) = AmountOut(ms) + out
  <2>1. Follows(as, ms, sol)
    BY <1>1
  <2>2. AmountIn(as) = AmountIn(ms) + sol.coin.amount
    BY <2>1, FollowsSpent
  <2>3. AmountOut(as) = AmountOut(ms) + SumFunction(LastAmounts(sol))
    BY <2>1, FollowsAmount
  <2> QED BY <1>1, <2>2, <2>3
<1>4. /\ AmountIn(ts) = 0 + sol.coin.amount
      /\ AmountOut(ts) = 0 + out
  <2>1. Follows(ts, <<>>, sol)
    BY <1>1
  <2>2. AmountIn(ts) = AmountIn(<<>>) + sol.coin.amount
    BY <2>1, FollowsSpent
  <2>3. AmountOut(ts) = AmountOut(<<>>) + SumFunction(LastAmounts(sol))
    BY <2>1, FollowsAmount
  <2> QED BY <1>1, <2>2, <2>3, NoPairs
<1>5. AmountIn(ms) \in Int /\ AmountOut(ms) \in Int
  BY <1>1, FeesType
<1>6. out \in Int
  <2>1. PICK amounts, K : amounts = LastAmounts(sol) /\ K = DOMAIN sol.conditions.create_coin
    OBVIOUS
  <2>2. sol.conditions.create_coin \in Seq([puzzle_hash : PuzzleHash, amount : Int])
    BY <1>2 DEF CoinSolution, Condition
  <2>3. PICK len : len = Len(sol.conditions.create_coin)
    OBVIOUS
  <2>4. len \in Nat /\ K = 1 .. len
    BY <2>1, <2>2, <2>3, LenProperties
  <2>5. \A k \in K : sol.conditions.create_coin[k] \in [puzzle_hash : PuzzleHash, amount : Int]
    BY <2>2, <2>3, <2>4, ElementOfSeq
  <2>6. IsFiniteSet(K)
    BY <2>4, FS_Interval
  <2>7. DOMAIN amounts = K /\ \A k \in K : amounts[k] \in Int
    BY <2>1, <2>5 DEF LastAmounts
  <2>8. SumFunctionOnSet(amounts, K) \in Int
    BY <2>6, <2>7, SumType
  <2> QED BY <1>1, <2>1, <2>7, <2>8 DEF SumFunction
<1>7. /\ Fees(agg) = AmountIn(as) - AmountOut(as) /\ Fees(m) = AmountIn(ms) - AmountOut(ms)
      /\ Fees(tx) = AmountIn(ts) - AmountOut(ts)
  BY <1>1 DEF Fees
<1> QED BY <1>2, <1>3, <1>4, <1>5, <1>6, <1>7

\* A payment of a coin the chain has left unspent is legal with what is pending.
LEMMA PaymentIsLegal ==
  ASSUME IInv, PendingIsLegal,
         spend_bundle.aggregated_signature = HashKeyPairs(spend_bundle.coin_solutions),
         NEW coin \in Coin, coin \in ChainAdditions \ ChainRemovals,
         coin \notin RemovedCoins(spend_bundle.coin_solutions),
         NEW solution \in Solutions(coin), solution.puzzle_hash = coin.puzzle_hash,
         NEW tx, tx = build_spend_bundle(solution),
         IsInjective(solution.conditions.create_coin),
         \A out \in Range(solution.conditions.create_coin) : out.amount < MAX_COIN_AMOUNT,
         Fees(tx) >= 0, Fees(spend_bundle) + Fees(tx) < MAX_COIN_AMOUNT
  PROVE  /\ LegalOnChain(Aggregate(spend_bundle, tx))
         /\ ValidSignature(tx.aggregated_signature, tx.coin_solutions)
<1>1. PICK m, agg, ms, as, sol :
            /\ m = spend_bundle /\ agg = Aggregate(spend_bundle, tx)
            /\ ms = m.coin_solutions /\ as = agg.coin_solutions /\ sol = solution
  OBVIOUS
<1>2. /\ sol \in CoinSolution /\ sol.coin = coin
      /\ sol.conditions \in Condition
  BY <1>1, SolutionsFacts DEF CoinSolution
<1>3. /\ tx.coin_solutions = <<sol>>
      /\ tx.aggregated_signature = signature_for_solution(sol)
  BY <1>1 DEF build_spend_bundle
<1>4. /\ m \in SpendBundle /\ ms \in Seq(CoinSolution)
      /\ as = ms \o <<sol>>
      /\ agg.aggregated_signature
            = AggregateSignature(m.aggregated_signature, tx.aggregated_signature)
  BY <1>1, <1>3 DEF IInv, TypeOK, SpendBundle, Aggregate
<1>5. Follows(as, ms, sol)
  BY <1>2, <1>4, FollowsConcat
<1>6. as \in Seq(CoinSolution)
  BY <1>5 DEF Follows
<1>7. /\ Fees(m) \in 0 .. MAX_COIN_AMOUNT - 1
      /\ Cardinality(RemovedCoins(ms)) = Len(ms)
      /\ Cardinality(OutputsOf(ms)) = Cardinality(OutputSlots(ms))
      /\ RemovedCoins(ms) \subseteq (ChainAdditions \ ChainRemovals) \cup OutputsOf(ms)
      /\ \A c \in OutputsOf(ms) : c.amount < MAX_COIN_AMOUNT
      /\ \A i \in DOMAIN ms :
            ms[i].puzzle_hash = ms[i].coin.puzzle_hash /\ LegalConditions(ms, ms[i])
  BY <1>1 DEF PendingIsLegal, LegalOnChain
<1>8. PICK n : n = Len(as)
  OBVIOUS
<1>9. /\ n \notin DOMAIN ms /\ DOMAIN as = DOMAIN ms \cup {n}
      /\ \A i \in DOMAIN ms : as[i] = ms[i]
      /\ as[n] = sol
  <2>1. n \notin DOMAIN ms /\ DOMAIN as = DOMAIN ms \cup {n}
    BY <1>5, <1>8, FollowsFacts
  <2>2. \A i \in DOMAIN ms : as[i] = ms[i]
    BY <1>5, <1>8, FollowsFacts
  <2>3. as[n] = sol
    BY <1>5, <1>8 DEF Follows
  <2> QED BY <2>1, <2>2, <2>3
<1>10. RemovedCoins(as) = RemovedCoins(ms) \cup {coin}
  BY <1>2, <1>5, FollowsRemoved
<1>11. ValidSignature(tx.aggregated_signature, tx.coin_solutions)
  BY <1>2, <1>3, PaymentSigned DEF ValidSignature, CoinSolution, Condition, Signature
<1>12. ValidSignature(agg.aggregated_signature, as)
  BY <1>1, <1>3, <1>4, <1>5, FollowsSigned DEF ValidSignature
<1>13. Fees(agg) \in 0 .. MAX_COIN_AMOUNT - 1
  <2>1. Fees(agg) = Fees(m) + Fees(tx) /\ Fees(tx) \in Int
    <3>1. Follows(agg.coin_solutions, m.coin_solutions, sol)
      BY <1>1, <1>5
    <3>2. Follows(tx.coin_solutions, <<>>, sol)
      BY <1>2, <1>3, FollowsNothing
    <3> QED BY <1>4, <3>1, <3>2, FollowsFees
  <2>2. Fees(m) \in Int /\ Fees(m) >= 0 /\ Fees(m) + Fees(tx) < MAX_COIN_AMOUNT
    BY <1>1, <1>7, MaxCoinAmountAssumption
  <2> QED BY <2>1, <2>2, MaxCoinAmountAssumption
<1>14. Cardinality(RemovedCoins(as)) = Len(as)
  <2>1. ~DuplicateRemoval(ms)
    BY <1>4, <1>7, DistinctRemovals
  <2>2. \A i \in DOMAIN ms : ms[i].coin # coin /\ ms[i].coin \in Coin
    BY <1>1, <1>4, SolutionFacts DEF RemovedCoins
  <2>3. ASSUME NEW i \in DOMAIN as, NEW j \in DOMAIN as,
               CoinName(as[i].coin) = CoinName(as[j].coin)
        PROVE  i = j
    <3>1. as[i].coin = as[j].coin
      BY <1>6, <2>3, SolutionFacts, CoinNameInjective
    <3>2. CASE i \in DOMAIN ms /\ j \in DOMAIN ms
      BY <1>9, <2>1, <2>3, <3>2 DEF DuplicateRemoval
    <3>3. CASE i \in DOMAIN ms /\ j = n
      BY <1>2, <1>9, <2>2, <3>1, <3>3
    <3>4. CASE i = n /\ j \in DOMAIN ms
      BY <1>2, <1>9, <2>2, <3>1, <3>4
    <3>5. CASE i = n /\ j = n
      BY <3>5
    <3> QED BY <1>9, <3>2, <3>3, <3>4, <3>5
  <2>4. ~DuplicateRemoval(as)
    BY <2>3 DEF DuplicateRemoval
  <2> QED BY <1>6, <2>4, DistinctRemovals
<1>15. Cardinality(OutputsOf(as)) = Cardinality(OutputSlots(as))
  BY <1>1, <1>2, <1>5, <1>7, FollowsDistinct
<1>16. PICK old, new : old = OutputSlots(ms) /\ new = LastSlots(as, sol)
  OBVIOUS
<1>17. /\ OutputSlots(as) = old \cup new
       /\ \A s \in old : Output(as, s) = Output(ms, s)
       /\ \A s \in new : s[2] \in DOMAIN sol.conditions.create_coin
                         /\ Output(as, s) = LastOutput(sol, s[2])
  <2>1. OutputSlots(as) = OutputSlots(ms) \cup LastSlots(as, sol)
    BY <1>5, FollowsSlots
  <2>2. \A s \in OutputSlots(ms) : Output(as, s) = Output(ms, s)
    BY <1>5, FollowsSlots
  <2>3. \A s \in LastSlots(as, sol) : s[2] \in DOMAIN sol.conditions.create_coin
                                      /\ Output(as, s) = LastOutput(sol, s[2])
    BY <1>5, FollowsSlots
  <2> QED BY <1>16, <2>1, <2>2, <2>3
<1>18. OutputsOf(ms) \subseteq OutputsOf(as)
  BY <1>16, <1>17 DEF OutputsOf
<1>19. RemovedCoins(as) \subseteq (ChainAdditions \ ChainRemovals) \cup OutputsOf(as)
  BY <1>7, <1>10, <1>18
<1>20. ASSUME NEW c \in OutputsOf(as) PROVE c.amount < MAX_COIN_AMOUNT
  <2>1. PICK s \in OutputSlots(as) : c = Output(as, s)
    BY DEF OutputsOf
  <2>2. CASE s \in old
    <3>1. c \in OutputsOf(ms)
      BY <1>16, <1>17, <2>1, <2>2 DEF OutputsOf
    <3> QED BY <1>7, <3>1
  <2>3. CASE s \in new
    <3>1. PICK k : k = s[2]
      OBVIOUS
    <3>2. k \in DOMAIN sol.conditions.create_coin /\ c = LastOutput(sol, k)
      BY <1>17, <2>1, <2>3, <3>1
    <3>3. c.amount = sol.conditions.create_coin[k].amount
      BY <3>2 DEF LastOutput
    <3>4. sol.conditions.create_coin[k] \in Range(sol.conditions.create_coin)
      BY <3>2 DEF Range
    <3> QED BY <1>1, <3>3, <3>4
  <2> QED BY <1>17, <2>2, <2>3
<1>21. ASSUME NEW i \in DOMAIN as
       PROVE  as[i].puzzle_hash = as[i].coin.puzzle_hash /\ LegalConditions(as, as[i])
  <2>1. CASE i \in DOMAIN ms
    <3>1. as[i] = ms[i] /\ LegalConditions(ms, ms[i])
      BY <1>7, <1>9, <2>1
    <3>2. Names(RemovedCoins(ms)) \subseteq Names(RemovedCoins(as))
      BY <1>10 DEF Names
    <3>3. LegalConditions(as, ms[i])
      BY <3>1, <3>2 DEF LegalConditions
    <3> QED BY <1>7, <2>1, <3>1, <3>3
  <2>2. CASE i = n
    <3>1. as[i] = sol /\ sol.puzzle_hash = sol.coin.puzzle_hash
      BY <1>1, <1>2, <1>9, <2>2
    <3>2. /\ sol.conditions.coin_consumed = {} /\ sol.conditions.my_coin_id = {}
          /\ sol.conditions.time_exceeds = {} /\ sol.conditions.block_index_exceeds = {}
          /\ sol.conditions.block_age_exceeds = {}
      <4>1. ASSUME NEW outs, NEW sig, NEW cond, cond = Conditions(outs, sig)
            PROVE  /\ cond.coin_consumed = {} /\ cond.my_coin_id = {}
                   /\ cond.time_exceeds = {} /\ cond.block_index_exceeds = {}
                   /\ cond.block_age_exceeds = {}
        BY <4>1 DEF Conditions
      <4>2. CASE \E outs \in Payment, key \in Key : sol = DelegatedSolution(coin, outs, key)
        <5>1. PICK outs \in Payment, key \in Key : sol = DelegatedSolution(coin, outs, key)
          BY <4>2
        <5>2. PICK sig, cond : sig = [ZERO96 EXCEPT ![<<key, outs>>] = 1]
                               /\ cond = Conditions(outs, sig)
          OBVIOUS
        <5>3. sol.conditions = cond
          BY <5>1, <5>2 DEF DelegatedSolution
        <5> QED BY <4>1, <5>2, <5>3
      <4>3. CASE \E outs \in DOMAIN puzzle_hash_for_conditions : sol = FixedSolution(coin, outs)
        <5>1. PICK outs \in DOMAIN puzzle_hash_for_conditions : sol = FixedSolution(coin, outs)
          BY <4>3
        <5>2. PICK sig, cond : sig = ZERO96 /\ cond = Conditions(outs, sig)
          OBVIOUS
        <5>3. sol.conditions = cond
          BY <5>1, <5>2 DEF FixedSolution
        <5> QED BY <4>1, <5>2, <5>3
      <4> QED BY <1>1, <4>2, <4>3 DEF Solutions
    <3>3. LegalConditions(as, sol)
      BY <3>2 DEF LegalConditions
    <3> QED BY <3>1, <3>3
  <2> QED BY <1>9, <2>1, <2>2
<1>22. LegalOnChain(agg)
  BY <1>1, <1>12, <1>13, <1>14, <1>15, <1>19, <1>20, <1>21 DEF LegalOnChain
<1> QED BY <1>1, <1>11, <1>22

LEMMA PaymentsPass ==
  ASSUME WalletIInv, PendingInStores, PendingIsLegal
  PROVE  PaymentsAccepted
<1> SUFFICES ASSUME seen = tip_index, now < CLOCK_LIMIT,
                    spend_bundle.aggregated_signature = HashKeyPairs(spend_bundle.coin_solutions),
                    NEW coin \in coins \ RemovedCoins(spend_bundle.coin_solutions),
                    NEW solution \in Solutions(coin),
                    NEW tx, tx = build_spend_bundle(solution),
                    solution.puzzle_hash = coin.puzzle_hash,
                    IsInjective(solution.conditions.create_coin),
                    \A out \in Range(solution.conditions.create_coin) :
                        out.amount < MAX_COIN_AMOUNT,
                    Fees(tx) >= 0, Fees(spend_bundle) + Fees(tx) < MAX_COIN_AMOUNT
             PROVE  AllPass(PushTxChecks(tx, now))
  BY DEF PaymentsAccepted
<1>1. IInv /\ coin \in Coin
  BY AccountType DEF WalletIInv
<1>2. coin \in ChainAdditions \ ChainRemovals
  <2>1. coin \in UnspentAfter(tip_index)
    BY DEF WalletIInv, AccountMatchesChain
  <2>2. DOMAIN chain = 1 .. tip_index
    BY <1>1, TipIndex DEF IInv, ViewIInv
  <2> QED BY <2>1, <2>2 DEF UnspentAfter, ChainAdditions, ChainRemovals
<1>3. /\ LegalOnChain(Aggregate(spend_bundle, tx))
      /\ ValidSignature(tx.aggregated_signature, tx.coin_solutions)
  BY <1>1, <1>2, PaymentIsLegal
<1>4. tx \in SpendBundle /\ RevealsKnownPuzzles(tx.coin_solutions)
  <2>1. solution \in CoinSolution /\ solution.puzzle_hash \notin {ZERO_PH, FF_PH}
    BY <1>1, SolutionsFacts
  <2>2. signature_for_solution(solution) \in Signature
    BY <1>1, SolutionsFacts DEF signature_for_solution
  <2>3. PICK sols : sols = <<solution>>
    OBVIOUS
  <2>4. sols \in Seq(CoinSolution) /\ \A i \in DOMAIN sols : sols[i] = solution
    BY <2>1, <2>3
  <2>5. tx = [coin_solutions |-> sols,
              aggregated_signature |-> signature_for_solution(solution)]
    BY <2>3 DEF build_spend_bundle
  <2> QED BY <2>1, <2>2, <2>4, <2>5 DEF SpendBundle, RevealsKnownPuzzles
<1> QED BY <1>1, <1>3, <1>4, TxJudgedByChain

-----------------------------------------------------------------------------
(* The wallet's steps, seen from the ledger *)

LEMMA LedgerSteps ==
  ASSUME WalletIInv, [WalletNext]_<<vars, walletVars>>
  PROVE  \/ \E tx \in SpendBundle : RevealsKnownPuzzles(tx.coin_solutions) /\ AcceptTx(tx, now)
         \/ \E h \in RewardHashes : FarmBlock(h[1], h[2], now)
         \/ UNCHANGED <<chain, unspent_db, preimage_db, spend_bundle, now>>
<1>1. ASSUME NEW tx, RefuseTx(tx, now)
      PROVE  UNCHANGED <<chain, unspent_db, preimage_db, spend_bundle, now>>
  BY <1>1 DEF RefuseTx, viewVars
<1>2. ASSUME NEW coin \in coins, NEW meant \in Solutions(coin), NEW solution \in Solutions(coin),
             NEW tx, tx = [coin_solutions |-> <<solution>>,
                           aggregated_signature |-> signature_for_solution(meant)],
             CanSign(meant), signed' = signed \cup PairsOf(meant)
      PROVE  tx \in SpendBundle /\ RevealsKnownPuzzles(tx.coin_solutions)
  <2>1. coin \in Coin /\ Pushes(coin, meant, solution, tx)
    BY <1>2, AccountType DEF Pushes
  <2> QED BY <2>1, PushedFacts
<1>3. CASE Pay
  <2>1. PICK coin \in coins : \E solution \in Solutions(coin) :
        /\ CanSign(solution)
        /\ signed' = signed \cup PairsOf(solution)
        /\ LET tx == build_spend_bundle(solution) IN AcceptTx(tx, now) \/ RefuseTx(tx, now)
    BY <1>3 DEF Pay
  <2>2. PICK solution \in Solutions(coin) :
        /\ CanSign(solution)
        /\ signed' = signed \cup PairsOf(solution)
        /\ LET tx == build_spend_bundle(solution) IN AcceptTx(tx, now) \/ RefuseTx(tx, now)
    BY <2>1
  <2>3. PICK tx : tx = build_spend_bundle(solution)
    OBVIOUS
  <2>4. AcceptTx(tx, now) \/ RefuseTx(tx, now)
    BY <2>2, <2>3
  <2>5. tx \in SpendBundle /\ RevealsKnownPuzzles(tx.coin_solutions)
    BY <1>2, <2>2, <2>3 DEF build_spend_bundle
  <2> QED BY <1>1, <2>4, <2>5
<1>4. CASE PayOther
  <2>1. PICK coin \in coins : \E meant, solution \in Solutions(coin) :
        /\ CanSign(meant)
        /\ signed' = signed \cup PairsOf(meant)
        /\ LET tx == [coin_solutions |-> <<solution>>,
                      aggregated_signature |-> signature_for_solution(meant)]
           IN  AcceptTx(tx, now) \/ RefuseTx(tx, now)
    BY <1>4 DEF PayOther
  <2>2. PICK meant \in Solutions(coin), solution \in Solutions(coin) :
        /\ CanSign(meant)
        /\ signed' = signed \cup PairsOf(meant)
        /\ LET tx == [coin_solutions |-> <<solution>>,
                      aggregated_signature |-> signature_for_solution(meant)]
           IN  AcceptTx(tx, now) \/ RefuseTx(tx, now)
    BY <2>1
  <2>3. PICK tx : tx = [coin_solutions |-> <<solution>>,
                        aggregated_signature |-> signature_for_solution(meant)]
    OBVIOUS
  <2>4. AcceptTx(tx, now) \/ RefuseTx(tx, now)
    BY <2>2, <2>3
  <2>5. tx \in SpendBundle /\ RevealsKnownPuzzles(tx.coin_solutions)
    BY <1>2, <2>2, <2>3
  <2> QED BY <1>1, <2>4, <2>5
<1>5. CASE GetTip \/ FetchAll \/ FetchRecent \/ UNCHANGED <<vars, walletVars>>
  <2>1. UNCHANGED vars
    BY <1>5 DEF GetTip, FetchAll, FetchRecent, Fetch
  <2> QED BY <2>1 DEF vars
<1>6. CASE \E h \in RewardHashes : FarmBlock(h[1], h[2], now) \/ RefuseBlock(h[1], h[2], now)
  BY <1>6 DEF RefuseBlock, viewVars
<1> QED BY <1>3, <1>4, <1>5, <1>6 DEF WalletNext

LEMMA WalletPendingInductive == WalletSpec => [](PendingInStores /\ PendingIsLegal)
<1>1. WalletInit => PendingInStores /\ PendingIsLegal
  <2> SUFFICES ASSUME WalletInit PROVE PendingInStores /\ PendingIsLegal
    OBVIOUS
  <2>1. spend_bundle = EmptyBundle
    BY DEF WalletInit, Init
  <2> QED BY <2>1, NothingPending, EmptyIsLegal DEF PendingInStores, PendingIsLegal
<1>2. WalletIInv /\ PendingInStores /\ PendingIsLegal /\ [WalletNext]_<<vars, walletVars>>
        => PendingInStores' /\ PendingIsLegal'
  <2> SUFFICES ASSUME WalletIInv, PendingInStores, PendingIsLegal,
                      [WalletNext]_<<vars, walletVars>>
               PROVE  PendingInStores' /\ PendingIsLegal'
    OBVIOUS
  <2>1. IInv /\ now \in Nat
    BY DEF WalletIInv, IInv, TypeOK
  <2>2. CASE \E tx \in SpendBundle : RevealsKnownPuzzles(tx.coin_solutions) /\ AcceptTx(tx, now)
    BY <2>1, <2>2, AcceptedInStores, AcceptedIsLegal
  <2>3. CASE \E h \in RewardHashes : FarmBlock(h[1], h[2], now)
    <3>1. spend_bundle' = EmptyBundle
      BY <2>3 DEF FarmBlock
    <3>2. LegalOnChain(EmptyBundle)'
      BY EmptyIsLegal, PTL
    <3> QED BY <3>1, <3>2, NothingPending DEF PendingInStores, PendingIsLegal
  <2>4. CASE UNCHANGED <<chain, unspent_db, preimage_db, spend_bundle, now>>
    <3>1. PendingInStores'
      BY <2>4 DEF PendingInStores, tip_index
    <3>2. PICK bundle : bundle = spend_bundle
      OBVIOUS
    <3>3. bundle \in SpendBundle /\ LegalOnChain(bundle)
      BY <2>1, <3>2 DEF PendingIsLegal, IInv, TypeOK
    <3>4. LegalOnChain(bundle)'
      BY <2>1, <2>4, <3>3, LegalKept
    <3>5. spend_bundle' = bundle
      BY <2>4, <3>2
    <3> QED BY <3>1, <3>4, <3>5 DEF PendingIsLegal
  <2> QED BY <2>2, <2>3, <2>4, LedgerSteps
<1> QED BY <1>1, <1>2, WalletInductive, PTL DEF WalletSpec

LEMMA WalletSupply == WalletSpec => []SupplyConserved
<1>1. WalletInit => SupplyConserved
  BY InitialSupply DEF WalletInit
<1>2. WalletIInv /\ SupplyConserved /\ [WalletNext]_<<vars, walletVars>> => SupplyConserved'
  <2> SUFFICES ASSUME WalletIInv, SupplyConserved, [WalletNext]_<<vars, walletVars>>
               PROVE  SupplyConserved'
    OBVIOUS
  <2>1. CASE \E h \in RewardHashes : FarmBlock(h[1], h[2], now)
    BY <2>1, SupplyAnswered DEF WalletIInv, IInv, TypeOK, Answered
  <2>2. CASE chain' = chain
    BY <2>2 DEF SupplyConserved, ChainAdditions, ChainRemovals, tip_index
  <2> QED BY <2>1, <2>2, LedgerSteps DEF AcceptTx
<1> QED BY <1>1, <1>2, WalletInductive, PTL DEF WalletSpec

-----------------------------------------------------------------------------
(* The theorems *)

\* The wallet's account holds coins, its headers are of blocks on the chain,
\* and its keychain has signed pairs of its keys.
THEOREM WalletTypeCorrect == WalletSpec => []WalletTypeOK
<1>1. WalletIInv => WalletTypeOK
  BY AccountType DEF WalletIInv, Synced, IInv, WalletTypeOK
<1> QED BY <1>1, WalletInductive, PTL

\* The account a wallet replays from get_all_blocks and get_recent_blocks is
\* that of the chain after the last block it was given, although the answers
\* overlap with what it has.
THEOREM AccountIsTheChains == WalletSpec => []AccountMatchesChain
<1>1. WalletIInv => AccountMatchesChain
  BY DEF WalletIInv
<1> QED BY <1>1, WalletInductive, PTL

\* No block spends a coin of a p2_delegated_puzzle with conditions that its key
\* has not signed, whatever is pushed with it and whatever it was aggregated to.
THEOREM OnlyAuthorisedSpends == WalletSpec => []SpendsAuthorised
<1>1. WalletIInv => SpendsAuthorised
  BY DEF WalletIInv
<1> QED BY <1>1, WalletInductive, PTL

\* A payment that can be sent, from an account that is up to date, is taken,
\* whatever else is pending, as long as every pending signature is one that
\* somebody asked for, no amount reaches the maximum and a timestamp can hold
\* the clock.
THEOREM GoodPaymentsPass == WalletSpec => []PaymentsAccepted
BY PaymentsPass, WalletInductive, WalletPendingInductive, PTL

\* Beside a wallet, whose bundles may be any its puzzles and keys can make and
\* not those of a given set, the ledger keeps all it promises: no double spend,
\* no money from nothing, and a pending bundle that can be farmed while a
\* timestamp can hold the clock.
THEOREM LedgerBesideWallet ==
    WalletSpec => [](/\ NoDoubleSpend /\ SpentWereCreated /\ DbMatchesChain
                     /\ SupplyConserved /\ StrayCoinsAreTrialRewards
                     /\ PushTxJudgesByChain /\ MempoolFarmable)
<1>1. WalletIInv => /\ NoDoubleSpend /\ SpentWereCreated /\ DbMatchesChain
                    /\ StrayCoinsAreTrialRewards
  BY ViewNoDoubleSpend, ViewDbMatchesChain DEF WalletIInv, IInv, ViewIInv
<1>2. WalletIInv /\ PendingInStores /\ PendingIsLegal => PushTxJudgesByChain /\ MempoolFarmable
  BY JudgedByChain, PendingIsFarmable DEF WalletIInv
<1> QED BY <1>1, <1>2, WalletInductive, WalletSupply, WalletPendingInductive, PTL

\* Of all that a wallet and its ledger do, UtxoLedger sees the blocks.
THEOREM WalletUtxoRefinement == WalletSpec => ImplementsUtxoLedger
<1>1. WalletInit => Utxo!UtxoInit
  BY UtxoInitially DEF WalletInit
<1>2. /\ WalletIInv /\ SupplyConserved /\ WalletIInv' /\ SupplyConserved'
      /\ [WalletNext]_<<vars, walletVars>>
      => [Utxo!Block]_(Utxo!utxoVars)
  <2> SUFFICES ASSUME WalletIInv, SupplyConserved, WalletIInv', SupplyConserved',
                      [WalletNext]_<<vars, walletVars>>
               PROVE  Utxo!Block \/ UNCHANGED <<SpendableCoins, SpentCoins, tip_index>>
    BY DEF Utxo!utxoVars
  <2>1. IInv /\ IInv'
    BY DEF WalletIInv
  <2>2. CASE \E h \in RewardHashes : FarmBlock(h[1], h[2], now)
    BY <2>1, <2>2, FarmBlockIsBlock DEF IInv, TypeOK
  <2>3. CASE chain' = chain
    BY <2>1, <2>3, OthersStutter
  <2> QED BY <2>2, <2>3, LedgerSteps DEF AcceptTx
<1> QED
  BY <1>1, <1>2, WalletInductive, WalletSupply, PTL
     DEF WalletSpec, ImplementsUtxoLedger, Utxo!UtxoSpec
=============================================================================
