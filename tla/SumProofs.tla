----------------------------- MODULE SumProofs -----------------------------
(***************************************************************************)
(* Lemmas about sums over finite sets: that the fold which defines them is *)
(* well defined, and that sums do not depend on the order of the elements. *)
(* They are what the proofs about amounts of money rest on.                *)
(***************************************************************************)
EXTENDS Integers, FiniteSets, Functions, FiniteSetTheorems, WellFoundedInduction, TLAPS

-----------------------------------------------------------------------------
(* Induction over subsets, with the property given by the set of those that *)
(* have it.                                                                 *)

LEMMA SubsetInduction ==
  ASSUME NEW S, IsFiniteSet(S), NEW Good,
         \A T \in SUBSET S : (\A U \in SUBSET T : U # T => U \in Good) => T \in Good
  PROVE  \A T \in SUBSET S : T \in Good
<1> DEFINE Bad == {T \in SUBSET S : T \notin Good}
<1>1. SUFFICES ASSUME Bad # {} PROVE FALSE
  OBVIOUS
<1>2. IsWellFoundedOn(StrictSubsetOrdering(S), SUBSET S)
  BY FS_StrictSubsetOrderingWellFounded, FS_FiniteSubsetsOfFinite
<1>3. PICK T \in Bad : \A U \in Bad : ~(<<U, T>> \in StrictSubsetOrdering(S))
  <2>1. Bad \subseteq SUBSET S
    OBVIOUS
  <2> HIDE DEF Bad
  <2> QED BY <1>1, <1>2, <2>1, WFMin
<1>4. \A U \in SUBSET T : U # T => U \in Good
  <2> SUFFICES ASSUME NEW U \in SUBSET T, U # T, U \notin Good PROVE FALSE
    OBVIOUS
  <2>1. U \in Bad
    OBVIOUS
  <2>2. <<U, T>> \in StrictSubsetOrdering(S)
    BY <2>1 DEF StrictSubsetOrdering
  <2> QED BY <1>3, <2>1, <2>2
<1> QED BY <1>4

LEMMA FiniteInduction ==
  ASSUME NEW S, IsFiniteSet(S), NEW Good, {} \in Good,
         \A T \in SUBSET S : \A x \in S \ T : T \in Good => T \cup {x} \in Good
  PROVE  S \in Good
<1>1. ASSUME NEW T \in SUBSET S, \A U \in SUBSET T : U # T => U \in Good
      PROVE  T \in Good
  <2>1. CASE T = {}
    BY <2>1
  <2>2. CASE T # {}
    <3>1. PICK x \in T : TRUE
      BY <2>2
    <3>2. T \ {x} \in Good /\ T \ {x} \in SUBSET S /\ x \in S \ (T \ {x})
      BY <1>1
    <3>3. (T \ {x}) \cup {x} = T
      OBVIOUS
    <3>4. (T \ {x}) \cup {x} \in Good
      BY <3>2
    <3> QED BY <3>3, <3>4
  <2> QED BY <2>1, <2>2
<1>2. \A T \in SUBSET S : T \in Good
  BY <1>1, SubsetInduction
<1> QED BY <1>2

-----------------------------------------------------------------------------
(* The fold is well defined *)

Choice(S) == CHOOSE x \in S : TRUE

\* h gives the sum of f over each subset of S.
IsSumOf(f, S, h) ==
    h = [T \in SUBSET S |-> IF T = {} THEN 0 ELSE f[Choice(T)] + h[T \ {Choice(T)}]]

LEMMA ChoiceIn ==
  ASSUME NEW S, S # {}
  PROVE  Choice(S) \in S
BY DEF Choice

LEMMA SumUnique ==
  ASSUME NEW f, NEW S, IsFiniteSet(S), NEW g, NEW h, IsSumOf(f, S, g), IsSumOf(f, S, h)
  PROVE  g = h
<1> DEFINE Good == {T \in SUBSET S : g[T] = h[T]}
<1>1. ASSUME NEW T \in SUBSET S, \A U \in SUBSET T : U # T => U \in Good
      PROVE  T \in Good
  <2>1. CASE T = {}
    BY <2>1 DEF IsSumOf
  <2>2. CASE T # {}
    <3>1. PICK x : x = Choice(T) /\ x \in T
      BY <2>2, ChoiceIn
    <3>2. T \ {x} \in Good
      BY <1>1, <3>1
    <3>3. g[T] = f[x] + g[T \ {x}] /\ h[T] = f[x] + h[T \ {x}]
      BY <2>2, <3>1 DEF IsSumOf
    <3> QED BY <3>2, <3>3
  <2> QED BY <2>1, <2>2
<1>2. \A T \in SUBSET S : T \in Good
  <2> HIDE DEF Good
  <2> QED BY <1>1, SubsetInduction
<1> QED BY <1>2 DEF IsSumOf

LEMMA SumRestricts ==
  ASSUME NEW f, NEW S, NEW h, IsSumOf(f, S, h), NEW T \in SUBSET S
  PROVE  IsSumOf(f, T, [U \in SUBSET T |-> h[U]])
BY ChoiceIn DEF IsSumOf

LEMMA SumExists ==
  ASSUME NEW f, NEW S, IsFiniteSet(S)
  PROVE  \E h : IsSumOf(f, S, h)
<1> DEFINE Good == {T \in SUBSET S : \E h : IsSumOf(f, T, h)}
<1>1. ASSUME NEW T \in SUBSET S, \A U \in SUBSET T : U # T => U \in Good
      PROVE  T \in Good
  <2> DEFINE G == [U \in SUBSET T |-> CHOOSE h : IsSumOf(f, U, h)]
             h == [U \in SUBSET T |-> IF U = {} THEN 0
                        ELSE f[Choice(U)] + G[U \ {Choice(U)}][U \ {Choice(U)}]]
  <2>1. \A U \in SUBSET T : U # T => IsSumOf(f, U, G[U])
    BY <1>1
  <2> HIDE DEF G
  <2>2. ASSUME NEW U \in SUBSET T, U # T
        PROVE  h[U] = G[U][U]
    <3>1. IsSumOf(f, U, G[U])
      BY <2>1, <2>2
    <3>2. CASE U = {}
      BY <3>1, <3>2 DEF IsSumOf
    <3>3. CASE U # {}
      <4>1. PICK x : x = Choice(U) /\ x \in U
        BY <3>3, ChoiceIn
      <4>2. PICK V : V = U \ {x}
        OBVIOUS
      <4>3. V \in SUBSET U /\ V \in SUBSET T /\ V # T
        BY <4>1, <4>2
      <4>4. IsSumOf(f, V, G[V])
        BY <2>1, <4>3
      <4>5. IsSumOf(f, V, [W \in SUBSET V |-> G[U][W]])
        BY <3>1, <4>3, SumRestricts
      <4>6. IsFiniteSet(V)
        BY <4>3, FS_Subset
      <4>7. G[V] = [W \in SUBSET V |-> G[U][W]]
        BY <4>4, <4>5, <4>6, SumUnique
      <4>8. G[V][V] = G[U][V]
        BY <4>7
      <4>9. G[U][U] = f[x] + G[U][V]
        BY <3>1, <3>3, <4>1, <4>2 DEF IsSumOf
      <4>10. h[U] = f[x] + G[V][V]
        BY <3>3, <4>1, <4>2
      <4> QED BY <4>8, <4>9, <4>10
    <3> QED BY <3>2, <3>3
  <2>3. h = [U \in SUBSET T |-> IF U = {} THEN 0 ELSE f[Choice(U)] + h[U \ {Choice(U)}]]
    <3>1. ASSUME NEW U \in SUBSET T, U # {}
          PROVE  h[U] = f[Choice(U)] + h[U \ {Choice(U)}]
      <4>1. PICK x : x = Choice(U) /\ x \in U
        BY <3>1, ChoiceIn
      <4>2. U \ {x} \in SUBSET T /\ U \ {x} # T
        BY <4>1
      <4>3. h[U] = f[x] + G[U \ {x}][U \ {x}]
        BY <3>1, <4>1
      <4> HIDE DEF h
      <4> QED BY <2>2, <4>1, <4>2, <4>3
    <3>2. h = [U \in SUBSET T |-> h[U]] /\ h[{}] = 0
      OBVIOUS
    <3> HIDE DEF h
    <3> QED BY <3>1, <3>2
  <2> HIDE DEF h
  <2>4. IsSumOf(f, T, h)
    BY <2>3 DEF IsSumOf
  <2> QED BY <2>4
<1>2. \A T \in SUBSET S : T \in Good
  <2> HIDE DEF Good
  <2> QED BY <1>1, SubsetInduction
<1> QED BY <1>2

\* What the operator of the community modules computes.
LEMMA SumIs ==
  ASSUME NEW f, NEW S, IsFiniteSet(S), NEW h, IsSumOf(f, S, h)
  PROVE  SumFunctionOnSet(f, S) = h[S]
<1>1. \A g : IsSumOf(f, S, g) => g = h
  BY SumUnique
<1>2. SumFunctionOnSet(f, S) = (CHOOSE g : IsSumOf(f, S, g))[S]
  BY DEF SumFunctionOnSet, FoldFunctionOnSet, MapThenFoldSet, IsSumOf, Choice
<1> QED BY <1>1, <1>2

-----------------------------------------------------------------------------
(* Sums do not depend on the order *)

LEMMA SumOfNothing ==
  ASSUME NEW f
  PROVE  SumFunctionOnSet(f, {}) = 0
<1>1. IsFiniteSet({})
  BY FS_EmptySet
<1>2. PICK h : IsSumOf(f, {}, h)
  BY <1>1, SumExists
<1>3. h[{}] = 0
  BY <1>2 DEF IsSumOf
<1> QED BY <1>1, <1>2, <1>3, SumIs

\* Taking out the element that the fold takes first.
LEMMA SumStep ==
  ASSUME NEW f, NEW S, IsFiniteSet(S), S # {}
  PROVE  /\ Choice(S) \in S
         /\ SumFunctionOnSet(f, S) = f[Choice(S)] + SumFunctionOnSet(f, S \ {Choice(S)})
<1>1. PICK h : IsSumOf(f, S, h)
  BY SumExists
<1>2. PICK x, T : x = Choice(S) /\ T = S \ {x}
  OBVIOUS
<1>3. x \in S /\ T \in SUBSET S /\ IsFiniteSet(T)
  BY <1>2, ChoiceIn, FS_Subset
<1>4. IsSumOf(f, T, [U \in SUBSET T |-> h[U]])
  BY <1>1, <1>3, SumRestricts
<1>5. SumFunctionOnSet(f, T) = h[T]
  BY <1>3, <1>4, SumIs
<1>6. SumFunctionOnSet(f, S) = h[S]
  BY <1>1, SumIs
<1>7. h[S] = f[x] + h[T]
  BY <1>1, <1>2 DEF IsSumOf
<1> QED BY <1>2, <1>3, <1>5, <1>6, <1>7

LEMMA SumType ==
  ASSUME NEW f, NEW S, IsFiniteSet(S), \A x \in S : f[x] \in Int
  PROVE  SumFunctionOnSet(f, S) \in Int
<1> DEFINE Good == {T \in SUBSET S : SumFunctionOnSet(f, T) \in Int}
<1>1. ASSUME NEW T \in SUBSET S, \A U \in SUBSET T : U # T => U \in Good
      PROVE  T \in Good
  <2>1. CASE T = {}
    BY <2>1, SumOfNothing
  <2>2. CASE T # {}
    <3>1. PICK x : x = Choice(T)
      OBVIOUS
    <3>2. x \in T /\ SumFunctionOnSet(f, T) = f[x] + SumFunctionOnSet(f, T \ {x})
      BY <2>2, <3>1, SumStep, FS_Subset
    <3>3. SumFunctionOnSet(f, T \ {x}) \in Int
      BY <1>1, <3>2
    <3>4. f[x] \in Int
      BY <3>2
    <3> QED BY <3>2, <3>3, <3>4
  <2> QED BY <2>1, <2>2
<1>2. S \in Good
  <2>1. \A T \in SUBSET S : T \in Good
    <3> HIDE DEF Good
    <3> QED BY <1>1, SubsetInduction
  <2> QED BY <2>1
<1> QED BY <1>2

\* Any element may be taken out first.
LEMMA SumRemove ==
  ASSUME NEW f, NEW S, IsFiniteSet(S), \A y \in S : f[y] \in Int, NEW x \in S
  PROVE  SumFunctionOnSet(f, S) = f[x] + SumFunctionOnSet(f, S \ {x})
<1> DEFINE Good == {T \in SUBSET S : \A y \in T :
                SumFunctionOnSet(f, T) = f[y] + SumFunctionOnSet(f, T \ {y})}
<1>1. ASSUME NEW T \in SUBSET S, \A U \in SUBSET T : U # T => U \in Good
      PROVE  T \in Good
  <2> SUFFICES ASSUME NEW y \in T
               PROVE  SumFunctionOnSet(f, T) = f[y] + SumFunctionOnSet(f, T \ {y})
    OBVIOUS
  <2>1. PICK c : c = Choice(T)
    OBVIOUS
  <2>2. IsFiniteSet(T)
    BY FS_Subset
  <2>3. c \in T /\ SumFunctionOnSet(f, T) = f[c] + SumFunctionOnSet(f, T \ {c})
    BY <2>1, <2>2, SumStep
  <2>4. CASE y # c
    <3>1. PICK V : V = (T \ {c}) \ {y}
      OBVIOUS
    <3>2. T \ {c} \in Good /\ T \ {y} \in Good
      BY <1>1, <2>3
    <3>3. SumFunctionOnSet(f, T \ {c}) = f[y] + SumFunctionOnSet(f, V)
      BY <2>4, <3>1, <3>2
    <3>4. V = (T \ {y}) \ {c} /\ c \in T \ {y}
      BY <2>3, <2>4, <3>1
    <3>5. SumFunctionOnSet(f, T \ {y}) = f[c] + SumFunctionOnSet(f, V)
      BY <3>2, <3>4
    <3>6. f[c] \in Int /\ f[y] \in Int /\ IsFiniteSet(V) /\ V \subseteq S
      BY <2>2, <2>3, <3>1, FS_Subset
    <3>7. SumFunctionOnSet(f, V) \in Int
      BY <3>6, SumType
    <3> HIDE DEF Good
    <3> QED BY <2>3, <3>3, <3>5, <3>6, <3>7
  <2> QED BY <2>3, <2>4
<1>2. S \in Good
  <2>1. \A T \in SUBSET S : T \in Good
    <3> HIDE DEF Good
    <3> QED BY <1>1, SubsetInduction
  <2> QED BY <2>1
<1> QED BY <1>2

LEMMA SumAdd ==
  ASSUME NEW f, NEW S, IsFiniteSet(S), \A y \in S : f[y] \in Int, NEW x, x \notin S, f[x] \in Int
  PROVE  SumFunctionOnSet(f, S \cup {x}) = f[x] + SumFunctionOnSet(f, S)
<1>1. PICK T : T = S \cup {x}
  OBVIOUS
<1>2. IsFiniteSet(T) /\ x \in T /\ T \ {x} = S /\ \A y \in T : f[y] \in Int
  BY <1>1, FS_AddElement
<1>3. SumFunctionOnSet(f, T) = f[x] + SumFunctionOnSet(f, T \ {x})
  BY <1>2, SumRemove
<1> QED BY <1>1, <1>2, <1>3

LEMMA SumUnion ==
  ASSUME NEW f, NEW S, IsFiniteSet(S), NEW T, IsFiniteSet(T), S \cap T = {},
         \A x \in S \cup T : f[x] \in Int
  PROVE  SumFunctionOnSet(f, S \cup T) = SumFunctionOnSet(f, S) + SumFunctionOnSet(f, T)
<1> DEFINE Good == {U \in SUBSET T :
                SumFunctionOnSet(f, S \cup U) = SumFunctionOnSet(f, S) + SumFunctionOnSet(f, U)}
<1>1. SumFunctionOnSet(f, S) \in Int
  BY SumType
<1>2. {} \in Good
  <2>1. S \cup {} = S
    OBVIOUS
  <2> QED BY <1>1, <2>1, SumOfNothing
<1>3. ASSUME NEW U \in SUBSET T, NEW x \in T \ U, U \in Good
      PROVE  U \cup {x} \in Good
  <2>1. PICK A : A = S \cup U
    OBVIOUS
  <2>2. IsFiniteSet(U) /\ IsFiniteSet(A) /\ x \notin A /\ f[x] \in Int
        /\ \A y \in A : f[y] \in Int
    BY <2>1, FS_Subset, FS_Union
  <2>3. SumFunctionOnSet(f, A \cup {x}) = f[x] + SumFunctionOnSet(f, A)
    BY <2>2, SumAdd
  <2>4. SumFunctionOnSet(f, U \cup {x}) = f[x] + SumFunctionOnSet(f, U)
    BY <2>2, SumAdd
  <2>5. SumFunctionOnSet(f, U) \in Int
    BY <2>2, SumType
  <2>6. SumFunctionOnSet(f, A) = SumFunctionOnSet(f, S) + SumFunctionOnSet(f, U)
    BY <1>3, <2>1
  <2>7. S \cup (U \cup {x}) = A \cup {x}
    BY <2>1
  <2>8. SumFunctionOnSet(f, S \cup (U \cup {x}))
            = SumFunctionOnSet(f, S) + SumFunctionOnSet(f, U \cup {x})
    <3>1. SumFunctionOnSet(f, S \cup (U \cup {x})) = SumFunctionOnSet(f, A \cup {x})
      BY <2>7
    <3>2. f[x] \in Int
      BY <2>2
    <3> HIDE DEF Good
    <3> QED BY <1>1, <2>3, <2>4, <2>5, <2>6, <3>1, <3>2
  <2> QED BY <2>8
<1>4. T \in Good
  <2> HIDE DEF Good
  <2> QED BY <1>2, <1>3, FiniteInduction
<1> QED BY <1>4

LEMMA SumDifference ==
  ASSUME NEW f, NEW S, IsFiniteSet(S), NEW T \in SUBSET S, \A x \in S : f[x] \in Int
  PROVE  /\ SumFunctionOnSet(f, S \ T) = SumFunctionOnSet(f, S) - SumFunctionOnSet(f, T)
         /\ SumFunctionOnSet(f, S) \in Int /\ SumFunctionOnSet(f, T) \in Int
<1>1. PICK U : U = S \ T
  OBVIOUS
<1>2. IsFiniteSet(U) /\ IsFiniteSet(T) /\ U \cap T = {} /\ U \cup T = S
  BY <1>1, FS_Subset
<1>3. SumFunctionOnSet(f, U \cup T) = SumFunctionOnSet(f, U) + SumFunctionOnSet(f, T)
  BY <1>2, SumUnion
<1>4. /\ SumFunctionOnSet(f, S) \in Int /\ SumFunctionOnSet(f, T) \in Int
      /\ SumFunctionOnSet(f, U) \in Int
  BY <1>2, SumType
<1> QED BY <1>1, <1>2, <1>3, <1>4

\* A sum is the sum of equal terms under other names.
LEMMA SumReindex ==
  ASSUME NEW S, IsFiniteSet(S), NEW f, NEW g, NEW b,
         \A x \in S : f[x] \in Int /\ g[b[x]] = f[x],
         \A x, y \in S : b[x] = b[y] => x = y
  PROVE  /\ IsFiniteSet({b[x] : x \in S})
         /\ SumFunctionOnSet(g, {b[x] : x \in S}) = SumFunctionOnSet(f, S)
<1> DEFINE Im(T) == {b[x] : x \in T}
           Good == {T \in SUBSET S :
                IsFiniteSet(Im(T)) /\ SumFunctionOnSet(g, Im(T)) = SumFunctionOnSet(f, T)}
<1>1. {} \in Good
  <2>1. Im({}) = {}
    OBVIOUS
  <2> QED BY <2>1, SumOfNothing, FS_EmptySet
<1>2. ASSUME NEW T \in SUBSET S, NEW x \in S \ T, T \in Good
      PROVE  T \cup {x} \in Good
  <2>1. PICK A : A = Im(T)
    OBVIOUS
  <2>2. Im(T \cup {x}) = A \cup {b[x]} /\ b[x] \notin A /\ g[b[x]] = f[x] /\ f[x] \in Int
        /\ \A z \in A : g[z] \in Int
    BY <2>1
  <2>3. IsFiniteSet(A) /\ SumFunctionOnSet(g, A) = SumFunctionOnSet(f, T)
    BY <1>2, <2>1
  <2>4. IsFiniteSet(T) /\ \A y \in T : f[y] \in Int
    BY FS_Subset
  <2>5. SumFunctionOnSet(g, A \cup {b[x]}) = g[b[x]] + SumFunctionOnSet(g, A)
    BY <2>2, <2>3, SumAdd
  <2>6. SumFunctionOnSet(f, T \cup {x}) = f[x] + SumFunctionOnSet(f, T)
    BY <2>2, <2>4, SumAdd
  <2>7. IsFiniteSet(A \cup {b[x]})
    BY <2>3, FS_AddElement
  <2>8. IsFiniteSet(Im(T \cup {x}))
        /\ SumFunctionOnSet(g, Im(T \cup {x})) = SumFunctionOnSet(f, T \cup {x})
    <3> HIDE DEF Im, Good
    <3> QED BY <2>2, <2>3, <2>5, <2>6, <2>7
  <2> HIDE DEF Im
  <2> QED BY <2>8
<1>3. S \in Good
  <2> HIDE DEF Good, Im
  <2> QED BY <1>1, <1>2, FiniteInduction
<1> QED BY <1>3

\* It depends on nothing but the terms.
LEMMA SumSameTerms ==
  ASSUME NEW S, IsFiniteSet(S), NEW f, NEW g, \A x \in S : f[x] \in Int /\ g[x] = f[x]
  PROVE  SumFunctionOnSet(g, S) = SumFunctionOnSet(f, S)
<1>1. PICK b : b = [x \in S |-> x]
  OBVIOUS
<1>2. {b[x] : x \in S} = S
  BY <1>1
<1>3. /\ \A x \in S : f[x] \in Int /\ g[b[x]] = f[x]
      /\ \A x, y \in S : b[x] = b[y] => x = y
  BY <1>1
<1>4. SumFunctionOnSet(g, {b[x] : x \in S}) = SumFunctionOnSet(f, S)
  BY <1>3, SumReindex
<1> QED BY <1>2, <1>4

LEMMA FiniteImage ==
  ASSUME NEW S, IsFiniteSet(S), NEW b
  PROVE  IsFiniteSet({b[x] : x \in S})
<1> DEFINE Im(T) == {b[x] : x \in T}
           Good == {T \in SUBSET S : IsFiniteSet(Im(T))}
<1>1. {} \in Good
  <2>1. Im({}) = {}
    OBVIOUS
  <2> QED BY <2>1, FS_EmptySet
<1>2. ASSUME NEW T \in SUBSET S, NEW x \in S \ T, T \in Good
      PROVE  T \cup {x} \in Good
  <2>1. PICK A : A = Im(T)
    OBVIOUS
  <2>2. Im(T \cup {x}) = A \cup {b[x]}
    BY <2>1
  <2>3. IsFiniteSet(A)
    BY <1>2, <2>1
  <2>4. IsFiniteSet(A \cup {b[x]})
    BY <2>3, FS_AddElement
  <2>5. IsFiniteSet(Im(T \cup {x}))
    <3> HIDE DEF Im, Good
    <3> QED BY <2>2, <2>4
  <2> HIDE DEF Im
  <2> QED BY <2>5
<1>3. S \in Good
  <2> HIDE DEF Good, Im
  <2> QED BY <1>1, <1>2, FiniteInduction
<1> QED BY <1>3

\* As many values as arguments if and only if no two arguments share one.
LEMMA DistinctValues ==
  ASSUME NEW S, IsFiniteSet(S), NEW b
  PROVE  /\ Cardinality({b[x] : x \in S}) \in Nat
         /\ Cardinality({b[x] : x \in S}) = Cardinality(S)
                <=> \A x, y \in S : b[x] = b[y] => x = y
<1>1. PICK f, T : f = [x \in S |-> b[x]] /\ T = {b[x] : x \in S}
  <2>1. \E f : f = [x \in S |-> b[x]]
    OBVIOUS
  <2>2. \E T : T = {b[x] : x \in S}
    OBVIOUS
  <2> QED BY <2>1, <2>2
<1>2. f \in [S -> T]
  BY <1>1
<1>3. f \in Surjection(S, T)
  BY <1>1, <1>2 DEF Surjection, Range
<1>4. f \in Injection(S, T) <=> \A x, y \in S : b[x] = b[y] => x = y
  BY <1>1, <1>2 DEF Injection, IsInjective
<1>5. Cardinality(T) = Cardinality(S) <=> f \in Injection(S, T)
  BY <1>3, FS_Surjection
<1>6. Cardinality(T) \in Nat
  BY <1>3, FS_Surjection, FS_CardinalityType
<1> QED BY <1>1, <1>4, <1>5, <1>6
=============================================================================
