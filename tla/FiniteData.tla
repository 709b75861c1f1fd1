----------------------------- MODULE FiniteData -----------------------------
(***************************************************************************)
(* Facts about finite sets: induction, sorting, sums.                      *)
(*                                                                         *)
(* The induction is over the subsets of a finite set, ordered by strict    *)
(* inclusion, which is well-founded.  It is stated with the set of the     *)
(* subsets that have the property, so that it needs no operator as a       *)
(* parameter.                                                              *)
(***************************************************************************)
EXTENDS Integers, FiniteSets, FiniteSetsExt, FiniteSetTheorems, TLAPS

\* Induction over the subsets of a finite set.
LEMMA SubsetsAreWellFounded ==
  ASSUME NEW S, IsFiniteSet(S)
  PROVE  IsWellFoundedOn(StrictSubsetOrdering(S), SUBSET S)
BY FS_StrictSubsetOrderingWellFounded, FS_FiniteSubsetsOfFinite

\* Every nonempty collection of subsets has a smallest one in it.
LEMMA MinimalSubset ==
  ASSUME NEW S, IsFiniteSet(S), NEW Q \in SUBSET SUBSET S, Q # {}
  PROVE  \E T \in Q : \A U \in SUBSET T : U # T => U \notin Q
<1> DEFINE R == StrictSubsetOrdering(S)
<1>1. IsWellFoundedOn(R, SUBSET S)
  BY SubsetsAreWellFounded
<1> HIDE DEF R
<1>2. PICK T \in Q : \A U \in Q : <<U, T>> \notin R
  BY <1>1, WFMin, Zenon
<1>3. ASSUME NEW U \in SUBSET T, U # T, U \in Q PROVE FALSE
  <2>1. <<U, T>> \in R
    BY <1>3 DEF R, StrictSubsetOrdering
  <2> QED BY <1>2, <1>3, <2>1
<1> QED BY <1>3

\* A property P that every subset inherits from the smaller ones holds of all.
LEMMA StrongSetInduction ==
  ASSUME NEW S, IsFiniteSet(S), NEW P,
         \A T \in SUBSET S : (\A U \in SUBSET T : U # T => U \in P) => T \in P
  PROVE  \A T \in SUBSET S : T \in P
<1> SUFFICES ASSUME NEW B \in SUBSET S, B \notin P PROVE FALSE
  OBVIOUS
<1> DEFINE Bad == {T \in SUBSET S : T \notin P}
<1>1. Bad \in SUBSET SUBSET S /\ Bad # {}
  OBVIOUS
<1> HIDE DEF Bad
<1>2. PICK T \in Bad : \A U \in SUBSET T : U # T => U \notin Bad
  BY <1>1, MinimalSubset
<1>3. T \in SUBSET S /\ T \notin P
  BY <1>2 DEF Bad
<1>4. \A U \in SUBSET T : U # T => U \in P
  BY <1>2, <1>3 DEF Bad
<1> QED BY <1>3, <1>4

\* A property of {} that survives one more element holds of the whole set.
LEMMA SetInduction ==
  ASSUME NEW S, IsFiniteSet(S), NEW P, {} \in P,
         \A T \in SUBSET S : \A x \in S \ T : T \in P => T \cup {x} \in P
  PROVE  S \in P
<1>1. ASSUME NEW T \in SUBSET S, \A U \in SUBSET T : U # T => U \in P
      PROVE  T \in P
  <2>1. CASE T = {}
    BY <2>1
  <2>2. ASSUME NEW x \in T PROVE T \in P
    <3>1. T \ {x} \in P
      BY <1>1, <2>2
    <3>2. (T \ {x}) \cup {x} = T
      BY <2>2
    <3>3. (T \ {x}) \cup {x} \in P
      BY <2>2, <3>1
    <3> QED BY <3>2, <3>3
  <2> QED BY <2>1, <2>2
<1> QED BY <1>1, StrongSetInduction

\* Induction from 0 to n.
LEMMA CountingInduction ==
  ASSUME NEW n \in Nat, NEW P, 0 \in P, \A k \in 0..(n - 1) : k \in P => k + 1 \in P
  PROVE  n \in P
<1> DEFINE Q == {T \in SUBSET (0..n) : \A k \in 0..n : T = 0..k => k \in P}
<1>1. IsFiniteSet(0..n)
  BY FS_Interval
<1>2. ASSUME NEW T \in SUBSET (0..n), \A U \in SUBSET T : U # T => U \in Q
      PROVE  T \in Q
  <2> SUFFICES ASSUME NEW k \in 0..n, T = 0..k PROVE k \in P
    OBVIOUS
  <2>1. CASE k = 0
    BY <2>1
  <2>2. CASE k # 0
    <3>1. k - 1 \in 0..n /\ k - 1 \in 0..(n - 1) /\ k \in Int
      BY <2>2
    <3>2. 0..(k - 1) \in SUBSET T /\ k \notin 0..(k - 1) /\ k \in T
      OBVIOUS
    <3>3. 0..(k - 1) \in Q
      BY <1>2, <3>2
    <3>4. k - 1 \in P
      BY <3>1, <3>3
    <3>5. (k - 1) + 1 \in P
      BY <3>1, <3>4
    <3> QED BY <3>1, <3>5
  <2> QED BY <2>1, <2>2
<1>3. \A T \in SUBSET (0..n) : T \in Q
  <2> HIDE DEF Q
  <2> QED BY <1>1, <1>2, StrongSetInduction
<1> QED BY <1>3

\* What a function makes of a finite set is finite.
LEMMA ImageIsFinite ==
  ASSUME NEW S, IsFiniteSet(S), NEW f, DOMAIN f = S
  PROVE  IsFiniteSet({f[x] : x \in S})
<1> DEFINE T == {f[x] : x \in S}
           g == [x \in S |-> f[x]]
<1>1. g \in [S -> T] /\ \A y \in T : \E x \in S : g[x] = y
  OBVIOUS
<1> HIDE DEF T, g
<1>2. g \in Surjection(S, T)
  BY <1>1 DEF Surjection
<1>3. IsFiniteSet(T)
  BY <1>2, FS_Surjection
<1> QED BY <1>3 DEF T

-----------------------------------------------------------------------------
(***************************************************************************)
(* Sorting, by an order given as the set R of the pairs that are in order. *)
(***************************************************************************)
IsOrder(R, E) ==
  /\ \A p \in E : <<p, p>> \notin R
  /\ \A p, q \in E : p # q => <<p, q>> \in R \/ <<q, p>> \in R
  /\ \A p, q, r \in E : <<p, q>> \in R /\ <<q, r>> \in R => <<p, r>> \in R

\* The members of E in order.
InOrder(s, R)  == \A a, b \in DOMAIN s : a < b => <<s[a], s[b]>> \in R
Listing(E, R)  == {s \in [1..Cardinality(E) -> E] : InOrder(s, R)}

\* One member comes after all the others.
LEMMA LastMember ==
  ASSUME NEW E, IsFiniteSet(E), E # {}, NEW R, IsOrder(R, E)
  PROVE  \E x \in E : \A y \in E \ {x} : <<y, x>> \in R
<1> DEFINE P == {T \in SUBSET E : T # {} => \E x \in T : \A y \in T \ {x} : <<y, x>> \in R}
<1>1. {} \in P
  OBVIOUS
<1>2. ASSUME NEW T \in SUBSET E, NEW z \in E \ T, T \in P PROVE T \cup {z} \in P
  <2>1. CASE T = {}
    BY <2>1
  <2>2. CASE T # {}
    <3>1. PICK x \in T : \A y \in T \ {x} : <<y, x>> \in R
      BY <1>2, <2>2
    <3>2. CASE <<x, z>> \in R
      <4>1. \A y \in T : <<y, z>> \in R
        BY <3>1, <3>2 DEF IsOrder
      <4> QED BY <4>1
    <3>3. CASE <<z, x>> \in R
      <4>1. \A y \in (T \cup {z}) \ {x} : <<y, x>> \in R
        BY <3>1, <3>3
      <4> QED BY <4>1
    <3>4. <<x, z>> \in R \/ <<z, x>> \in R
      BY DEF IsOrder
    <3> QED BY <3>2, <3>3, <3>4
  <2> QED BY <2>1, <2>2
<1>3. E \in P
  <2> HIDE DEF P
  <2> QED BY <1>1, <1>2, SetInduction
<1> QED BY <1>3

\* Any finite set can be sorted.
LEMMA ListingExists ==
  ASSUME NEW E, IsFiniteSet(E), NEW R, IsOrder(R, E)
  PROVE  Listing(E, R) # {}
<1> DEFINE P == {T \in SUBSET E : Listing(T, R) # {}}
<1>1. ASSUME NEW T \in SUBSET E, \A U \in SUBSET T : U # T => U \in P
      PROVE  T \in P
  <2>0. IsFiniteSet(T)
    BY FS_Subset
  <2>1. CASE T = {}
    <3>1. Cardinality(T) = 0
      BY <2>1, FS_EmptySet
    <3>2. [a \in 1..0 |-> 0] \in [1..0 -> T]
      OBVIOUS
    <3>3. InOrder([a \in 1..0 |-> 0], R)
      BY DEF InOrder
    <3>4. [a \in 1..0 |-> 0] \in Listing(T, R)
      BY <3>1, <3>2, <3>3 DEF Listing
    <3> QED BY <3>4
  <2>2. CASE T # {}
    <3>0. IsOrder(R, T)
      BY DEF IsOrder
    <3>1. PICK x \in T : \A y \in T \ {x} : <<y, x>> \in R
      BY <2>0, <2>2, <3>0, LastMember
    <3>2. PICK U, n : U = T \ {x} /\ n = Cardinality(U)
      OBVIOUS
    <3>3. U \in P /\ n \in Nat /\ Cardinality(T) = n + 1
      <4>1. IsFiniteSet(U) /\ Cardinality(U) = Cardinality(T) - 1
        BY <2>0, <3>2, FS_RemoveElement
      <4>2. Cardinality(U) \in Nat /\ Cardinality(T) \in Nat
        BY <2>0, <4>1, FS_CardinalityType
      <4> QED BY <1>1, <3>2, <4>1, <4>2
    <3>4. PICK s : s \in [1..n -> U] /\ InOrder(s, R)
      BY <3>2, <3>3 DEF Listing
    <3>5. PICK t : t = [a \in 1..(n + 1) |-> IF a = n + 1 THEN x ELSE s[a]]
      OBVIOUS
    <3>6. /\ \A a \in 1..n : s[a] \in U /\ t[a] = s[a]
          /\ t[n + 1] = x /\ DOMAIN t = 1..(n + 1)
      BY <3>3, <3>4, <3>5
    <3>7. t \in [1..(n + 1) -> T]
      <4>1. \A a \in 1..(n + 1) : t[a] \in T
        <5> TAKE a \in 1..(n + 1)
        <5>1. a = n + 1 \/ a \in 1..n
          BY <3>3
        <5> QED BY <5>1, <3>2, <3>6
      <4> QED BY <4>1, <3>5
    <3>10. \A a \in 1..n : <<t[a], t[n + 1]>> \in R
      BY <3>1, <3>2, <3>6
    <3>8. InOrder(t, R)
      <4> SUFFICES ASSUME NEW a \in 1..(n + 1), NEW b \in 1..(n + 1), a < b
                   PROVE  <<t[a], t[b]>> \in R
        BY <3>5 DEF InOrder
      <4>1. a \in 1..n
        BY <3>3
      <4>2. CASE b = n + 1
        BY <3>10, <4>1, <4>2
      <4>3. CASE b # n + 1
        <5>1. b \in 1..n
          BY <3>3, <4>3
        <5>2. <<s[a], s[b]>> \in R
          BY <3>4, <4>1, <5>1 DEF InOrder
        <5> QED BY <3>6, <4>1, <5>1, <5>2
      <4> QED BY <4>2, <4>3
    <3>9. t \in Listing(T, R)
      BY <3>3, <3>7, <3>8 DEF Listing
    <3> QED BY <3>9
  <2> QED BY <2>1, <2>2
<1>2. \A T \in SUBSET E : T \in P
  <2> HIDE DEF P
  <2> QED BY <1>1, StrongSetInduction
<1> QED BY <1>2

\* A listing has everybody in it, once.
LEMMA ListingIs ==
  ASSUME NEW E, IsFiniteSet(E), NEW R, IsOrder(R, E), NEW s \in Listing(E, R)
  PROVE  /\ DOMAIN s = 1..Cardinality(E) /\ Cardinality(E) \in Nat
         /\ \A a \in DOMAIN s : s[a] \in E
         /\ \A a, b \in DOMAIN s : s[a] = s[b] => a = b
         /\ \A p \in E : \E a \in DOMAIN s : s[a] = p
<1>1. PICK n : n = Cardinality(E)
  OBVIOUS
<1>2. n \in Nat
  BY <1>1, FS_CardinalityType
<1>3. s \in [1..n -> E] /\ \A a, b \in 1..n : a < b => <<s[a], s[b]>> \in R
  BY <1>1 DEF Listing, InOrder
<1>4. ASSUME NEW a \in 1..n, NEW b \in 1..n, s[a] = s[b] PROVE a = b
  <2>1. s[a] \in E /\ <<s[a], s[a]>> \notin R
    BY <1>3 DEF IsOrder
  <2>2. ~(a < b) /\ ~(b < a)
    BY <1>3, <1>4, <2>1
  <2> QED BY <1>2, <2>2
<1>5. ASSUME NEW p \in E PROVE \E a \in 1..n : s[a] = p
  <2>1. s \in Injection(1..n, E)
    BY <1>3, <1>4 DEF Injection, IsInjective
  <2>2. IsFiniteSet(1..n) /\ Cardinality(1..n) = n
    BY <1>2, FS_Interval
  <2>3. s \in Surjection(1..n, E)
    BY <1>1, <2>1, <2>2, FS_Injection
  <2> QED BY <2>3 DEF Surjection
<1> QED BY <1>1, <1>2, <1>3, <1>4, <1>5

-----------------------------------------------------------------------------
(***************************************************************************)
(* Sums, as FiniteSetsExt!MapThenSumSet makes them.  The library folds     *)
(* with a recursive function that picks an element, takes it away and goes *)
(* on.                                                                     *)
(***************************************************************************)

\* The sum of f over S.
SumOver(f, S) == MapThenSumSet(LAMBDA x : f[x], S)

Pick(s) == CHOOSE x \in s : TRUE
Rec(g, f, D) == g = [s \in D |-> IF s = {} THEN 0 ELSE f[Pick(s)] + g[s \ {Pick(s)}]]
Fold(f, S) == CHOOSE g : Rec(g, f, SUBSET S)

LEMMA SumUnfold ==
  ASSUME NEW f, NEW S
  PROVE  SumOver(f, S) = Fold(f, S)[S]
BY DEF SumOver, MapThenSumSet, MapThenFoldSet, Pick, Rec, Fold

LEMMA PickIn ==
  ASSUME NEW s, s # {}
  PROVE  Pick(s) \in s
BY DEF Pick

LEMMA RecUnique ==
  ASSUME NEW f, NEW U, NEW V, V \subseteq U, IsFiniteSet(V), NEW g, NEW h,
         Rec(g, f, SUBSET U), Rec(h, f, SUBSET V)
  PROVE  g[V] = h[V]
<1> DEFINE P == {T \in SUBSET V : g[T] = h[T]}
<1>1. ASSUME NEW T \in SUBSET V, \A W \in SUBSET T : W # T => W \in P
      PROVE  T \in P
  <2>1. CASE T = {}
    BY <2>1 DEF Rec
  <2>2. CASE T # {}
    <3>1. Pick(T) \in T
      BY <2>2, PickIn
    <3>2. T \ {Pick(T)} \in P
      BY <1>1, <3>1
    <3>3. g[T] = f[Pick(T)] + g[T \ {Pick(T)}] /\ h[T] = f[Pick(T)] + h[T \ {Pick(T)}]
      BY <2>2 DEF Rec
    <3> QED BY <3>2, <3>3
  <2> QED BY <2>1, <2>2
<1>2. \A T \in SUBSET V : T \in P
  <2> HIDE DEF P
  <2> QED BY <1>1, StrongSetInduction
<1> QED BY <1>2

LEMMA FoldAgrees ==
  ASSUME NEW f, NEW U, NEW V, V \subseteq U, IsFiniteSet(U),
         Rec(Fold(f, U), f, SUBSET U), Rec(Fold(f, V), f, SUBSET V)
  PROVE  Fold(f, U)[V] = Fold(f, V)[V]
<1>1. IsFiniteSet(V)
  BY FS_Subset
<1>2. PICK g : g = Fold(f, U)
  OBVIOUS
<1>3. PICK h : h = Fold(f, V)
  OBVIOUS
<1>4. Rec(g, f, SUBSET U) /\ Rec(h, f, SUBSET V)
  BY <1>2, <1>3
<1>5. g[V] = h[V]
  BY <1>1, <1>4, RecUnique, SMTT(30)
<1> QED BY <1>2, <1>3, <1>5

LEMMA FoldExists ==
  ASSUME NEW f, NEW S, IsFiniteSet(S)
  PROVE  Rec(Fold(f, S), f, SUBSET S)
<1> DEFINE P == {T \in SUBSET S : Rec(Fold(f, T), f, SUBSET T)}
<1>1. ASSUME NEW T \in SUBSET S, \A W \in SUBSET T : W # T => W \in P
      PROVE  T \in P
  <2> DEFINE g == [s \in SUBSET T |-> IF s = {} THEN 0
                     ELSE f[Pick(s)] + Fold(f, s \ {Pick(s)})[s \ {Pick(s)}]]
  <2>1. ASSUME NEW w \in SUBSET T, w # T PROVE g[w] = Fold(f, w)[w]
    <3>1. Rec(Fold(f, w), f, SUBSET w)
      BY <1>1, <2>1
    <3>2. CASE w = {}
      BY <3>1, <3>2 DEF Rec
    <3>3. CASE w # {}
      <4> DEFINE v == w \ {Pick(w)}
      <4>1. Pick(w) \in w
        BY <3>3, PickIn
      <4>2. v \in SUBSET T /\ v # T /\ v \in SUBSET S
        BY <4>1
      <4>3. Rec(Fold(f, v), f, SUBSET v)
        BY <1>1, <4>2
      <4>4. IsFiniteSet(w) /\ v \in SUBSET w
        BY <2>1, FS_Subset, w \in SUBSET S
      <4>6. Fold(f, w)[v] = Fold(f, v)[v]
        <5> HIDE DEF v
        <5> QED BY <3>1, <4>3, <4>4, FoldAgrees
      <4>7. Fold(f, w)[w] = f[Pick(w)] + Fold(f, w)[v]
        BY <3>1, <3>3 DEF Rec
      <4>8. g[w] = f[Pick(w)] + Fold(f, v)[v]
        BY <3>3
      <4> QED BY <4>6, <4>7, <4>8
    <3> QED BY <3>2, <3>3
  <2>2. ASSUME NEW s \in SUBSET T, s # {}
        PROVE  g[s] = f[Pick(s)] + g[s \ {Pick(s)}]
    <3>1. Pick(s) \in s
      BY <2>2, PickIn
    <3>2. g[s \ {Pick(s)}] = Fold(f, s \ {Pick(s)})[s \ {Pick(s)}]
      BY <2>1, <3>1
    <3>3. g[s] = f[Pick(s)] + Fold(f, s \ {Pick(s)})[s \ {Pick(s)}]
      BY <2>2
    <3> QED BY <3>2, <3>3
  <2>3. g[{}] = 0 /\ g = [s \in SUBSET T |-> g[s]]
    OBVIOUS
  <2>4. PICK h : h = g
    OBVIOUS
  <2>5. Rec(h, f, SUBSET T)
    <3>1. \A s \in SUBSET T : h[s] = IF s = {} THEN 0 ELSE f[Pick(s)] + h[s \ {Pick(s)}]
      BY <2>2, <2>3, <2>4
    <3>2. h = [s \in SUBSET T |-> h[s]]
      BY <2>3, <2>4
    <3> HIDE DEF g
    <3> QED BY <3>1, <3>2 DEF Rec
  <2>6. Rec(Fold(f, T), f, SUBSET T)
    BY <2>5 DEF Fold
  <2> QED BY <2>6
<1>2. \A T \in SUBSET S : T \in P
  <2> HIDE DEF P
  <2> QED BY <1>1, StrongSetInduction
<1> QED BY <1>2

LEMMA SumEmpty == ASSUME NEW f PROVE SumOver(f, {}) = 0
<1>1. Rec(Fold(f, {}), f, SUBSET {})
  BY FoldExists, FS_EmptySet
<1> QED BY <1>1, SumUnfold DEF Rec

LEMMA SumPick ==
  ASSUME NEW f, NEW S, IsFiniteSet(S), S # {}
  PROVE  SumOver(f, S) = f[Pick(S)] + SumOver(f, S \ {Pick(S)})
<1> DEFINE T == S \ {Pick(S)}
<1>1. Rec(Fold(f, S), f, SUBSET S)
  BY FoldExists
<1>2. IsFiniteSet(T) /\ T \in SUBSET S
  BY FS_Subset, T \in SUBSET S
<1>3. Rec(Fold(f, T), f, SUBSET T)
  BY <1>2, FoldExists
<1>4. Fold(f, S)[S] = f[Pick(S)] + Fold(f, S)[T]
  BY <1>1 DEF Rec
<1>5. Fold(f, T)[T] = Fold(f, S)[T]
  <2> HIDE DEF T
  <2> QED BY <1>1, <1>2, <1>3, FoldAgrees
<1> QED BY <1>4, <1>5, SumUnfold

LEMMA SumInt ==
  ASSUME NEW f, NEW S, IsFiniteSet(S), \A x \in S : f[x] \in Int
  PROVE  SumOver(f, S) \in Int
<1> DEFINE P == {T \in SUBSET S : SumOver(f, T) \in Int}
<1>1. ASSUME NEW T \in SUBSET S, \A W \in SUBSET T : W # T => W \in P
      PROVE  T \in P
  <2>1. CASE T = {}
    BY <2>1, SumEmpty
  <2>2. CASE T # {}
    <3>1. Pick(T) \in T /\ IsFiniteSet(T)
      BY <2>2, PickIn, FS_Subset
    <3>2. SumOver(f, T) = f[Pick(T)] + SumOver(f, T \ {Pick(T)})
      BY <2>2, <3>1, SumPick
    <3>3. SumOver(f, T \ {Pick(T)}) \in Int
      BY <1>1, <3>1
    <3> QED BY <3>1, <3>2, <3>3
  <2> QED BY <2>1, <2>2
<1>2. \A T \in SUBSET S : T \in P
  <2> HIDE DEF P
  <2> QED BY <1>1, StrongSetInduction
<1> QED BY <1>2

LEMMA SumRemove ==
  ASSUME NEW f, NEW S, IsFiniteSet(S), \A x \in S : f[x] \in Int, NEW a \in S
  PROVE  SumOver(f, S) = f[a] + SumOver(f, S \ {a})
<1> DEFINE P == {T \in SUBSET S : \A x \in T : SumOver(f, T) = f[x] + SumOver(f, T \ {x})}
<1>0. \A T \in SUBSET S : IsFiniteSet(T) /\ SumOver(f, T) \in Int
  BY FS_Subset, SumInt
<1>1. ASSUME NEW T \in SUBSET S, \A W \in SUBSET T : W # T => W \in P
      PROVE  T \in P
  <2> SUFFICES ASSUME NEW x \in T PROVE SumOver(f, T) = f[x] + SumOver(f, T \ {x})
    OBVIOUS
  <2> DEFINE p == Pick(T)
  <2>1. p \in T
    BY PickIn
  <2>2. SumOver(f, T) = f[p] + SumOver(f, T \ {p})
    BY <1>0, SumPick
  <2>3. CASE p = x
    BY <2>2, <2>3
  <2>4. CASE p # x
    <3> HIDE DEF p
    <3>1. SumOver(f, T \ {p}) = f[x] + SumOver(f, (T \ {p}) \ {x})
      BY <1>1, <2>1, <2>4
    <3>2. SumOver(f, T \ {x}) = f[p] + SumOver(f, (T \ {x}) \ {p})
      BY <1>1, <2>1, <2>4
    <3>3. (T \ {p}) \ {x} = (T \ {x}) \ {p}
      OBVIOUS
    <3>4. SumOver(f, (T \ {x}) \ {p}) \in Int /\ f[x] \in Int /\ f[p] \in Int
      BY <1>0, <2>1
    <3>5. SumOver(f, (T \ {p}) \ {x}) = SumOver(f, (T \ {x}) \ {p})
      BY <3>3
    <3> QED BY <2>2, <3>1, <3>2, <3>4, <3>5
  <2> QED BY <2>3, <2>4
<1>2. \A T \in SUBSET S : T \in P
  <2> HIDE DEF P
  <2> QED BY <1>1, StrongSetInduction
<1> QED BY <1>2

LEMMA SumEqual ==
  ASSUME NEW f, NEW g, NEW S, IsFiniteSet(S), \A x \in S : f[x] = g[x]
  PROVE  SumOver(f, S) = SumOver(g, S)
<1> DEFINE P == {T \in SUBSET S : SumOver(f, T) = SumOver(g, T)}
<1>1. ASSUME NEW T \in SUBSET S, \A W \in SUBSET T : W # T => W \in P
      PROVE  T \in P
  <2>1. CASE T = {}
    BY <2>1, SumEmpty
  <2>2. CASE T # {}
    <3>1. Pick(T) \in T /\ IsFiniteSet(T)
      BY <2>2, PickIn, FS_Subset
    <3>2. SumOver(f, T) = f[Pick(T)] + SumOver(f, T \ {Pick(T)})
      BY <2>2, <3>1, SumPick
    <3>3. SumOver(g, T) = g[Pick(T)] + SumOver(g, T \ {Pick(T)})
      BY <2>2, <3>1, SumPick
    <3>4. SumOver(f, T \ {Pick(T)}) = SumOver(g, T \ {Pick(T)})
      BY <1>1, <3>1
    <3>5. f[Pick(T)] = g[Pick(T)]
      BY <3>1
    <3> QED BY <3>2, <3>3, <3>4, <3>5
  <2> QED BY <2>1, <2>2
<1>2. \A T \in SUBSET S : T \in P
  <2> HIDE DEF P
  <2> QED BY <1>1, StrongSetInduction
<1> QED BY <1>2

LEMMA SumInsert ==
  ASSUME NEW f, NEW S, IsFiniteSet(S), NEW a, a \notin S, f[a] \in Int,
         \A x \in S : f[x] \in Int
  PROVE  SumOver(f, S \cup {a}) = f[a] + SumOver(f, S)
<1>1. PICK T : T = S \cup {a}
  OBVIOUS
<1>2. IsFiniteSet(T) /\ (\A x \in T : f[x] \in Int) /\ a \in T
  BY <1>1, FS_AddElement
<1>3. SumOver(f, T) = f[a] + SumOver(f, T \ {a})
  BY <1>2, SumRemove
<1>4. T \ {a} = S
  BY <1>1
<1> QED BY <1>1, <1>3, <1>4

\* A sum whose terms differ in one place only.
LEMMA SumChange ==
  ASSUME NEW f, NEW g, NEW S, IsFiniteSet(S), NEW a \in S,
         \A x \in S : f[x] \in Int /\ g[x] \in Int,
         \A x \in S \ {a} : f[x] = g[x]
  PROVE  SumOver(g, S) = SumOver(f, S) + g[a] - f[a]
<1>1. PICK T : T = S \ {a}
  OBVIOUS
<1>2. IsFiniteSet(T)
  BY <1>1, FS_RemoveElement
<1>3. SumOver(f, S) = f[a] + SumOver(f, T) /\ SumOver(g, S) = g[a] + SumOver(g, T)
  BY <1>1, SumRemove
<1>4. SumOver(f, T) = SumOver(g, T)
  BY <1>1, <1>2, SumEqual
<1>5. SumOver(f, T) \in Int
  BY <1>1, <1>2, SumInt
<1> QED BY <1>3, <1>4, <1>5

LEMMA SumZero ==
  ASSUME NEW f, NEW S, IsFiniteSet(S), \A x \in S : f[x] = 0
  PROVE  SumOver(f, S) = 0
<1> DEFINE P == {T \in SUBSET S : SumOver(f, T) = 0}
<1>1. {} \in P
  BY SumEmpty
<1>2. ASSUME NEW T \in SUBSET S, NEW x \in S \ T, T \in P PROVE T \cup {x} \in P
  <2>1. IsFiniteSet(T) /\ \A y \in T : f[y] \in Int
    BY FS_Subset
  <2>2. SumOver(f, T \cup {x}) = f[x] + SumOver(f, T)
    BY <2>1, SumInsert
  <2> QED BY <1>2, <2>2
<1>3. S \in P
  <2> HIDE DEF P
  <2> QED BY <1>1, <1>2, SetInduction
<1> QED BY <1>3

LEMMA SumPlus ==
  ASSUME NEW f, NEW g, NEW h, NEW S, IsFiniteSet(S),
         \A x \in S : f[x] \in Int /\ g[x] \in Int /\ h[x] = f[x] + g[x]
  PROVE  SumOver(h, S) = SumOver(f, S) + SumOver(g, S)
<1> DEFINE P == {T \in SUBSET S : SumOver(h, T) = SumOver(f, T) + SumOver(g, T)}
<1>1. {} \in P
  BY SumEmpty
<1>2. ASSUME NEW T \in SUBSET S, NEW x \in S \ T, T \in P PROVE T \cup {x} \in P
  <2>1. IsFiniteSet(T) /\ \A y \in S : f[y] \in Int /\ g[y] \in Int /\ h[y] \in Int
    BY FS_Subset
  <2>2. SumOver(f, T \cup {x}) = f[x] + SumOver(f, T)
    BY <2>1, SumInsert
  <2>3. SumOver(g, T \cup {x}) = g[x] + SumOver(g, T)
    BY <2>1, SumInsert
  <2>4. SumOver(h, T \cup {x}) = h[x] + SumOver(h, T)
    BY <2>1, SumInsert
  <2>5. SumOver(f, T) \in Int /\ SumOver(g, T) \in Int
    BY <2>1, SumInt
  <2>6. SumOver(h, T) = SumOver(f, T) + SumOver(g, T)
    BY <1>2
  <2>7. h[x] = f[x] + g[x] /\ f[x] \in Int /\ g[x] \in Int
    OBVIOUS
  <2>8. SumOver(h, T \cup {x}) = SumOver(f, T \cup {x}) + SumOver(g, T \cup {x})
    BY <2>2, <2>3, <2>4, <2>5, <2>6, <2>7
  <2> QED BY <2>8
<1>3. S \in P
  <2> HIDE DEF P
  <2> QED BY <1>1, <1>2, SetInduction
<1> QED BY <1>3

\* A sum of natural numbers is one.
LEMMA SumNonNegative ==
  ASSUME NEW f, NEW S, IsFiniteSet(S), \A x \in S : f[x] \in Nat
  PROVE  SumOver(f, S) \in Nat
<1> DEFINE P == {T \in SUBSET S : SumOver(f, T) \in Nat}
<1>1. {} \in P
  BY SumEmpty
<1>2. ASSUME NEW T \in SUBSET S, NEW x \in S \ T, T \in P PROVE T \cup {x} \in P
  <2>1. IsFiniteSet(T)
    BY FS_Subset
  <2>2. SumOver(f, T \cup {x}) = f[x] + SumOver(f, T)
    BY <2>1, SumInsert
  <2>3. f[x] \in Nat /\ SumOver(f, T) \in Nat
    BY <1>2
  <2> QED BY <2>2, <2>3
<1>3. S \in P
  <2> HIDE DEF P
  <2> QED BY <1>1, <1>2, SetInduction
<1> QED BY <1>3

\* Numbers that are never negative and add up to nothing are all zero.
LEMMA NothingToShare ==
  ASSUME NEW f, NEW S, IsFiniteSet(S), \A x \in S : f[x] \in Nat, SumOver(f, S) = 0
  PROVE  \A x \in S : f[x] = 0
<1> SUFFICES ASSUME NEW x \in S PROVE f[x] = 0
  OBVIOUS
<1>1. PICK T : T = S \ {x}
  OBVIOUS
<1>2. SumOver(f, S) = f[x] + SumOver(f, T)
  BY <1>1, SumRemove
<1>3. IsFiniteSet(T) /\ \A y \in T : f[y] \in Nat
  BY <1>1, FS_Subset, T \in SUBSET S
<1>4. SumOver(f, T) \in Nat
  BY <1>3, SumNonNegative
<1> QED BY <1>2, <1>4

\* Terms that are zero may be left out.
LEMMA SumSupport ==
  ASSUME NEW f, NEW S, IsFiniteSet(S), NEW D \in SUBSET S, \A x \in S : f[x] \in Int,
         \A x \in S \ D : f[x] = 0
  PROVE  SumOver(f, S) = SumOver(f, D)
<1> DEFINE E == S \ D
           P == {T \in SUBSET E : SumOver(f, D \cup T) = SumOver(f, D)}
<1>0. IsFiniteSet(E) /\ IsFiniteSet(D)
  BY FS_Subset, E \in SUBSET S
<1>1. {} \in P
  BY D \cup {} = D
<1>2. ASSUME NEW T \in SUBSET E, NEW x \in E \ T, T \in P PROVE T \cup {x} \in P
  <2>1. PICK U : U = D \cup T
    OBVIOUS
  <2>2. IsFiniteSet(U) /\ x \notin U /\ (\A y \in U : f[y] \in Int) /\ f[x] = 0
    BY <2>1, FS_Subset, D \cup T \in SUBSET S
  <2>3. SumOver(f, U \cup {x}) = f[x] + SumOver(f, U)
    BY <2>2, SumInsert
  <2>4. U \cup {x} = D \cup (T \cup {x})
    BY <2>1
  <2>5. SumOver(f, U) \in Int
    BY <2>2, SumInt
  <2>6. SumOver(f, U) = SumOver(f, D)
    BY <1>2, <2>1
  <2>7. SumOver(f, U \cup {x}) = SumOver(f, D)
    BY <2>2, <2>3, <2>5, <2>6
  <2>8. SumOver(f, D \cup (T \cup {x})) = SumOver(f, D)
    BY <2>4, <2>7
  <2> QED BY <2>8
<1>3. E \in P
  <2> HIDE DEF P
  <2> QED BY <1>0, <1>1, <1>2, SetInduction
<1> QED BY <1>3, D \cup E = S

\* Summing ones counts.
LEMMA SumOnes ==
  ASSUME NEW f, NEW S, IsFiniteSet(S), \A x \in S : f[x] = 1
  PROVE  SumOver(f, S) = Cardinality(S)
<1> DEFINE P == {T \in SUBSET S : SumOver(f, T) = Cardinality(T)}
<1>1. {} \in P
  BY SumEmpty, FS_EmptySet
<1>2. ASSUME NEW T \in SUBSET S, NEW x \in S \ T, T \in P PROVE T \cup {x} \in P
  <2>1. IsFiniteSet(T) /\ \A y \in T : f[y] \in Int
    BY FS_Subset
  <2>2. SumOver(f, T \cup {x}) = f[x] + SumOver(f, T)
    BY <2>1, SumInsert
  <2>3. Cardinality(T \cup {x}) = Cardinality(T) + 1 /\ Cardinality(T) \in Nat
    BY <2>1, FS_AddElement, FS_CardinalityType
  <2> QED BY <1>2, <2>2, <2>3
<1>3. S \in P
  <2> HIDE DEF P
  <2> QED BY <1>1, <1>2, SetInduction
<1> QED BY <1>3

\* Summing one number over and over multiplies it.
LEMMA SumConstant ==
  ASSUME NEW f, NEW S, IsFiniteSet(S), NEW k \in Int, \A x \in S : f[x] = k
  PROVE  SumOver(f, S) = k * Cardinality(S)
<1> DEFINE P == {T \in SUBSET S : SumOver(f, T) = k * Cardinality(T)}
<1>1. {} \in P
  BY SumEmpty, FS_EmptySet
<1>2. ASSUME NEW T \in SUBSET S, NEW x \in S \ T, T \in P PROVE T \cup {x} \in P
  <2>1. IsFiniteSet(T) /\ \A y \in T : f[y] \in Int
    BY FS_Subset
  <2>2. SumOver(f, T \cup {x}) = k + SumOver(f, T)
    BY <2>1, SumInsert
  <2>3. Cardinality(T \cup {x}) = Cardinality(T) + 1 /\ Cardinality(T) \in Nat
    BY <2>1, FS_AddElement, FS_CardinalityType
  <2>4. \A n \in Nat : k + k * n = k * (n + 1)
    OBVIOUS
  <2>5. SumOver(f, T) = k * Cardinality(T)
    BY <1>2
  <2>6. SumOver(f, T \cup {x}) = k * Cardinality(T \cup {x})
    BY <2>2, <2>3, <2>4, <2>5
  <2> QED BY <2>6
<1>3. S \in P
  <2> HIDE DEF P
  <2> QED BY <1>1, <1>2, SetInduction
<1> QED BY <1>3

\* The order of summation does not matter.
LEMMA SumSwap ==
  ASSUME NEW S, IsFiniteSet(S), NEW T, IsFiniteSet(T), NEW m,
         \A x \in S, y \in T : m[x][y] \in Int
  PROVE  SumOver([x \in S |-> SumOver(m[x], T)], S)
           = SumOver([y \in T |-> SumOver([x \in S |-> m[x][y]], S)], T)
<1> DEFINE L(A) == SumOver([x \in S |-> SumOver(m[x], T)], A)
           C(A) == [y \in T |-> SumOver([x \in S |-> m[x][y]], A)]
           R(A) == SumOver(C(A), T)
           P == {A \in SUBSET S : L(A) = R(A)}
<1>1. {} \in P
  <2>1. \A y \in T : C({})[y] = 0
    BY SumEmpty
  <2>2. R({}) = 0
    <3> HIDE DEF C
    <3> QED BY <2>1, SumZero
  <2> QED BY <2>2, SumEmpty
<1>2. ASSUME NEW A \in SUBSET S, NEW a \in S \ A, A \in P PROVE A \cup {a} \in P
  <2>1. IsFiniteSet(A)
    BY FS_Subset
  <2>2. \A x \in S : SumOver(m[x], T) \in Int
    BY SumInt
  <2>3. L(A \cup {a}) = SumOver(m[a], T) + L(A)
    <3> DEFINE f == [x \in S |-> SumOver(m[x], T)]
    <3>1. f[a] = SumOver(m[a], T) /\ f[a] \in Int /\ \A x \in A : f[x] \in Int
      BY <2>2
    <3> HIDE DEF f
    <3>2. SumOver(f, A \cup {a}) = f[a] + SumOver(f, A)
      BY <2>1, <3>1, SumInsert
    <3> QED BY <3>1, <3>2 DEF f
  <2>4. \A y \in T : C(A \cup {a})[y] = m[a][y] + C(A)[y] /\ C(A)[y] \in Int
    <3> SUFFICES ASSUME NEW y \in T
                 PROVE  C(A \cup {a})[y] = m[a][y] + C(A)[y] /\ C(A)[y] \in Int
      OBVIOUS
    <3> DEFINE f == [x \in S |-> m[x][y]]
    <3>1. f[a] = m[a][y] /\ f[a] \in Int /\ \A x \in A : f[x] \in Int
      OBVIOUS
    <3> HIDE DEF f
    <3>2. SumOver(f, A \cup {a}) = f[a] + SumOver(f, A) /\ SumOver(f, A) \in Int
      BY <2>1, <3>1, SumInsert, SumInt
    <3>3. C(A \cup {a})[y] = SumOver(f, A \cup {a}) /\ C(A)[y] = SumOver(f, A)
      BY DEF f
    <3> QED BY <3>1, <3>2, <3>3
  <2>5. R(A \cup {a}) = SumOver(m[a], T) + R(A)
    <3>1. PICK f, g, h : f = m[a] /\ g = C(A) /\ h = C(A \cup {a})
      OBVIOUS
    <3>2. \A y \in T : f[y] \in Int /\ g[y] \in Int /\ h[y] = f[y] + g[y]
      BY <2>4, <3>1
    <3>3. SumOver(h, T) = SumOver(f, T) + SumOver(g, T)
      BY <3>2, SumPlus
    <3> HIDE DEF C
    <3> QED BY <3>1, <3>3
  <2> HIDE DEF L, R, C
  <2> QED BY <1>2, <2>3, <2>5
<1>3. S \in P
  <2> HIDE DEF P
  <2> QED BY <1>1, <1>2, SetInduction
<1> QED BY <1>3

\* Two sets with nothing in common are summed one after the other.
LEMMA SumDisjoint ==
  ASSUME NEW f, NEW S, IsFiniteSet(S), NEW T, IsFiniteSet(T), S \cap T = {},
         \A x \in S \cup T : f[x] \in Int
  PROVE  SumOver(f, S \cup T) = SumOver(f, S) + SumOver(f, T)
<1> DEFINE P == {A \in SUBSET T : SumOver(f, S \cup A) = SumOver(f, S) + SumOver(f, A)}
<1>0. SumOver(f, S) \in Int
  BY SumInt
<1>1. {} \in P
  <2>1. S \cup {} = S
    OBVIOUS
  <2>2. SumOver(f, S) + SumOver(f, {}) = SumOver(f, S)
    BY <1>0, SumEmpty
  <2> QED BY <2>1, <2>2
<1>2. ASSUME NEW A \in SUBSET T, NEW x \in T \ A, A \in P PROVE A \cup {x} \in P
  <2>1. PICK U : U = S \cup A
    OBVIOUS
  <2>2. IsFiniteSet(A) /\ IsFiniteSet(U)
    BY <2>1, FS_Subset, FS_Union
  <2>3. x \notin U /\ x \notin A /\ (\A y \in U : f[y] \in Int) /\ f[x] \in Int
    BY <2>1
  <2>4. SumOver(f, U \cup {x}) = f[x] + SumOver(f, U)
    BY <2>2, <2>3, SumInsert
  <2>5. SumOver(f, A \cup {x}) = f[x] + SumOver(f, A) /\ SumOver(f, A) \in Int
    BY <2>2, <2>3, SumInsert, SumInt
  <2>6. SumOver(f, U) = SumOver(f, S) + SumOver(f, A)
    BY <1>2, <2>1
  <2>7. SumOver(f, U \cup {x}) = SumOver(f, S) + SumOver(f, A \cup {x})
    BY <1>0, <2>3, <2>4, <2>5, <2>6
  <2>8. U \cup {x} = S \cup (A \cup {x})
    BY <2>1
  <2>9. SumOver(f, S \cup (A \cup {x})) = SumOver(f, S) + SumOver(f, A \cup {x})
    BY <2>7, <2>8
  <2> QED BY <2>9
<1>3. T \in P
  <2> HIDE DEF P
  <2> QED BY <1>1, <1>2, SetInduction
<1> QED BY <1>3

CellsOf(a, D) == {<<a, p>> : p \in D}
RowTerms(f, a, D) == [p \in D |-> f[<<a, p>>]]

\* Summing along one row of a table.
LEMMA SumRow ==
  ASSUME NEW f, NEW a, NEW D, IsFiniteSet(D), \A p \in D : f[<<a, p>>] \in Int
  PROVE  /\ IsFiniteSet(CellsOf(a, D))
         /\ SumOver(f, CellsOf(a, D)) = SumOver(RowTerms(f, a, D), D)
<1> PICK g : g = RowTerms(f, a, D)
  OBVIOUS
<1> DEFINE P == {A \in SUBSET D : /\ IsFiniteSet(CellsOf(a, A))
                                  /\ SumOver(f, CellsOf(a, A)) = SumOver(g, A)}
<1>0. \A p \in D : g[p] = f[<<a, p>>]
  BY DEF RowTerms
<1>1. {} \in P
  <2>1. CellsOf(a, {}) = {}
    BY DEF CellsOf
  <2> QED BY <2>1, SumEmpty, FS_EmptySet
<1>2. ASSUME NEW A \in SUBSET D, NEW x \in D \ A, A \in P PROVE A \cup {x} \in P
  <2>1. PICK U, b : U = CellsOf(a, A) /\ b = <<a, x>>
    OBVIOUS
  <2>2. IsFiniteSet(A) /\ IsFiniteSet(U) /\ IsFiniteSet(U \cup {b})
    BY <1>2, <2>1, FS_Subset, FS_AddElement
  <2>3. b \notin U /\ (\A y \in U : f[y] \in Int) /\ f[b] \in Int /\ f[b] = g[x]
    BY <1>0, <2>1 DEF CellsOf
  <2>4. SumOver(f, U \cup {b}) = f[b] + SumOver(f, U)
    BY <2>2, <2>3, SumInsert
  <2>5. SumOver(g, A \cup {x}) = g[x] + SumOver(g, A)
    <3>1. g[x] \in Int /\ \A p \in A : g[p] \in Int
      BY <1>0
    <3> QED BY <2>2, <3>1, SumInsert
  <2>6. SumOver(f, U) = SumOver(g, A)
    BY <1>2, <2>1
  <2>7. CellsOf(a, A \cup {x}) = U \cup {b}
    BY <2>1 DEF CellsOf
  <2>8. SumOver(f, CellsOf(a, A \cup {x})) = SumOver(g, A \cup {x})
    BY <2>3, <2>4, <2>5, <2>6, <2>7
  <2> QED BY <2>2, <2>7, <2>8
<1>3. D \in P
  <2> HIDE DEF P
  <2> QED BY <1>1, <1>2, SetInduction
<1> QED BY <1>3

Cells(d, E) == UNION {CellsOf(e, d[e]) : e \in E}
RowTotals(f, d, E) == [e \in E |-> SumOver(RowTerms(f, e, d[e]), d[e])]

\* Summing a table cell by cell, or the totals of its rows.
LEMMA SumTable ==
  ASSUME NEW f, NEW E, IsFiniteSet(E), NEW d,
         \A e \in E : IsFiniteSet(d[e]) /\ \A p \in d[e] : f[<<e, p>>] \in Int
  PROVE  SumOver(f, Cells(d, E)) = SumOver(RowTotals(f, d, E), E)
<1> PICK t : t = RowTotals(f, d, E)
  OBVIOUS
<1> DEFINE P == {A \in SUBSET E : /\ IsFiniteSet(Cells(d, A))
                                  /\ SumOver(f, Cells(d, A)) = SumOver(t, A)}
<1>0. \A e \in E : /\ IsFiniteSet(CellsOf(e, d[e]))
                   /\ SumOver(f, CellsOf(e, d[e])) = t[e]
                   /\ t[e] \in Int
                   /\ \A r \in CellsOf(e, d[e]) : f[r] \in Int
  <2> SUFFICES ASSUME NEW e \in E
               PROVE  /\ IsFiniteSet(CellsOf(e, d[e])) /\ SumOver(f, CellsOf(e, d[e])) = t[e]
                      /\ t[e] \in Int /\ \A r \in CellsOf(e, d[e]) : f[r] \in Int
    OBVIOUS
  <2>1. IsFiniteSet(d[e]) /\ \A p \in d[e] : f[<<e, p>>] \in Int
    OBVIOUS
  <2>2. t[e] = SumOver(RowTerms(f, e, d[e]), d[e])
    BY DEF RowTotals
  <2>3. \A r \in CellsOf(e, d[e]) : f[r] \in Int
    BY <2>1 DEF CellsOf
  <2>4. IsFiniteSet(CellsOf(e, d[e])) /\ SumOver(f, CellsOf(e, d[e])) = t[e]
    BY <2>1, <2>2, SumRow
  <2>5. SumOver(f, CellsOf(e, d[e])) \in Int
    BY <2>3, <2>4, SumInt
  <2> QED BY <2>3, <2>4, <2>5
<1>1. {} \in P
  <2>1. Cells(d, {}) = {}
    BY DEF Cells
  <2> QED BY <2>1, SumEmpty, FS_EmptySet
<1>2. ASSUME NEW A \in SUBSET E, NEW x \in E \ A, A \in P PROVE A \cup {x} \in P
  <2>1. PICK U, V : U = Cells(d, A) /\ V = CellsOf(x, d[x])
    OBVIOUS
  <2>2. IsFiniteSet(A) /\ IsFiniteSet(U) /\ IsFiniteSet(V) /\ IsFiniteSet(U \cup V)
    BY <1>0, <1>2, <2>1, FS_Subset, FS_Union
  <2>3. U \cap V = {}
    BY <2>1 DEF Cells, CellsOf
  <2>4. \A r \in U \cup V : f[r] \in Int
    BY <1>0, <2>1 DEF Cells
  <2>5. SumOver(f, U \cup V) = SumOver(f, U) + SumOver(f, V)
    BY <2>2, <2>3, <2>4, SumDisjoint
  <2>6. t[x] \in Int /\ \A e \in A : t[e] \in Int
    BY <1>0
  <2>7. SumOver(t, A \cup {x}) = t[x] + SumOver(t, A) /\ SumOver(t, A) \in Int
    BY <2>2, <2>6, SumInsert, SumInt
  <2>8. SumOver(f, V) = t[x] /\ SumOver(f, U) = SumOver(t, A)
    BY <1>0, <1>2, <2>1
  <2>9. Cells(d, A \cup {x}) = U \cup V
    BY <2>1 DEF Cells
  <2>10. SumOver(f, U \cup V) = SumOver(t, A \cup {x})
    BY <2>5, <2>6, <2>7, <2>8
  <2>11. Cells(d, A \cup {x}) = U \cup V => A \cup {x} \in P
    BY <2>2, <2>10
  <2> QED BY <2>9, <2>11
<1>3. E \in P
  <2> HIDE DEF P
  <2> QED BY <1>1, <1>2, SetInduction
<1> QED BY <1>3
=============================================================================
