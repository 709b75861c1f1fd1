--------------------------- MODULE RateLimitProofs ---------------------------
(***************************************************************************)
(* The limiter implements the sliding window for every number of callers,  *)
(* limiters and keys, and a sliding window never admits too many.          *)
(***************************************************************************)
EXTENDS RateLimit, SequenceTheorems, FiniteSetTheorems, WellFoundedInduction, TLAPS

(***************************************************************************)
(* A deque follows the log of its bucket: it is the end of the log, and    *)
(* what it has lost has aged.                                              *)
(***************************************************************************)
Follows(h, g, cutoff) ==
  /\ h \in Seq(Nat) /\ Len(h) <= Len(g)
  /\ \A i \in 1..Len(h) : h[i] = g[Len(g) - Len(h) + i]
  /\ \A j \in 1..(Len(g) - Len(h)) : g[j] <= cutoff

Sorted(g) == \A i, j \in 1..Len(g) : i <= j => g[i] <= g[j]

\* A time line up to n.
TimeLine(g, n) == g \in Seq(Nat) /\ Sorted(g) /\ \A i \in 1..Len(g) : g[i] <= n

\* Any limit + 1 admissions take longer than a window.
Spaced(g, limit, window) ==
  \A i \in 1..Len(g) : i + limit <= Len(g) => g[i + limit] >= g[i] + window

BucketInv(b) ==
  /\ TimeLine(log[b], now)
  /\ Follows(Deque(b), log[b], now - Window[b[1]])
  /\ Spaced(log[b], Limit[b[1]], Window[b[1]])

Inv ==
  /\ now \in Nat
  /\ DOMAIN hits \subseteq Bucket
  /\ log \in [Bucket -> Seq(Nat)]
  /\ req \in [Req -> [caller : Caller \cup {<<>>}, chain : Seq(Limiter)]]
  /\ \A r \in Req : req[r].chain # <<>> => req[r].caller \in Caller
  /\ \A b \in Bucket : BucketInv(b)

-----------------------------------------------------------------------------
\* Every nonempty set of positions has a first one.
LEMMA FirstPosition ==
  ASSUME NEW S \in SUBSET Nat, S # {}
  PROVE  \E m \in S : \A k \in S : m <= k
<1>1. IsWellFoundedOn(OpToRel(<, Nat), Nat)
  BY NatLessThanWellFounded
<1>2. PICK m \in S : \A k \in S : ~(<<k, m>> \in OpToRel(<, Nat))
  BY <1>1, WFMin
<1>3. \A k \in S : ~(k < m)
  BY <1>2 DEF OpToRel
<1> QED
  BY <1>3

\* The aged positions of a deque are the first so many.
LEMMA AgedIsPrefix ==
  ASSUME NEW h \in Seq(Nat), NEW cutoff \in Int
  PROVE  \E d \in 0..Len(h) :
           /\ Aged(h, cutoff) = 1..d
           /\ d < Len(h) => h[d + 1] > cutoff
<1> DEFINE Young == {i \in 1..Len(h) : h[i] > cutoff}
<1>0. Len(h) \in Nat /\ \A i \in 1..Len(h) : h[i] \in Nat
  BY ElementOfSeq
<1>1. CASE Young = {}
  <2>1. \A j \in 1..Len(h) : h[j] <= cutoff
    BY <1>0, <1>1
  <2>2. \A i \in 1..Len(h) : \A j \in 1..i : h[j] <= cutoff
    BY <1>0, <2>1
  <2>3. Aged(h, cutoff) = 1..Len(h)
    BY <2>2 DEF Aged
  <2> QED
    BY <1>0, <2>3
<1>2. CASE Young # {}
  <2>0. Young \in SUBSET Nat
    BY <1>0
  <2>1. PICK m \in Young : \A k \in Young : m <= k
    BY <1>2, <2>0, FirstPosition
  <2>2. m \in 1..Len(h) /\ h[m] > cutoff
    OBVIOUS
  <2>3. \A j \in 1..Len(h) : j < m => h[j] <= cutoff
    BY <1>0, <2>1, <2>2
  <2>4. \A i \in 1..Len(h) : (\A j \in 1..i : h[j] <= cutoff) <=> i < m
    BY <1>0, <2>2, <2>3
  <2>5. Aged(h, cutoff) = 1..(m - 1)
    BY <1>0, <2>2, <2>4 DEF Aged
  <2> QED
    BY <1>0, <2>2, <2>5
<1> QED
  BY <1>1, <1>2

\* Dropping the aged entries leaves exactly the recent admissions.
LEMMA DropAgedFollows ==
  ASSUME NEW g, NEW n \in Nat, TimeLine(g, n), NEW cutoff \in Int,
         NEW h, Follows(h, g, cutoff)
  PROVE  LET left == DropAged(h, cutoff)
         IN /\ Follows(left, g, cutoff)
            /\ Cardinality({i \in 1..Len(g) : g[i] > cutoff}) = Len(left)
<1>0. /\ Len(g) \in Nat /\ \A i \in 1..Len(g) : g[i] \in Nat
      /\ h \in Seq(Nat) /\ Len(h) \in Nat /\ \A i \in 1..Len(h) : h[i] \in Nat
  BY ElementOfSeq DEF TimeLine, Follows
<1>a. /\ Len(h) <= Len(g)
      /\ \A i \in 1..Len(h) : h[i] = g[Len(g) - Len(h) + i]
      /\ \A j \in 1..(Len(g) - Len(h)) : g[j] <= cutoff
  BY DEF Follows
<1>b. \A i, j \in 1..Len(g) : i <= j => g[i] <= g[j]
  BY DEF TimeLine, Sorted
<1>1. PICK d \in 0..Len(h) : /\ Aged(h, cutoff) = 1..d
                             /\ d < Len(h) => h[d + 1] > cutoff
  BY <1>0, AgedIsPrefix
<1>2. Cardinality(1..d) = d
  BY FS_Interval
<1> DEFINE left == SubSeq(h, d + 1, Len(h))
<1>3. /\ left \in Seq(Nat)
      /\ Len(left) = Len(h) - d
      /\ \A i \in 1..(Len(h) - d) : left[i] = h[d + i]
  <2>1. \A i \in (d + 1)..Len(h) : h[i] \in Nat
    BY <1>0
  <2>2. /\ left \in Seq(Nat)
        /\ Len(left) = IF d + 1 <= Len(h) THEN Len(h) - (d + 1) + 1 ELSE 0
        /\ \A i \in 1..(Len(h) - (d + 1) + 1) : left[i] = h[d + 1 + i - 1]
    <3>1. d + 1 \in Int /\ Len(h) \in Int
      BY <1>0
    <3> QED
      BY <2>1, <3>1, SubSeqProperties
  <2> QED
    BY <1>0, <2>2
<1>4. \A j \in 1..d : h[j] <= cutoff
  BY <1>0, <1>1 DEF Aged
<1>c. DropAged(h, cutoff) = left
  BY <1>1, <1>2 DEF DropAged
<1> HIDE DEF left
<1>5. PICK k \in Nat : k <= Len(g) /\ k = Len(g) - Len(h) + d /\ k = Len(g) - Len(left)
  <2>1. Len(g) - Len(left) \in Nat
    BY <1>0, <1>a, <1>3
  <2>2. PICK k \in Nat : k = Len(g) - Len(left)
    BY <2>1
  <2>3. k <= Len(g) /\ k = Len(g) - Len(h) + d
    BY <1>0, <1>3, <2>2
  <2> QED
    BY <2>2, <2>3
<1>6. \A i \in 1..Len(left) : left[i] = g[k + i]
  BY <1>0, <1>a, <1>3, <1>5
<1>7. \A j \in 1..k : g[j] <= cutoff
  <2> SUFFICES ASSUME NEW j \in 1..k PROVE g[j] <= cutoff
    OBVIOUS
  <2>1. CASE j <= Len(g) - Len(h)
    BY <1>0, <1>a, <2>1
  <2>2. CASE j > Len(g) - Len(h)
    <3>1. j - (Len(g) - Len(h)) \in 1..d
      BY <1>0, <1>a, <1>5, <2>2
    <3>2. h[j - (Len(g) - Len(h))] = g[j]
      <4>1. j - (Len(g) - Len(h)) \in 1..Len(h)
        BY <1>0, <3>1
      <4>2. Len(g) - Len(h) + (j - (Len(g) - Len(h))) = j
        BY <1>0, <1>5
      <4> QED
        BY <1>a, <4>1, <4>2
    <3> QED
      BY <1>4, <3>1, <3>2
  <2> QED
    BY <1>0, <1>5, <2>1, <2>2
<1>8. \A i \in (k + 1)..Len(g) : g[i] > cutoff
  <2> SUFFICES ASSUME NEW i \in (k + 1)..Len(g) PROVE g[i] > cutoff
    OBVIOUS
  <2>1. Len(left) >= 1 /\ d < Len(h)
    <3>1. k < Len(g)
      BY <1>0
    <3>2. Len(left) \in Nat /\ Len(left) = Len(h) - d
      BY <1>0, <1>3
    <3> QED
      BY <1>0, <1>5, <3>1, <3>2
  <2>2. g[k + 1] = h[d + 1]
    <3>1. 1 \in 1..Len(left) /\ 1 \in 1..(Len(h) - d)
      BY <1>0, <1>3, <2>1
    <3>2. left[1] = g[k + 1]
      BY <1>6, <3>1
    <3>3. left[1] = h[d + 1]
      BY <1>3, <3>1
    <3> QED
      BY <3>2, <3>3
  <2>3. g[k + 1] <= g[i]
    <3>1. k + 1 \in 1..Len(g) /\ i \in 1..Len(g) /\ k + 1 <= i
      BY <1>0, <1>5
    <3> QED
      BY <1>b, <3>1
  <2>4. h[d + 1] > cutoff
    BY <1>1, <2>1
  <2>5. h[d + 1] \in Nat /\ g[i] \in Nat /\ h[d + 1] <= g[i]
    <3>1. d + 1 \in 1..Len(h) /\ i \in 1..Len(g)
      BY <1>0, <1>5, <2>1
    <3> QED
      BY <1>0, <2>2, <2>3, <3>1
  <2> QED
    BY <2>4, <2>5
<1>9. {i \in 1..Len(g) : g[i] > cutoff} = (k + 1)..Len(g)
  <2>1. \A i \in 1..k : ~(g[i] > cutoff)
    <3> SUFFICES ASSUME NEW i \in 1..k PROVE ~(g[i] > cutoff)
      OBVIOUS
    <3>1. i \in 1..Len(g)
      BY <1>0, <1>5
    <3>2. g[i] \in Nat /\ g[i] <= cutoff
      BY <1>0, <1>7, <3>1
    <3> QED
      BY <3>2
  <2>2. \A i \in 1..Len(g) : i \in 1..k \/ i \in (k + 1)..Len(g)
    BY <1>0, <1>5
  <2>3. (k + 1)..Len(g) \subseteq 1..Len(g)
    BY <1>0, <1>5
  <2> QED
    BY <1>8, <2>1, <2>2, <2>3
<1>10. Cardinality((k + 1)..Len(g)) = Len(left)
  <2>1. k + 1 \in Int /\ Len(g) \in Int
    BY <1>0, <1>5
  <2>2. Cardinality((k + 1)..Len(g)) = IF k + 1 > Len(g) THEN 0 ELSE Len(g) - (k + 1) + 1
    BY <2>1, FS_Interval
  <2> QED
    BY <1>0, <1>3, <1>5, <2>2
<1>11. Follows(left, g, cutoff)
  BY <1>0, <1>3, <1>5, <1>6, <1>7 DEF Follows
<1> QED
  BY <1>c, <1>9, <1>10, <1>11

\* Time passes.
LEMMA FollowsLater ==
  ASSUME NEW g \in Seq(Nat), NEW c \in Int, NEW d \in Int, c <= d, NEW h, Follows(h, g, c)
  PROVE  Follows(h, g, d)
<1>1. Len(g) \in Nat /\ \A i \in 1..Len(g) : g[i] \in Nat
  BY ElementOfSeq
<1>2. h \in Seq(Nat) /\ Len(h) \in Nat /\ Len(h) <= Len(g)
  BY DEF Follows
<1>3. \A j \in 1..(Len(g) - Len(h)) : g[j] <= d
  BY <1>1, <1>2 DEF Follows
<1> QED
  BY <1>3 DEF Follows

\* A key that is pruned may as well have an empty deque.
LEMMA IdleFollows ==
  ASSUME NEW g, NEW n \in Nat, TimeLine(g, n), NEW c \in Int,
         NEW h, Follows(h, g, c), IdleKey(h, c)
  PROVE  Follows(<<>>, g, c)
<1>0. /\ Len(g) \in Nat /\ \A i \in 1..Len(g) : g[i] \in Nat
      /\ h \in Seq(Nat) /\ Len(h) \in Nat
  BY ElementOfSeq DEF TimeLine, Follows
<1>1. SUFFICES ASSUME NEW j \in 1..Len(g) PROVE g[j] <= c
  BY <1>0 DEF Follows
<1>2. CASE h = <<>>
  BY <1>0, <1>2 DEF Follows
<1>3. CASE h # <<>> /\ h[Len(h)] <= c
  <2>1. Len(h) >= 1 /\ Len(h) \in 1..Len(h) /\ Len(g) - Len(h) + Len(h) = Len(g)
    BY <1>0, <1>3
  <2>2. h[Len(h)] = g[Len(g)]
    BY <2>1 DEF Follows
  <2>3. g[j] <= g[Len(g)]
    BY <1>0 DEF TimeLine, Sorted
  <2> QED
    BY <1>0, <1>3, <2>2, <2>3
<1> QED
  BY <1>2, <1>3 DEF IdleKey

\* An admission goes to the end of the deque and of the log.
LEMMA AdmitFollows ==
  ASSUME NEW g, NEW n \in Nat, TimeLine(g, n), NEW c \in Int,
         NEW h, Follows(h, g, c)
  PROVE  /\ Follows(Append(h, n), Append(g, n), c)
         /\ TimeLine(Append(g, n), n)
<1>0. /\ g \in Seq(Nat) /\ Len(g) \in Nat /\ \A i \in 1..Len(g) : g[i] \in Nat
      /\ h \in Seq(Nat) /\ Len(h) \in Nat /\ Len(h) <= Len(g)
  BY ElementOfSeq DEF TimeLine, Follows
<1>1. PICK hh : hh = Append(h, n)
  OBVIOUS
<1>2. PICK gg : gg = Append(g, n)
  OBVIOUS
<1>3. /\ hh \in Seq(Nat) /\ Len(hh) = Len(h) + 1 /\ hh[Len(h) + 1] = n
      /\ \A i \in 1..Len(h) : hh[i] = h[i]
  BY <1>0, <1>1, AppendProperties
<1>4. /\ gg \in Seq(Nat) /\ Len(gg) = Len(g) + 1 /\ gg[Len(g) + 1] = n
      /\ \A i \in 1..Len(g) : gg[i] = g[i]
  BY <1>0, <1>2, AppendProperties
<1>5. \A i \in 1..Len(hh) : hh[i] = gg[Len(gg) - Len(hh) + i]
  <2> SUFFICES ASSUME NEW i \in 1..Len(hh) PROVE hh[i] = gg[Len(gg) - Len(hh) + i]
    OBVIOUS
  <2>1. Len(gg) - Len(hh) + i = Len(g) - Len(h) + i
    BY <1>0, <1>3, <1>4
  <2>2. CASE i = Len(h) + 1
    <3>1. Len(g) - Len(h) + i = Len(g) + 1
      BY <1>0, <2>2
    <3> QED
      BY <1>3, <1>4, <2>1, <2>2, <3>1
  <2>3. CASE i \in 1..Len(h)
    <3>1. Len(g) - Len(h) + i \in 1..Len(g)
      BY <1>0, <2>3
    <3>2. h[i] = g[Len(g) - Len(h) + i]
      BY <2>3 DEF Follows
    <3> QED
      BY <1>3, <1>4, <2>1, <2>3, <3>1, <3>2
  <2> QED
    BY <1>0, <1>3, <2>2, <2>3
<1>6. \A j \in 1..(Len(gg) - Len(hh)) : gg[j] <= c
  <2> SUFFICES ASSUME NEW j \in 1..(Len(gg) - Len(hh)) PROVE gg[j] <= c
    OBVIOUS
  <2>1. j \in 1..(Len(g) - Len(h)) /\ j \in 1..Len(g)
    <3>1. Len(gg) - Len(hh) = Len(g) - Len(h)
      BY <1>0, <1>3, <1>4
    <3>2. j \in 1..(Len(g) - Len(h))
      BY <3>1
    <3> QED
      BY <1>0, <3>2
  <2>2. g[j] <= c
    BY <2>1 DEF Follows
  <2> QED
    BY <1>4, <2>1, <2>2
<1>7. Follows(hh, gg, c)
  BY <1>0, <1>3, <1>4, <1>5, <1>6 DEF Follows
<1>8. \A i \in 1..Len(gg) : gg[i] \in Nat /\ gg[i] <= n
  <2> SUFFICES ASSUME NEW i \in 1..Len(gg) PROVE gg[i] \in Nat /\ gg[i] <= n
    OBVIOUS
  <2>1. CASE i = Len(g) + 1
    BY <1>4, <2>1
  <2>2. CASE i \in 1..Len(g)
    <3>1. g[i] \in Nat /\ g[i] <= n
      BY <1>0, <2>2 DEF TimeLine
    <3> QED
      BY <1>4, <2>2, <3>1
  <2> QED
    BY <1>0, <1>4, <2>1, <2>2
<1>9. \A i, j \in 1..Len(gg) : i <= j => gg[i] <= gg[j]
  <2> SUFFICES ASSUME NEW i \in 1..Len(gg), NEW j \in 1..Len(gg), i <= j
               PROVE  gg[i] <= gg[j]
    OBVIOUS
  <2>1. CASE j = Len(g) + 1
    BY <1>4, <1>8, <2>1
  <2>2. CASE j \in 1..Len(g)
    <3>1. i \in 1..Len(g)
      BY <1>0, <1>4, <2>2
    <3>2. g[i] <= g[j]
      BY <2>2, <3>1 DEF TimeLine, Sorted
    <3> QED
      BY <1>4, <2>2, <3>1, <3>2
  <2> QED
    BY <1>0, <1>4, <2>1, <2>2
<1>10. TimeLine(gg, n)
  BY <1>4, <1>8, <1>9 DEF TimeLine, Sorted
<1> QED
  BY <1>1, <1>2, <1>7, <1>10

\* With fewer than limit recent admissions, one more keeps them spaced.
LEMMA AdmitSpaced ==
  ASSUME NEW g, NEW n \in Nat, TimeLine(g, n),
         NEW limit \in Nat \ {0}, NEW window \in Nat \ {0}, Spaced(g, limit, window),
         Cardinality({i \in 1..Len(g) : g[i] > n - window}) < limit
  PROVE  Spaced(Append(g, n), limit, window)
<1>0. g \in Seq(Nat) /\ Len(g) \in Nat /\ \A i \in 1..Len(g) : g[i] \in Nat
  BY ElementOfSeq DEF TimeLine
<1>1. PICK gg : gg = Append(g, n)
  OBVIOUS
<1>2. /\ gg \in Seq(Nat) /\ Len(gg) = Len(g) + 1 /\ gg[Len(g) + 1] = n
      /\ \A i \in 1..Len(g) : gg[i] = g[i]
  BY <1>0, <1>1, AppendProperties
<1>3. SUFFICES ASSUME NEW i \in 1..Len(gg), i + limit <= Len(gg)
               PROVE  gg[i + limit] >= gg[i] + window
  BY <1>1 DEF Spaced
<1>4. CASE i + limit <= Len(g)
  <2>1. i \in 1..Len(g) /\ i + limit \in 1..Len(g)
    BY <1>0, <1>2, <1>4
  <2>2. g[i + limit] >= g[i] + window
    BY <1>4, <2>1 DEF Spaced
  <2> QED
    BY <1>2, <2>1, <2>2
<1>5. CASE i + limit = Len(g) + 1
  <2>1. i \in 1..Len(g) /\ Len(g) - i + 1 = limit
    BY <1>0, <1>5
  <2>2. gg[i] = g[i] /\ gg[i + limit] = n /\ g[i] \in Nat
    BY <1>0, <1>2, <1>5, <2>1
  <2>3. SUFFICES ASSUME g[i] > n - window PROVE FALSE
    BY <2>2
  <2>4. i..Len(g) \subseteq {k \in 1..Len(g) : g[k] > n - window}
    <3> SUFFICES ASSUME NEW k \in i..Len(g) PROVE k \in 1..Len(g) /\ g[k] > n - window
      OBVIOUS
    <3>1. k \in 1..Len(g) /\ i <= k
      BY <1>0, <2>1
    <3>2. g[i] <= g[k] /\ g[k] \in Nat
      BY <1>0, <2>1, <3>1 DEF TimeLine, Sorted
    <3> QED
      BY <2>2, <2>3, <3>1, <3>2
  <2>5. Cardinality(i..Len(g)) = limit
    <3>1. i \in Int /\ Len(g) \in Int
      BY <1>0
    <3>2. Cardinality(i..Len(g)) = IF i > Len(g) THEN 0 ELSE Len(g) - i + 1
      BY <3>1, FS_Interval
    <3> QED
      BY <1>0, <2>1, <3>2
  <2>6. IsFiniteSet({k \in 1..Len(g) : g[k] > n - window})
    <3>1. IsFiniteSet(1..Len(g))
      BY <1>0, FS_Interval
    <3> QED
      BY <3>1, FS_Subset
  <2>7. PICK R : R = {k \in 1..Len(g) : g[k] > n - window}
    OBVIOUS
  <2>8. Cardinality(i..Len(g)) <= Cardinality(R) /\ Cardinality(R) \in Nat
    BY <2>4, <2>6, <2>7, FS_Subset, FS_CardinalityType
  <2> QED
    BY <2>5, <2>7, <2>8
<1>6. i + limit <= Len(g) \/ i + limit = Len(g) + 1
  <2>1. i \in Nat /\ limit \in Nat /\ i + limit <= Len(g) + 1
    BY <1>0, <1>2, <1>3
  <2> QED
    BY <1>0, <2>1
<1> QED
  BY <1>4, <1>5, <1>6

-----------------------------------------------------------------------------
\* What a check does to the deques: the one of its bucket follows the log, the others
\* do as before, pruned or not.
LEMMA PrunedFollows ==
  ASSUME NEW h, NEW l \in Limiter, NEW b \in Bucket, NEW n \in Nat, NEW g,
         DOMAIN h \subseteq Bucket, TimeLine(g, n),
         NEW p, p = Pruned(h, l, n - Window[l]),
         Follows(IF b \in DOMAIN h THEN h[b] ELSE <<>>, g, n - Window[b[1]])
  PROVE  /\ DOMAIN p \subseteq Bucket
         /\ Follows(IF b \in DOMAIN p THEN p[b] ELSE <<>>, g, n - Window[b[1]])
<1> DEFINE gone == {k \in DOMAIN h : k[1] = l /\ IdleKey(h[k], n - Window[l])}
<1>1. CASE p = h
  BY <1>1
<1>2. CASE p = [k \in DOMAIN h \ gone |-> h[k]]
  <2>1. DOMAIN p = DOMAIN h \ gone
    BY <1>2
  <2>2. CASE b \notin gone
    BY <1>2, <2>1, <2>2
  <2>3. CASE b \in gone
    <3>1. b \in DOMAIN h /\ b[1] = l /\ IdleKey(h[b], n - Window[l]) /\ b \notin DOMAIN p
      BY <2>1, <2>3
    <3>2. n - Window[l] \in Int
      BY LimiterAssumption
    <3>3. Follows(<<>>, g, n - Window[l])
      BY <3>1, <3>2, IdleFollows
    <3> QED
      BY <2>1, <3>1, <3>3
  <2> QED
    BY <2>1, <2>2, <2>3
<1>3. p = h \/ p = [k \in DOMAIN h \ gone |-> h[k]]
  BY DEF Pruned, Prune
<1> QED
  BY <1>1, <1>2, <1>3

LEMMA IdleType ==
  Idle \in [caller : Caller \cup {<<>>}, chain : Seq(Limiter)] /\ Idle.chain = <<>>
  BY EmptySeq DEF Idle

LEMMA InitInv == Init => Inv
<1> SUFFICES ASSUME Init PROVE Inv
  OBVIOUS
<1>1. Inv!1 /\ Inv!2 /\ Inv!3 /\ Inv!4 /\ Inv!5
  BY IdleType DEF Init, Inv
<1>2. ASSUME NEW b \in Bucket PROVE BucketInv(b)
  <2>1. log[b] = <<>> /\ Deque(b) = <<>> /\ now = 0
    BY DEF Init, Deque
  <2>2. Follows(<<>>, <<>>, now - Window[b[1]])
    BY DEF Follows
  <2>3. TimeLine(<<>>, 0) /\ Spaced(<<>>, Limit[b[1]], Window[b[1]])
    BY DEF TimeLine, Sorted, Spaced
  <2> QED
    BY <2>1, <2>2, <2>3 DEF BucketInv
<1> QED
  BY <1>1, <1>2 DEF Inv

LEMMA SameCardinality == \A S : Ideal!Cardinality(S) = Cardinality(S)
  BY DEF Ideal!Cardinality, Cardinality

(***************************************************************************)
(* A check decides as the sliding window would, and keeps the invariant.   *)
(***************************************************************************)
LEMMA CheckStep ==
  ASSUME Inv, NEW r \in Req, Check(r)
  PROVE  Inv' /\ \E b \in Bucket : Ideal!Admit(b) \/ Ideal!Refuse(b)
<1> DEFINE l == Head(req[r].chain)
           b == <<l, Key(l, req[r].caller)>>
           cutoff == now - Window[l]
           left == DropAged(Deque(b), cutoff)
<1>1. req[r].chain # <<>> /\ req[r].chain \in Seq(Limiter) /\ req[r].caller \in Caller
  <2>1. req[r].chain # <<>>
    BY DEF Check
  <2> QED
    BY <2>1 DEF Inv
<1>2. l \in Limiter /\ Tail(req[r].chain) \in Seq(Limiter)
  BY <1>1, HeadTailProperties
<1>3. b \in Bucket
  BY <1>1, <1>2 DEF Bucket, Keys
<1>4. /\ Limit[l] \in Nat \ {0} /\ Window[l] \in Nat \ {0} /\ now \in Nat
      /\ cutoff \in Int /\ cutoff < now
  BY <1>2, LimiterAssumption DEF Inv
<1>5. BucketInv(b)
  BY <1>3 DEF Inv
<1>6. /\ Follows(left, log[b], cutoff)
      /\ Cardinality({i \in 1..Len(log[b]) : log[b][i] > cutoff}) = Len(left)
  BY <1>4, <1>5, DropAgedFollows DEF BucketInv
<1>7. log \in [Bucket -> Seq(Nat)] /\ now' = now /\ DOMAIN hits \subseteq Bucket
  BY DEF Inv, Check
<1>8. Ideal!Recent(b) = {i \in 1..Len(log[b]) : log[b][i] > cutoff}
  BY <1>3 DEF Ideal!Recent
<1>a. [k \in Bucket |-> Limit[k[1]]][b] = Limit[l]
  BY <1>3
<1>9. CASE /\ Len(left) >= Limit[l]
           /\ hits' = Put(hits, b, left)
           /\ req' = [req EXCEPT ![r] = Idle]
           /\ verdict' = <<b, FALSE>>
           /\ log' = log
  <2>1. Ideal!Refuse(b)
    BY <1>6, <1>7, <1>8, <1>9, <1>a, SameCardinality DEF Ideal!Refuse
  <2>2. /\ DOMAIN hits' = DOMAIN hits \cup {b}
        /\ \A k \in DOMAIN hits' : hits'[k] = IF k = b THEN left ELSE hits[k]
    BY <1>9 DEF Put
  <2>3. ASSUME NEW k \in Bucket PROVE BucketInv(k)'
    <3>1. BucketInv(k)
      BY DEF Inv
    <3>2. CASE k = b
      <4>1. Deque(k)' = left
        BY <2>2, <3>2 DEF Deque
      <4> QED
        BY <1>5, <1>6, <1>7, <1>9, <3>2, <4>1 DEF BucketInv
    <3>3. CASE k # b
      <4>1. Deque(k)' = Deque(k)
        BY <2>2, <3>3 DEF Deque
      <4> QED
        BY <1>7, <1>9, <3>1, <4>1 DEF BucketInv
    <3> QED
      BY <3>2, <3>3
  <2>4. /\ now' \in Nat /\ DOMAIN hits' \subseteq Bucket /\ log' \in [Bucket -> Seq(Nat)]
    BY <1>3, <1>4, <1>7, <1>9, <2>2 DEF Inv
  <2>5. /\ req' \in [Req -> [caller : Caller \cup {<<>>}, chain : Seq(Limiter)]]
        /\ \A q \in Req : req'[q].chain # <<>> => req'[q].caller \in Caller
    BY <1>9, IdleType DEF Inv
  <2> QED
    BY <1>3, <2>1, <2>3, <2>4, <2>5 DEF Inv
<1>10. CASE /\ Len(left) < Limit[l]
            /\ hits' = Pruned(Put(hits, b, Append(left, now)), l, cutoff)
            /\ req' = [req EXCEPT ![r].chain = Tail(@)]
            /\ verdict' = <<b, TRUE>>
            /\ log' = [log EXCEPT ![b] = Append(@, now)]
  <2>1. Ideal!Admit(b)
    BY <1>6, <1>7, <1>8, <1>10, <1>a, SameCardinality DEF Ideal!Admit
  <2>2. PICK h : h = Put(hits, b, Append(left, now))
    OBVIOUS
  <2>3. /\ DOMAIN h = DOMAIN hits \cup {b}
        /\ \A k \in DOMAIN h : h[k] = IF k = b THEN Append(left, now) ELSE hits[k]
    BY <2>2 DEF Put
  <2>4. /\ Follows(Append(left, now), Append(log[b], now), cutoff)
        /\ TimeLine(Append(log[b], now), now)
    BY <1>4, <1>5, <1>6, AdmitFollows DEF BucketInv
  <2>5. Spaced(Append(log[b], now), Limit[l], Window[l])
    BY <1>4, <1>5, <1>6, <1>10, AdmitSpaced DEF BucketInv
  <2>6. log' \in [Bucket -> Seq(Nat)] /\ log'[b] = Append(log[b], now)
    <3>1. Append(log[b], now) \in Seq(Nat)
      BY <1>3, <1>4, <1>7, AppendProperties
    <3> QED
      BY <1>3, <1>7, <1>10, <3>1
  <2>7. DOMAIN h \subseteq Bucket
    BY <1>3, <1>7, <2>3
  <2>8. ASSUME NEW k \in Bucket PROVE BucketInv(k)' /\ DOMAIN hits' \subseteq Bucket
    <3>1. BucketInv(k)
      BY DEF Inv
    <3>2. /\ Follows(IF k \in DOMAIN h THEN h[k] ELSE <<>>, log'[k], now - Window[k[1]])
          /\ TimeLine(log'[k], now) /\ Spaced(log'[k], Limit[k[1]], Window[k[1]])
      <4>1. CASE k = b
        BY <2>3, <2>4, <2>5, <2>6, <4>1
      <4>2. CASE k # b
        <5>1. log'[k] = log[k]
          BY <1>7, <1>10, <4>2
        <5>2. (IF k \in DOMAIN h THEN h[k] ELSE <<>>) = Deque(k)
          BY <2>3, <4>2 DEF Deque
        <5> QED
          BY <3>1, <5>1, <5>2 DEF BucketInv
      <4> QED
        BY <4>1, <4>2
    <3>3. hits' = Pruned(h, l, now - Window[l])
      BY <1>10, <2>2
    <3>4. /\ DOMAIN hits' \subseteq Bucket
          /\ Follows(IF k \in DOMAIN hits' THEN hits'[k] ELSE <<>>, log'[k],
                     now - Window[k[1]])
      <4>1. PICK g : g = log'[k]
        OBVIOUS
      <4>2. PICK n : n = now
        OBVIOUS
      <4>3. n \in Nat /\ n = now
        BY <1>4, <1>7, <4>2
      <4>4. Follows(IF k \in DOMAIN h THEN h[k] ELSE <<>>, g, n - Window[k[1]])
            /\ TimeLine(g, n)
        BY <3>2, <4>1, <4>2
      <4>5. PICK p : p = hits'
        OBVIOUS
      <4>6. p = Pruned(h, l, n - Window[l])
        BY <3>3, <4>2, <4>5
      <4>7. /\ DOMAIN p \subseteq Bucket
            /\ Follows(IF k \in DOMAIN p THEN p[k] ELSE <<>>, g, n - Window[k[1]])
        BY <1>2, <2>7, <4>3, <4>4, <4>6, PrunedFollows
      <4> QED
        BY <4>1, <4>2, <4>5, <4>7
    <3>5. Deque(k)' = IF k \in DOMAIN hits' THEN hits'[k] ELSE <<>>
      BY DEF Deque
    <3>6. now' = now
      BY <1>7
    <3>7. Follows(Deque(k)', log'[k], now' - Window[k[1]])
      BY <3>4, <3>5, <3>6
    <3>8. TimeLine(log'[k], now') /\ Spaced(log'[k], Limit[k[1]], Window[k[1]])
      BY <3>2, <3>6
    <3>9. BucketInv(k)'
      BY <3>7, <3>8 DEF BucketInv
    <3> QED
      BY <3>4, <3>9
  <2>9. now' \in Nat
    BY <1>4, <1>7
  <2>10. /\ req' \in [Req -> [caller : Caller \cup {<<>>}, chain : Seq(Limiter)]]
         /\ \A q \in Req : req'[q].chain # <<>> => req'[q].caller \in Caller
    <3>1. PICK c : c = [req[r] EXCEPT !.chain = Tail(req[r].chain)]
      OBVIOUS
    <3>2. c \in [caller : Caller \cup {<<>>}, chain : Seq(Limiter)] /\ c.caller \in Caller
      BY <1>1, <1>2, <3>1 DEF Inv
    <3>3. req' = [req EXCEPT ![r] = c]
      BY <1>10, <3>1
    <3> QED
      BY <3>2, <3>3 DEF Inv
  <2> QED
    BY <1>3, <2>1, <2>6, <2>8, <2>9, <2>10 DEF Inv
<1> QED
  BY <1>9, <1>10 DEF Check

LEMMA PassStep == ASSUME Inv, Pass PROVE Inv' /\ Ideal!Pass
<1>1. now \in Nat /\ now' \in Nat /\ now < now' /\ UNCHANGED <<hits, req, log, verdict>>
  BY DEF Inv, Pass
<1>2. ASSUME NEW b \in Bucket PROVE BucketInv(b)'
  <2>1. BucketInv(b) /\ Deque(b)' = Deque(b) /\ log[b] \in Seq(Nat)
    BY <1>1 DEF Inv, Deque
  <2>2. PICK w \in Nat : w = Window[b[1]]
    BY LimiterAssumption DEF Bucket
  <2>3. Follows(Deque(b), log[b], now' - w)
    <3>1. now - w \in Int /\ now' - w \in Int /\ now - w <= now' - w
      BY <1>1, <2>2
    <3>2. Follows(Deque(b), log[b], now - w)
      BY <2>1, <2>2 DEF BucketInv
    <3> QED
      BY <2>1, <3>1, <3>2, FollowsLater
  <2>4. TimeLine(log[b], now')
    <3>1. \A i \in 1..Len(log[b]) : log[b][i] \in Nat /\ log[b][i] <= now
      BY <2>1, ElementOfSeq DEF BucketInv, TimeLine
    <3>2. \A i \in 1..Len(log[b]) : log[b][i] <= now'
      BY <1>1, <3>1
    <3> QED
      BY <2>1, <3>2 DEF BucketInv, TimeLine
  <2> QED
    BY <1>1, <2>1, <2>2, <2>3, <2>4 DEF BucketInv
<1> QED
  BY <1>1, <1>2 DEF Inv, Ideal!Pass

\* Arriving and being handled are no business of the limiters.
LEMMA QuietStep ==
  ASSUME Inv, UNCHANGED <<now, hits, log>>,
         req' \in [Req -> [caller : Caller \cup {<<>>}, chain : Seq(Limiter)]],
         \A r \in Req : req'[r].chain # <<>> => req'[r].caller \in Caller
  PROVE  Inv'
<1>1. ASSUME NEW b \in Bucket PROVE BucketInv(b)'
  BY DEF Inv, BucketInv, Deque
<1> QED
  BY <1>1 DEF Inv

LEMMA ArriveStep ==
  ASSUME Inv, NEW r \in Req, NEW c \in Caller, NEW e \in Endpoint, Arrive(r, c, e)
  PROVE  Inv' /\ UNCHANGED <<now, log, verdict>>
<1>1. PICK q : q = [caller |-> c, chain |-> Chain[e]]
  OBVIOUS
<1>2. q \in [caller : Caller \cup {<<>>}, chain : Seq(Limiter)] /\ q.caller \in Caller
  BY <1>1, LimiterAssumption
<1>3. req' = [req EXCEPT ![r] = q] /\ UNCHANGED <<now, hits, log, verdict>>
  BY <1>1 DEF Arrive
<1> QED
  BY <1>2, <1>3, QuietStep DEF Inv

LEMMA HandleStep ==
  ASSUME Inv, NEW r \in Req, Handle(r)
  PROVE  Inv' /\ UNCHANGED <<now, log, verdict>>
<1>1. req' = [req EXCEPT ![r] = Idle] /\ UNCHANGED <<now, hits, log, verdict>>
  BY DEF Handle
<1> QED
  BY <1>1, IdleType, QuietStep DEF Inv

\* Every step keeps the invariant and is one of the sliding window, or none.
LEMMA NextStep == Inv /\ [Next]_vars => Inv' /\ [Ideal!Next]_(Ideal!vars)
<1> SUFFICES ASSUME Inv, [Next]_vars PROVE Inv' /\ [Ideal!Next]_(Ideal!vars)
  OBVIOUS
<1>1. CASE Pass
  BY <1>1, PassStep DEF Ideal!Next
<1>2. ASSUME NEW r \in Req, Check(r) PROVE Inv' /\ [Ideal!Next]_(Ideal!vars)
  BY <1>2, CheckStep DEF Ideal!Next
<1>3. ASSUME NEW r \in Req, Handle(r) PROVE Inv' /\ [Ideal!Next]_(Ideal!vars)
  BY <1>3, HandleStep DEF Ideal!vars
<1>4. ASSUME NEW r \in Req, NEW c \in Caller, NEW e \in Endpoint, Arrive(r, c, e)
      PROVE  Inv' /\ [Ideal!Next]_(Ideal!vars)
  BY <1>4, ArriveStep DEF Ideal!vars
<1>5. CASE UNCHANGED vars
  <2>1. Inv'
    BY <1>5, QuietStep DEF vars, Inv
  <2> QED
    BY <1>5, <2>1 DEF vars, Ideal!vars
<1> QED
  BY <1>1, <1>2, <1>3, <1>4, <1>5 DEF Next

LEMMA InitStep == Init => Ideal!Init
BY DEF Init, Ideal!Init

\* RateLimiter.check is a sliding window, whatever it forgets, for any callers, limits,
\* windows, chains and number of keys.
THEOREM LimiterImplementsWindow == Spec => ImplementsWindow
<1>1. Init => Inv
  BY InitInv
<1> QED
  BY <1>1, NextStep, InitStep, PTL DEF Spec, ImplementsWindow, Ideal!Spec

\* Any Limit + 1 admissions in one bucket take at least a window.
THEOREM LimiterNeverTooMany == Spec => []NeverTooMany
<1>1. Inv => NeverTooMany
  <2> SUFFICES ASSUME Inv, NEW b \in Bucket, NEW i \in 1..Len(log[b]),
                      i + Limit[b[1]] <= Len(log[b])
               PROVE  log[b][i + Limit[b[1]]] >= log[b][i] + Window[b[1]]
    BY DEF NeverTooMany, Ideal!NeverTooMany
  <2> QED
    BY DEF Inv, BucketInv, Spaced
<1>2. Init => Inv
  BY InitInv
<1> QED
  BY <1>1, <1>2, NextStep, PTL DEF Spec
=============================================================================
