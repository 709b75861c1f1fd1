--------------------------- MODULE SimplifyProofs ---------------------------
(***************************************************************************)
(* Theorems about simplify_debts, for every finite set of people and every *)
(* ledger.                                                                 *)
(*                                                                         *)
(* First what sorted() returns: the order is total on entries with         *)
(* different ids, so a finite set of them can be listed, and any listing   *)
(* names everybody once.  Then what is open: sums over the suggestions,    *)
(* which one more of them changes in two places.  The invariant of the     *)
(* loop, PairingInv, says that the remainders carried in the lists are the *)
(* positions of the people, that the entries behind the indices and only   *)
(* those are used up, that there are no more suggestions than entries left *)
(* behind, and that the positions add up to what the balances do.          *)
(***************************************************************************)
EXTENDS SimplifyDebts, FiniteData, SequenceTheorems

\* Nobody is listed twice.
Distinct(E) == \A p, q \in E : p.id = q.id => p = q

\* Of two people's entries one comes first.
LEMMA BeforeIsTotal ==
  ASSUME NEW p \in Entry, NEW q \in Entry, p.id = q.id => p = q, p # q
  PROVE  Before(p, q) \/ Before(q, p)
<1>1. p.cents \in Int /\ q.cents \in Int /\ p.id \in Person /\ q.id \in Person
  BY DEF Entry
<1>2. Rank[p.id] \in Int /\ Rank[q.id] \in Int /\ Rank[p.id] # Rank[q.id]
  BY <1>1, LedgerAssumption
<1> QED BY <1>1, <1>2 DEF Before

\* The order of the entries is a strict one.
LEMMA BeforeIsTransitive ==
  ASSUME NEW p \in Entry, NEW q \in Entry, NEW r \in Entry, Before(p, q), Before(q, r)
  PROVE  Before(p, r)
<1>1. /\ p.cents \in Int /\ q.cents \in Int /\ r.cents \in Int
      /\ p.id \in Person /\ q.id \in Person /\ r.id \in Person
  BY DEF Entry
<1>2. Rank[p.id] \in Int /\ Rank[q.id] \in Int /\ Rank[r.id] \in Int
  BY <1>1, LedgerAssumption
<1> QED BY <1>1, <1>2 DEF Before

\* And no entry comes before itself.
LEMMA BeforeIsStrict ==
  ASSUME NEW p \in Entry
  PROVE  ~Before(p, p)
<1>1. p.cents \in Int /\ p.id \in Person
  BY DEF Entry
<1>2. Rank[p.id] \in Int
  BY <1>1, LedgerAssumption
<1> QED BY <1>1, <1>2 DEF Before

\* The order of sorted() on E, as pairs.
Order(E) == {pair \in E \X E : Before(pair[1], pair[2])}

LEMMA BeforeIsAnOrder ==
  ASSUME NEW E \in SUBSET Entry, Distinct(E)
  PROVE  IsOrder(Order(E), E)
<1>1. \A p, q \in E : <<p, q>> \in Order(E) <=> Before(p, q)
  BY DEF Order
<1>2. \A p \in E : ~Before(p, p)
  BY BeforeIsStrict
<1>3. \A p, q \in E : p # q => Before(p, q) \/ Before(q, p)
  BY BeforeIsTotal DEF Distinct
<1>4. \A p, q, r \in E : Before(p, q) /\ Before(q, r) => Before(p, r)
  BY BeforeIsTransitive
<1> QED BY <1>1, <1>2, <1>3, <1>4 DEF IsOrder

\* What sorted() returns: everybody, once, in order.
LEMMA SortedIs ==
  ASSUME NEW E \in SUBSET Entry, IsFiniteSet(E), Distinct(E)
  PROVE  /\ Sorted(E) \in Seq(Entry)
         /\ \A a \in DOMAIN Sorted(E) : Sorted(E)[a] \in E
         /\ \A a, b \in DOMAIN Sorted(E) : Sorted(E)[a].id = Sorted(E)[b].id => a = b
         /\ \A p \in E : \E a \in DOMAIN Sorted(E) : Sorted(E)[a] = p
<1>1. PICK s, R : s = Sorted(E) /\ R = Order(E)
  OBVIOUS
<1>2. IsOrder(R, E)
  BY <1>1, BeforeIsAnOrder
<1>3. \A t \in [1..Cardinality(E) -> E] :
        (\A a, b \in DOMAIN t : a < b => Before(t[a], t[b])) <=> InOrder(t, R)
  BY <1>1 DEF InOrder, Order
<1>4. Listing(E, R) # {}
  BY <1>2, ListingExists
<1>5. s \in Listing(E, R)
  BY <1>1, <1>3, <1>4 DEF Listing, Sorted
<1>6. /\ DOMAIN s = 1..Cardinality(E) /\ Cardinality(E) \in Nat
      /\ \A a \in DOMAIN s : s[a] \in E
      /\ \A a, b \in DOMAIN s : s[a] = s[b] => a = b
      /\ \A p \in E : \E a \in DOMAIN s : s[a] = p
  BY <1>2, <1>5, ListingIs
<1>7. s \in Seq(Entry)
  <2>1. s \in [1..Cardinality(E) -> Entry]
    BY <1>5, <1>6 DEF Listing
  <2> QED BY <1>6, <2>1, SeqDef
<1>8. \A a, b \in DOMAIN s : s[a].id = s[b].id => a = b
  BY <1>6 DEF Distinct
<1> QED BY <1>1, <1>6, <1>7, <1>8

-----------------------------------------------------------------------------
\* The two sides of zero.
Debtors   == {u \in Person : balances[u] < 0}
Creditors == {u \in Person : balances[u] > 0}

\* The people of T, each once.
Lists(s, T) ==
  /\ \A a \in DOMAIN s : s[a].id \in T
  /\ \A a, b \in DOMAIN s : s[a].id = s[b].id => a = b
  /\ \A u \in T : \E a \in DOMAIN s : s[a].id = u

\* The people of T with the amounts f.
Entries(T, f) == {[id |-> u, cents |-> f[u]] : u \in T}

\* sorted() of the entries made of T and f lists the people of T with their amounts.
LEMMA EntriesAreListed ==
  ASSUME NEW T \in SUBSET Person, NEW f \in [T -> Nat], NEW E, E = Entries(T, f)
  PROVE  /\ E \in SUBSET Entry /\ IsFiniteSet(E) /\ Distinct(E)
         /\ Lists(Sorted(E), T)
         /\ \A a \in DOMAIN Sorted(E) : Sorted(E)[a].cents = f[Sorted(E)[a].id]
<1> USE DEF Entries
<1>1. E \in SUBSET Entry /\ Distinct(E)
  BY DEF Entry, Distinct
<1>2. IsFiniteSet(E)
  <2> DEFINE g == [u \in T |-> [id |-> u, cents |-> f[u]]]
  <2>1. g \in Surjection(T, E)
    BY DEF Surjection
  <2>2. IsFiniteSet(T)
    BY FS_Subset, LedgerAssumption
  <2> QED BY <2>1, <2>2, FS_Surjection
<1>3. PICK s : s = Sorted(E)
  OBVIOUS
<1>4. /\ \A a \in DOMAIN s : s[a] \in E
      /\ \A a, b \in DOMAIN s : s[a].id = s[b].id => a = b
      /\ \A p \in E : \E a \in DOMAIN s : s[a] = p
  <2>1. /\ \A a \in DOMAIN Sorted(E) : Sorted(E)[a] \in E
        /\ \A a, b \in DOMAIN Sorted(E) : Sorted(E)[a].id = Sorted(E)[b].id => a = b
        /\ \A p \in E : \E a \in DOMAIN Sorted(E) : Sorted(E)[a] = p
    BY <1>1, <1>2, SortedIs
  <2>3. \A a \in DOMAIN s : s[a] \in E
    BY <1>3, <2>1, Zenon
  <2>4. \A a, b \in DOMAIN s : s[a].id = s[b].id => a = b
    BY <1>3, <2>1, Zenon
  <2>5. \A p \in E : \E a \in DOMAIN s : s[a] = p
    BY <1>3, <2>1, Zenon
  <2> QED BY <2>3, <2>4, <2>5, Zenon
<1>5. \A p \in E : p.id \in T /\ p.cents = f[p.id]
  OBVIOUS
<1>6. ASSUME NEW u \in T PROVE \E p \in E : p.id = u
  <2> WITNESS [id |-> u, cents |-> f[u]] \in E
  <2> QED OBVIOUS
<1>7. Lists(s, T) /\ \A a \in DOMAIN s : s[a].cents = f[s[a].id]
  BY <1>4, <1>5, <1>6 DEF Lists
<1> QED BY <1>1, <1>2, <1>3, <1>7

\* The two arguments of sorted().
LEMMA SidesAre ==
  ASSUME balances \in [Person -> Int]
  PROVE  /\ Side(balances, -1) = Entries(Debtors, [v \in Debtors |-> -balances[v]])
         /\ Side(balances, 1) = Entries(Creditors, [v \in Creditors |-> balances[v]])
<1>1. \A u \in Person : (-1) * balances[u] = -balances[u] /\ 1 * balances[u] = balances[u]
  OBVIOUS
<1>2. \A u \in Person : -balances[u] > 0 <=> balances[u] < 0
  OBVIOUS
<1>3. Debtors = {p \in Person : (-1) * balances[p] > 0}
  BY <1>1, <1>2 DEF Debtors
<1>4. Creditors = {p \in Person : 1 * balances[p] > 0}
  BY <1>1 DEF Creditors
<1>5. \A u \in Debtors : [v \in Debtors |-> -balances[v]][u] = (-1) * balances[u]
  BY <1>1 DEF Debtors
<1>6. \A u \in Creditors : [v \in Creditors |-> balances[v]][u] = 1 * balances[u]
  BY <1>1 DEF Creditors
<1> QED BY <1>3, <1>4, <1>5, <1>6 DEF Side, Entries

-----------------------------------------------------------------------------
\* A list holds no more entries than there are people in it.
LEMMA ListsAreShort ==
  ASSUME NEW s \in Seq(Entry), NEW T \in SUBSET Person, Lists(s, T)
  PROVE  Len(s) <= Cardinality(T)
<1> DEFINE f == [a \in 1..Len(s) |-> s[a].id]
<1>1. Len(s) \in Nat /\ DOMAIN s = 1..Len(s)
  OBVIOUS
<1>2. f \in Injection(1..Len(s), T)
  BY <1>1 DEF Lists, Injection, IsInjective
<1>3. IsFiniteSet(T)
  BY FS_Subset, LedgerAssumption
<1>4. Cardinality(1..Len(s)) = Len(s)
  BY <1>1, FS_Interval
<1> QED BY <1>2, <1>3, <1>4, FS_Injection

-----------------------------------------------------------------------------
\* An element of transfers.
Suggestion == [from : Person, to : Person, amount : Nat \ {0}]

\* What the suggestions are.
LEMMA TransfersAre ==
  ASSUME TypeOK
  PROVE  /\ Len(transfers) \in Nat /\ DOMAIN transfers = 1..Len(transfers)
         /\ \A k \in 1..Len(transfers) : transfers[k].amount \in Int
<1>1. transfers \in Seq(Suggestion)
  BY DEF TypeOK, Suggestion
<1>2. \A k \in 1..Len(transfers) : transfers[k] \in Suggestion
  BY <1>1, ElementOfSeq
<1>3. \A k \in 1..Len(transfers) : transfers[k].amount \in Int
  BY <1>2 DEF Suggestion
<1>4. Len(transfers) \in Nat /\ DOMAIN transfers = 1..Len(transfers)
  BY <1>1
<1> QED BY <1>3, <1>4

\* Positions are sums.
OpenAddsUp ==
  /\ Open \in [Person -> Int]
  /\ \A u \in Person :
        /\ SumOver(Cents, From(u)) \in Int /\ SumOver(Cents, To(u)) \in Int
        /\ Open[u] = balances[u] + SumOver(Cents, From(u)) - SumOver(Cents, To(u))

\* MapThenSumSet over the suggestions is a sum of integers.
LEMMA OpenIs == TypeOK => OpenAddsUp
<1> SUFFICES ASSUME TypeOK PROVE OpenAddsUp
  OBVIOUS
<1>1. Len(transfers) \in Nat /\ DOMAIN transfers = 1..Len(transfers)
  BY DEF TypeOK
<1>2. \A k \in 1..Len(transfers) : Cents[k] \in Int
  BY TransfersAre DEF Cents
<1>3. IsFiniteSet(1..Len(transfers))
  BY <1>1, FS_Interval
<1>4. ASSUME NEW u \in Person
      PROVE  /\ IsFiniteSet(From(u)) /\ IsFiniteSet(To(u))
             /\ SumOver(Cents, From(u)) \in Int /\ SumOver(Cents, To(u)) \in Int
  <2>1. From(u) \in SUBSET (1..Len(transfers)) /\ To(u) \in SUBSET (1..Len(transfers))
    BY <1>1 DEF From, To
  <2>2. IsFiniteSet(From(u)) /\ IsFiniteSet(To(u))
    BY <1>3, <2>1, FS_Subset
  <2>3. (\A k \in From(u) : Cents[k] \in Int) /\ (\A k \in To(u) : Cents[k] \in Int)
    BY <1>2, <2>1
  <2> QED BY <2>2, <2>3, SumInt
<1>5. Open = [u \in Person |-> balances[u] + SumOver(Cents, From(u))
                                          - SumOver(Cents, To(u))]
  BY DEF Open, SumOver
<1>6. \A u \in Person : Open[u] = balances[u] + SumOver(Cents, From(u)) - SumOver(Cents, To(u))
  BY <1>5
<1>7. \A u \in Person : balances[u] \in Int
  BY DEF TypeOK
<1>8. Open \in [Person -> Int]
  BY <1>4, <1>5, <1>7
<1> QED BY <1>4, <1>6, <1>8 DEF OpenAddsUp

\* One more suggestion moves its amount from one position to the other.
LEMMA OpenMoves ==
  ASSUME TypeOK, TypeOK', NEW d \in Person, NEW c \in Person, d # c, NEW m \in Nat,
         transfers' = Append(transfers, [from |-> d, to |-> c, amount |-> m]),
         UNCHANGED balances
  PROVE  Open' = [Open EXCEPT ![d] = @ + m, ![c] = @ - m]
<1> PICK n, k : n = Len(transfers) /\ k = n + 1
  OBVIOUS
<1>1. /\ n \in Nat /\ DOMAIN transfers = 1..n /\ DOMAIN transfers' = 1..k
      /\ \A x \in 1..n : transfers'[x] = transfers[x]
      /\ transfers'[k] = [from |-> d, to |-> c, amount |-> m]
  <2>1. PICK e : e = [from |-> d, to |-> c, amount |-> m]
    OBVIOUS
  <2>2. transfers \in Seq(Suggestion)
    BY DEF TypeOK, Suggestion
  <2>3. transfers' = Append(transfers, e)
    BY <2>1
  <2> HIDE DEF Suggestion
  <2> QED BY <2>1, <2>2, <2>3
<1>2. /\ \A x \in 1..n : Cents'[x] = Cents[x] /\ Cents[x] \in Int
      /\ Cents'[k] = m
  <2>1. \A x \in 1..n : transfers[x].amount \in Int
    BY TransfersAre
  <2>2. \A x \in 1..n : x \in 1..k
    BY <1>1
  <2>3. \A x \in 1..n : Cents'[x] = Cents[x] /\ Cents[x] = transfers[x].amount
    BY <1>1, <2>2 DEF Cents
  <2>4. Cents'[k] = m
    <3>1. k \in 1..k
      BY <1>1
    <3> QED BY <1>1, <3>1 DEF Cents
  <2> QED BY <2>1, <2>3, <2>4
<1>3. ASSUME NEW u \in Person
      PROVE  /\ From(u) \subseteq 1..n /\ To(u) \subseteq 1..n
             /\ From(u)' = IF u = d THEN From(u) \cup {k} ELSE From(u)
             /\ To(u)' = IF u = c THEN To(u) \cup {k} ELSE To(u)
  <2>1. \A x : x \in 1..k <=> x \in 1..n \/ x = k
    BY <1>1
  <2> QED BY <1>1, <2>1 DEF From, To
<1>4. ASSUME NEW S \in SUBSET (1..n)
      PROVE  /\ SumOver(Cents', S) = SumOver(Cents, S)
             /\ SumOver(Cents', S \cup {k}) = m + SumOver(Cents, S)
  <2>0. IsFiniteSet(S)
    <3>1. IsFiniteSet(1..n)
      BY <1>1, FS_Interval
    <3> QED BY <3>1, FS_Subset
  <2>1. k \notin S /\ \A x \in S : Cents'[x] = Cents[x] /\ Cents'[x] \in Int
    BY <1>1, <1>2
  <2>2. PICK f, g : f = Cents /\ g = Cents'
    OBVIOUS
  <2>3. SumOver(g, S) = SumOver(f, S)
    BY <2>0, <2>1, <2>2, SumEqual
  <2>4. g[k] \in Int /\ \A x \in S : g[x] \in Int
    BY <1>2, <2>1, <2>2
  <2>5. SumOver(g, S \cup {k}) = g[k] + SumOver(g, S)
    BY <2>0, <2>1, <2>4, SumInsert
  <2> QED BY <1>2, <2>2, <2>3, <2>5
<1>5. OpenAddsUp
  BY OpenIs
<1>6. OpenAddsUp'
  BY OpenIs, PTL
<1>7. ASSUME NEW u \in Person
      PROVE  Open'[u] = IF u = d THEN Open[u] + m ELSE IF u = c THEN Open[u] - m ELSE Open[u]
  <2>1. SumOver(Cents', From(u)') = IF u = d THEN m + SumOver(Cents, From(u))
                                    ELSE SumOver(Cents, From(u))
    BY <1>3, <1>4
  <2>2. SumOver(Cents', To(u)') = IF u = c THEN m + SumOver(Cents, To(u))
                                  ELSE SumOver(Cents, To(u))
    BY <1>3, <1>4
  <2>3. PICK f, t, b : /\ f = SumOver(Cents, From(u)) /\ t = SumOver(Cents, To(u))
                       /\ b = balances[u]
    OBVIOUS
  <2>4. f \in Int /\ t \in Int /\ b \in Int /\ Open[u] = b + f - t
    BY <1>5, <2>3 DEF OpenAddsUp, TypeOK
  <2>5. Open'[u] = b + SumOver(Cents', From(u)') - SumOver(Cents', To(u)')
    BY <1>6, <2>3 DEF OpenAddsUp
  <2>6. Open'[u] = b + (IF u = d THEN m + f ELSE f) - (IF u = c THEN m + t ELSE t)
    BY <2>1, <2>2, <2>3, <2>5
  <2> QED BY <2>4, <2>6
<1>8. Open \in [Person -> Int] /\ Open' \in [Person -> Int]
  BY <1>5, <1>6 DEF OpenAddsUp
<1> QED BY <1>7, <1>8

-----------------------------------------------------------------------------
\* The list s after m cents of its entry a have been dealt with.
Less(s, a, m) == [s EXCEPT ![a].cents = @ - m]

\* Nothing else in the list changes.
LEMMA Lowered ==
  ASSUME NEW s \in Seq(Entry), NEW a \in DOMAIN s, NEW m \in Nat, m <= s[a].cents,
         NEW t, t = Less(s, a, m)
  PROVE  /\ t \in Seq(Entry) /\ Len(t) = Len(s) /\ DOMAIN t = DOMAIN s
         /\ \A x \in DOMAIN s : t[x].id = s[x].id /\ (x # a => t[x] = s[x])
         /\ t[a].cents = s[a].cents - m
<1>1. DOMAIN s = 1..Len(s) /\ Len(s) \in Nat /\ \A x \in DOMAIN s : s[x] \in Entry
  BY ElementOfSeq
<1>2. PICK e : e = [s[a] EXCEPT !.cents = @ - m]
  OBVIOUS
<1>3. e \in Entry /\ e.id = s[a].id /\ e.cents = s[a].cents - m
  BY <1>1, <1>2 DEF Entry
<1>4. t = [s EXCEPT ![a] = e]
  BY <1>2 DEF Less
<1>5. DOMAIN t = DOMAIN s /\ \A x \in DOMAIN s : t[x] = IF x = a THEN e ELSE s[x]
  BY <1>4
<1>6. t \in Seq(Entry) /\ Len(t) = Len(s)
  <2>1. t = [x \in 1..Len(s) |-> t[x]]
    BY <1>1, <1>4, <1>5
  <2>2. t \in [1..Len(s) -> Entry]
    BY <1>1, <1>3, <1>5, <2>1
  <2> QED BY <1>1, <2>2, SeqDef
<1> QED BY <1>3, <1>5, <1>6

\* What is left of the entries is what is open of the people, and what the loop has
\* left behind is settled.
DebtorsMatch ==
  \A a \in DOMAIN debtors : /\ Open[debtors[a].id] = -debtors[a].cents
                            /\ debtors[a].cents = 0 <=> a < i
CreditorsMatch ==
  \A b \in DOMAIN creditors : /\ Open[creditors[b].id] = creditors[b].cents
                              /\ creditors[b].cents = 0 <=> b < j
Books ==
  /\ DebtorsMatch /\ CreditorsMatch
  /\ \A u \in Person : balances[u] = 0 => Open[u] = 0

\* Every turn is done with somebody.
Turns ==
  /\ Len(transfers) <= (i - 1) + (j - 1)
  /\ transfers = <<>> \/ Len(transfers) <= Len(debtors) + Len(creditors) - 1

\* The inductive invariant.
PairingInv ==
  /\ TypeOK /\ balances \in Ledgers
  /\ Lists(debtors, Debtors) /\ Lists(creditors, Creditors)
  /\ Books /\ Turns
  /\ SumOver(Open, Person) = SumOver(balances, Person)

\* The lists are the two sides of zero and nothing has been followed yet.
LEMMA PairingInit == Init => PairingInv
<1> SUFFICES ASSUME Init PROVE PairingInv
  OBVIOUS
<1>1. /\ balances \in Ledgers /\ balances \in [Person -> Int]
      /\ debtors = Sorted(Side(balances, -1)) /\ creditors = Sorted(Side(balances, 1))
      /\ i = 1 /\ j = 1 /\ transfers = <<>>
  BY LedgerAssumption DEF Init
<1>2. /\ debtors \in Seq(Entry) /\ Lists(debtors, Debtors)
      /\ \A a \in DOMAIN debtors : debtors[a].cents = -balances[debtors[a].id]
  <2>1. PICK f : f = [v \in Debtors |-> -balances[v]]
    OBVIOUS
  <2>2. f \in [Debtors -> Nat] /\ Debtors \in SUBSET Person
    BY <1>1, <2>1 DEF Debtors
  <2>3. Side(balances, -1) = Entries(Debtors, f)
    BY <1>1, <2>1, SidesAre
  <2>4. PICK E : E = Side(balances, -1)
    OBVIOUS
  <2>5. /\ E \in SUBSET Entry /\ IsFiniteSet(E) /\ Distinct(E)
        /\ Lists(Sorted(E), Debtors)
        /\ \A a \in DOMAIN Sorted(E) : Sorted(E)[a].cents = f[Sorted(E)[a].id]
    BY <2>2, <2>3, <2>4, EntriesAreListed
  <2>7. Sorted(E) \in Seq(Entry) /\ debtors = Sorted(E)
    BY <1>1, <2>4, <2>5, SortedIs
  <2>6. \A a \in DOMAIN debtors : debtors[a].id \in Debtors
    BY <2>5, <2>7 DEF Lists
  <2> QED BY <2>1, <2>5, <2>6, <2>7
<1>3. /\ creditors \in Seq(Entry) /\ Lists(creditors, Creditors)
      /\ \A b \in DOMAIN creditors : creditors[b].cents = balances[creditors[b].id]
  <2>1. PICK f : f = [v \in Creditors |-> balances[v]]
    OBVIOUS
  <2>2. f \in [Creditors -> Nat] /\ Creditors \in SUBSET Person
    BY <1>1, <2>1 DEF Creditors
  <2>3. Side(balances, 1) = Entries(Creditors, f)
    BY <1>1, <2>1, SidesAre
  <2>4. PICK E : E = Side(balances, 1)
    OBVIOUS
  <2>5. /\ E \in SUBSET Entry /\ IsFiniteSet(E) /\ Distinct(E)
        /\ Lists(Sorted(E), Creditors)
        /\ \A b \in DOMAIN Sorted(E) : Sorted(E)[b].cents = f[Sorted(E)[b].id]
    BY <2>2, <2>3, <2>4, EntriesAreListed
  <2>7. Sorted(E) \in Seq(Entry) /\ creditors = Sorted(E)
    BY <1>1, <2>4, <2>5, SortedIs
  <2>6. \A b \in DOMAIN creditors : creditors[b].id \in Creditors
    BY <2>5, <2>7 DEF Lists
  <2> QED BY <2>1, <2>5, <2>6, <2>7
<1>4. TypeOK
  BY <1>1, <1>2, <1>3 DEF TypeOK
<1>5. Open = balances
  <2>1. \A u \in Person : From(u) = {} /\ To(u) = {}
    BY <1>1 DEF From, To
  <2>2. \A u \in Person : SumOver(Cents, From(u)) = 0 /\ SumOver(Cents, To(u)) = 0
    BY <2>1, SumEmpty
  <2>3. OpenAddsUp
    BY <1>4, OpenIs
  <2>4. \A u \in Person : Open[u] = balances[u]
    BY <1>1, <2>2, <2>3 DEF OpenAddsUp
  <2> QED BY <1>1, <2>3, <2>4 DEF OpenAddsUp
<1>6. Books
  <2>1. DebtorsMatch
    <3>1. \A a \in DOMAIN debtors : /\ debtors[a].id \in Person /\ balances[debtors[a].id] < 0
                                    /\ a \in Nat /\ ~(a < 1)
      BY <1>2 DEF Lists, Debtors
    <3> QED BY <1>1, <1>2, <1>5, <3>1 DEF DebtorsMatch
  <2>2. CreditorsMatch
    <3>1. \A b \in DOMAIN creditors : /\ creditors[b].id \in Person
                                      /\ balances[creditors[b].id] > 0
                                      /\ b \in Nat /\ ~(b < 1)
      BY <1>3 DEF Lists, Creditors
    <3> QED BY <1>1, <1>3, <1>5, <3>1 DEF CreditorsMatch
  <2> QED BY <1>5, <2>1, <2>2 DEF Books
<1>7. Turns
  BY <1>1 DEF Turns
<1>8. SumOver(Open, Person) = SumOver(balances, Person)
  BY <1>5
<1> QED BY <1>1, <1>2, <1>3, <1>4, <1>6, <1>7, <1>8 DEF PairingInv

-----------------------------------------------------------------------------
\* A turn settles the two people it pairs as far as it goes.
LEMMA PairSettles ==
  ASSUME PairingInv, Pair
  PROVE  \E d, c \in Person, m \in Nat \ {0} :
           /\ d = debtors[i].id /\ c = creditors[j].id /\ d # c
           /\ m <= debtors[i].cents /\ m <= creditors[j].cents
           /\ m = debtors[i].cents \/ m = creditors[j].cents
           /\ Open[d] = -debtors[i].cents /\ Open[c] = creditors[j].cents
           /\ m = Repayments!Smaller(-Open[d], Open[c])
           /\ transfers' = Append(transfers, [from |-> d, to |-> c, amount |-> m])
           /\ debtors' = Less(debtors, i, m) /\ creditors' = Less(creditors, j, m)
<1> PICK x, y, m : /\ x = debtors[i] /\ y = creditors[j]
                   /\ m = IF x.cents < y.cents THEN x.cents ELSE y.cents
  OBVIOUS
<1>1. i \in DOMAIN debtors /\ j \in DOMAIN creditors /\ i \in Int /\ j \in Int
  BY DEF Pair, More, PairingInv, TypeOK
<1>2. x \in Entry /\ y \in Entry
  BY <1>1, ElementOfSeq DEF PairingInv, TypeOK
<1>3. x.id \in Debtors /\ y.id \in Creditors
  BY <1>1 DEF PairingInv, Lists
<1>4. /\ Open[x.id] = -x.cents /\ x.cents # 0
      /\ Open[y.id] = y.cents /\ y.cents # 0
  BY <1>1 DEF PairingInv, Books, DebtorsMatch, CreditorsMatch
<1>5. x.cents \in Nat /\ y.cents \in Nat
  BY <1>2 DEF Entry
<1>6. m \in Nat \ {0} /\ m <= x.cents /\ m <= y.cents /\ (m = x.cents \/ m = y.cents)
  BY <1>4, <1>5
<1>7. x.id \in Person /\ y.id \in Person /\ x.id # y.id
  BY <1>3 DEF Debtors, Creditors, PairingInv, TypeOK
<1>8. m = Repayments!Smaller(-Open[x.id], Open[y.id])
  <2>1. -Open[x.id] = x.cents
    BY <1>4, <1>5
  <2>2. m <= x.cents /\ m <= y.cents
    BY <1>6
  <2> QED BY <1>4, <1>5, <2>1 DEF Repayments!Smaller
<1>9. /\ transfers' = Append(transfers, [from |-> x.id, to |-> y.id, amount |-> m])
      /\ debtors' = Less(debtors, i, m) /\ creditors' = Less(creditors, j, m)
  BY DEF Pair, Less
<1> QED BY <1>4, <1>6, <1>7, <1>8, <1>9

\* An index that moves on when its entry is used up stays at the first open entry.
LEMMA IndexMoves ==
  ASSUME NEW s \in Seq(Entry), NEW k \in Nat, k \in DOMAIN s, NEW m \in Nat, m <= s[k].cents,
         \A x \in DOMAIN s : s[x].cents = 0 <=> x < k,
         NEW t, t = Less(s, k, m),
         NEW l, l = (IF t[k].cents = 0 THEN k + 1 ELSE k)
  PROVE  /\ l \in 1..(Len(t) + 1) /\ l >= k /\ (m = s[k].cents => l = k + 1)
         /\ \A x \in DOMAIN t : t[x].cents = 0 <=> x < l
<1>1. /\ t \in Seq(Entry) /\ Len(t) = Len(s) /\ DOMAIN t = DOMAIN s
      /\ \A x \in DOMAIN s : x # k => t[x] = s[x]
      /\ t[k].cents = s[k].cents - m
  BY Lowered
<1>2. DOMAIN s = 1..Len(s) /\ Len(s) \in Nat /\ s[k] \in Entry
  BY ElementOfSeq
<1>3. s[k].cents \in Nat
  BY <1>2 DEF Entry
<1>4. l \in 1..(Len(t) + 1) /\ l >= k /\ (m = s[k].cents => l = k + 1)
  BY <1>1, <1>2, <1>3
<1>5. ASSUME NEW x \in DOMAIN t PROVE t[x].cents = 0 <=> x < l
  <2>1. x \in DOMAIN s /\ x \in Nat
    BY <1>1, <1>2
  <2>2. CASE x = k
    BY <1>1, <2>2
  <2>3. CASE x # k
    <3>1. t[x].cents = 0 <=> x < k
      BY <1>1, <2>1, <2>3
    <3> QED BY <2>1, <2>3, <3>1
  <2> QED BY <2>2, <2>3
<1> QED BY <1>4, <1>5

\* A turn keeps the books: it moves the same amount in a list and in a position, and the
\* index passes the entries it uses up.
LEMMA PairingStep == PairingInv /\ [Next]_vars => PairingInv'
<1> SUFFICES ASSUME PairingInv, [Next]_vars PROVE PairingInv'
  OBVIOUS
<1>1. CASE UNCHANGED vars
  <2>1. /\ balances' = balances /\ debtors' = debtors /\ creditors' = creditors
        /\ i' = i /\ j' = j /\ transfers' = transfers
    BY <1>1 DEF vars
  <2>2. Open' = Open
    <3>1. Cents' = Cents /\ \A u : From(u)' = From(u) /\ To(u)' = To(u)
      BY <2>1 DEF Cents, From, To
    <3>2. OpenAddsUp
      BY OpenIs DEF PairingInv
    <3>3. OpenAddsUp'
      <4>1. TypeOK'
        BY <2>1 DEF PairingInv, TypeOK
      <4> QED BY <4>1, OpenIs, PTL
    <3>4. Open \in [Person -> Int] /\ Open' \in [Person -> Int]
      BY <3>2, <3>3 DEF OpenAddsUp
    <3>5. \A u \in Person : Open'[u] = Open[u]
      BY <2>1, <3>1, <3>2, <3>3 DEF OpenAddsUp
    <3> QED BY <3>4, <3>5
  <2> QED BY <2>1, <2>2 DEF PairingInv, TypeOK, Lists, Debtors, Creditors, Books,
       DebtorsMatch, CreditorsMatch, Turns
<1>2. CASE Pair
  <2>1. PICK d, c \in Person, m \in Nat \ {0} :
           /\ d = debtors[i].id /\ c = creditors[j].id /\ d # c
           /\ m <= debtors[i].cents /\ m <= creditors[j].cents
           /\ m = debtors[i].cents \/ m = creditors[j].cents
           /\ Open[d] = -debtors[i].cents /\ Open[c] = creditors[j].cents
           /\ m = Repayments!Smaller(-Open[d], Open[c])
           /\ transfers' = Append(transfers, [from |-> d, to |-> c, amount |-> m])
           /\ debtors' = Less(debtors, i, m) /\ creditors' = Less(creditors, j, m)
    BY <1>2, PairSettles
  <2>2. /\ i' = (IF debtors'[i].cents = 0 THEN i + 1 ELSE i)
        /\ j' = (IF creditors'[j].cents = 0 THEN j + 1 ELSE j)
        /\ balances' = balances
        /\ i <= Len(debtors) /\ j <= Len(creditors)
    BY <1>2 DEF Pair, More
  <2>3. /\ debtors \in Seq(Entry) /\ creditors \in Seq(Entry)
        /\ i \in Nat /\ i \in DOMAIN debtors /\ j \in Nat /\ j \in DOMAIN creditors
        /\ m \in Nat
    BY <2>2 DEF PairingInv, TypeOK
  <2>4. /\ debtors' \in Seq(Entry) /\ Len(debtors') = Len(debtors)
        /\ DOMAIN debtors' = DOMAIN debtors
        /\ \A x \in DOMAIN debtors : /\ debtors'[x].id = debtors[x].id
                                     /\ x # i => debtors'[x] = debtors[x]
        /\ debtors'[i].cents = debtors[i].cents - m
    BY <2>1, <2>3, Lowered
  <2>5. /\ creditors' \in Seq(Entry) /\ Len(creditors') = Len(creditors)
        /\ DOMAIN creditors' = DOMAIN creditors
        /\ \A x \in DOMAIN creditors : /\ creditors'[x].id = creditors[x].id
                                       /\ x # j => creditors'[x] = creditors[x]
        /\ creditors'[j].cents = creditors[j].cents - m
    BY <2>1, <2>3, Lowered
  <2>6. /\ i' \in 1..(Len(debtors') + 1) /\ i' >= i /\ (m = debtors[i].cents => i' = i + 1)
        /\ \A x \in DOMAIN debtors' : debtors'[x].cents = 0 <=> x < i'
    <3>1. \A x \in DOMAIN debtors : debtors[x].cents = 0 <=> x < i
      BY DEF PairingInv, Books, DebtorsMatch
    <3>2. debtors \in Seq(Entry) /\ i \in Nat /\ i \in DOMAIN debtors /\ m \in Nat
      BY <2>3
    <3>3. m <= debtors[i].cents /\ debtors' = Less(debtors, i, m)
      BY <2>1
    <3>4. i' = (IF debtors'[i].cents = 0 THEN i + 1 ELSE i)
      BY <2>2
    <3> QED BY <3>1, <3>2, <3>3, <3>4, IndexMoves
  <2>7. /\ j' \in 1..(Len(creditors') + 1) /\ j' >= j /\ (m = creditors[j].cents => j' = j + 1)
        /\ \A x \in DOMAIN creditors' : creditors'[x].cents = 0 <=> x < j'
    <3>1. \A x \in DOMAIN creditors : creditors[x].cents = 0 <=> x < j
      BY DEF PairingInv, Books, CreditorsMatch
    <3>2. creditors \in Seq(Entry) /\ j \in Nat /\ j \in DOMAIN creditors /\ m \in Nat
      BY <2>3
    <3>3. m <= creditors[j].cents /\ creditors' = Less(creditors, j, m)
      BY <2>1
    <3>4. j' = (IF creditors'[j].cents = 0 THEN j + 1 ELSE j)
      BY <2>2
    <3> QED BY <3>1, <3>2, <3>3, <3>4, IndexMoves
  <2>8. TypeOK'
    <3>1. transfers' \in Seq(Suggestion)
      <4>1. transfers \in Seq(Suggestion)
        BY DEF PairingInv, TypeOK, Suggestion
      <4>2. PICK e : e = [from |-> d, to |-> c, amount |-> m]
        OBVIOUS
      <4>3. e \in Suggestion /\ transfers' = Append(transfers, e)
        BY <2>1, <4>2 DEF Suggestion
      <4> HIDE DEF Suggestion
      <4> QED BY <4>1, <4>3
    <3>2. balances' \in [Person -> Int]
      BY <2>2 DEF PairingInv, TypeOK
    <3> QED BY <2>4, <2>5, <2>6, <2>7, <3>1, <3>2 DEF TypeOK, Suggestion
  <2>9. Open \in [Person -> Int] /\ Open' = [Open EXCEPT ![d] = @ + m, ![c] = @ - m]
    <3>1. TypeOK
      BY DEF PairingInv
    <3>2. Open \in [Person -> Int]
      BY <3>1, OpenIs DEF OpenAddsUp
    <3>3. Open' = [Open EXCEPT ![d] = @ + m, ![c] = @ - m]
      <4>1. transfers' = Append(transfers, [from |-> d, to |-> c, amount |-> m]) /\ d # c
        BY <2>1
      <4>2. UNCHANGED balances /\ m \in Nat
        BY <2>2, <2>3
      <4> QED BY <2>8, <3>1, <4>1, <4>2, OpenMoves
    <3> QED BY <3>2, <3>3
  <2>10. Debtors' = Debtors /\ Creditors' = Creditors
    BY <2>2 DEF Debtors, Creditors
  <2>11. Lists(debtors, Debtors)' /\ Lists(creditors, Creditors)'
    <3>1. Lists(debtors, Debtors)'
      BY <2>4, <2>10 DEF PairingInv, Lists
    <3>2. Lists(creditors, Creditors)'
      BY <2>5, <2>10 DEF PairingInv, Lists
    <3> QED BY <3>1, <3>2
  <2>12. d \in Debtors /\ c \in Creditors /\ Debtors \cap Creditors = {}
    <3>1. d \in Debtors /\ c \in Creditors
      BY <2>1, <2>3 DEF PairingInv, Lists
    <3> QED BY <3>1 DEF Debtors, Creditors, PairingInv, TypeOK
  <2>13. \A u \in Person : Open'[u] = IF u = d THEN Open[u] + m
                                     ELSE IF u = c THEN Open[u] - m ELSE Open[u]
    BY <2>1, <2>9
  <2>14. DebtorsMatch'
    <3> SUFFICES ASSUME NEW x \in DOMAIN debtors
                 PROVE  Open'[debtors[x].id] = -(debtors'[x].cents)
      BY <2>4, <2>6 DEF DebtorsMatch
    <3>1. debtors[x].id \in Debtors /\ debtors[x].id \in Person /\ debtors[x].id # c
      BY <2>12 DEF PairingInv, Lists, Debtors
    <3>2. debtors[x].cents \in Int /\ Open[debtors[x].id] = -debtors[x].cents
      <4>1. debtors[x] \in Entry
        BY <2>3, ElementOfSeq
      <4> QED BY <4>1 DEF Entry, PairingInv, Books, DebtorsMatch
    <3>3. CASE x = i
      <4>1. Open'[debtors[x].id] = Open[debtors[x].id] + m
        BY <2>1, <2>13, <3>1, <3>3
      <4>2. debtors'[x].cents = debtors[x].cents - m
        BY <2>4, <3>3
      <4> QED BY <2>3, <3>2, <4>1, <4>2
    <3>4. CASE x # i
      <4>1. debtors[x].id # d
        BY <2>1, <2>3, <3>4 DEF PairingInv, Lists
      <4>2. Open'[debtors[x].id] = Open[debtors[x].id] /\ debtors'[x] = debtors[x]
        BY <2>4, <2>13, <3>1, <3>4, <4>1
      <4> QED BY <3>2, <4>2
    <3> QED BY <3>3, <3>4
  <2>15. CreditorsMatch'
    <3> SUFFICES ASSUME NEW x \in DOMAIN creditors
                 PROVE  Open'[creditors[x].id] = creditors'[x].cents
      BY <2>5, <2>7 DEF CreditorsMatch
    <3>1. /\ creditors[x].id \in Creditors /\ creditors[x].id \in Person
          /\ creditors[x].id # d
      BY <2>12 DEF PairingInv, Lists, Creditors
    <3>2. creditors[x].cents \in Int /\ Open[creditors[x].id] = creditors[x].cents
      <4>1. creditors[x] \in Entry
        BY <2>3, ElementOfSeq
      <4> QED BY <4>1 DEF Entry, PairingInv, Books, CreditorsMatch
    <3>3. CASE x = j
      <4>1. Open'[creditors[x].id] = Open[creditors[x].id] - m
        BY <2>1, <2>13, <3>1, <3>3
      <4>2. creditors'[x].cents = creditors[x].cents - m
        BY <2>5, <3>3
      <4> QED BY <2>3, <3>2, <4>1, <4>2
    <3>4. CASE x # j
      <4>1. creditors[x].id # c
        BY <2>1, <2>3, <3>4 DEF PairingInv, Lists
      <4>2. Open'[creditors[x].id] = Open[creditors[x].id] /\ creditors'[x] = creditors[x]
        BY <2>5, <2>13, <3>1, <3>4, <4>1
      <4> QED BY <3>2, <4>2
    <3> QED BY <3>3, <3>4
  <2>16. Books'
    <3>1. ASSUME NEW u \in Person, balances[u] = 0 PROVE Open'[u] = 0
      <4>1. u # d /\ u # c
        BY <2>12, <3>1 DEF Debtors, Creditors
      <4> QED BY <2>13, <3>1, <4>1 DEF PairingInv, Books
    <3> QED BY <2>2, <2>14, <2>15, <3>1 DEF Books
  <2>17. Turns'
    <3>1. Len(transfers) \in Nat /\ Len(transfers') = Len(transfers) + 1
      <4>1. transfers \in Seq(Suggestion)
        BY DEF PairingInv, TypeOK, Suggestion
      <4>2. PICK e : e = [from |-> d, to |-> c, amount |-> m]
        OBVIOUS
      <4>3. transfers' = Append(transfers, e)
        BY <2>1, <4>2
      <4> HIDE DEF Suggestion
      <4>4. Len(transfers) \in Nat
        BY <4>1
      <4>5. e \in Suggestion
        BY <2>1, <4>2 DEF Suggestion
      <4>6. Len(transfers') = Len(transfers) + 1
        BY <4>1, <4>3, <4>5
      <4> QED BY <4>4, <4>6
    <3>2. Len(debtors) \in Nat /\ Len(creditors) \in Nat
      BY <2>3
    <3>3. Len(transfers) <= (i - 1) + (j - 1)
      BY DEF PairingInv, Turns
    <3>4. PICK p, q : p = i' /\ q = j'
      OBVIOUS
    <3>5. p \in Int /\ q \in Int /\ i \in Int /\ j \in Int /\ p >= i /\ q >= j
      BY <2>3, <2>6, <2>7, <3>4
    <3>6. p = i + 1 \/ q = j + 1
      <4>1. CASE m = debtors[i].cents
        BY <2>6, <3>4, <4>1
      <4>2. CASE m = creditors[j].cents
        BY <2>7, <3>4, <4>2
      <4> QED BY <2>1, <4>1, <4>2
    <3>7. Len(transfers') <= (p - 1) + (q - 1)
      BY <3>1, <3>3, <3>5, <3>6
    <3>8. Len(transfers') <= Len(debtors) + Len(creditors) - 1
      BY <2>2, <3>1, <3>2, <3>3, <3>5
    <3> QED BY <2>4, <2>5, <3>4, <3>7, <3>8 DEF Turns
  <2>18. SumOver(Open', Person) = SumOver(balances', Person)
    <3>1. PICK f, g, h : /\ f = Open /\ h = Open'
                         /\ g = [Open EXCEPT ![d] = @ + m]
      OBVIOUS
    <3>9. /\ f \in [Person -> Int] /\ h = [f EXCEPT ![d] = @ + m, ![c] = @ - m]
          /\ g = [f EXCEPT ![d] = @ + m] /\ m \in Int
      BY <2>3, <2>9, <3>1
    <3>2. /\ \A u \in Person : f[u] \in Int /\ g[u] \in Int /\ h[u] \in Int
          /\ \A u \in Person \ {d} : f[u] = g[u]
          /\ \A u \in Person \ {c} : g[u] = h[u]
          /\ g[d] = f[d] + m /\ h[c] = g[c] - m
      BY <2>1, <3>9
    <3>3. IsFiniteSet(Person)
      BY LedgerAssumption
    <3>4. SumOver(g, Person) = SumOver(f, Person) + g[d] - f[d]
      BY <3>2, <3>3, SumChange
    <3>5. SumOver(h, Person) = SumOver(g, Person) + h[c] - g[c]
      BY <3>2, <3>3, SumChange
    <3>6. SumOver(f, Person) = SumOver(balances, Person)
      BY <3>1 DEF PairingInv
    <3>10. SumOver(f, Person) \in Int
      BY <3>2, <3>3, SumInt
    <3>7. f[d] \in Int /\ g[c] \in Int /\ g[d] \in Int /\ h[c] \in Int
      BY <3>2
    <3>8. SumOver(h, Person) = SumOver(f, Person)
      <4>1. SumOver(g, Person) = SumOver(f, Person) + m
        BY <2>3, <3>2, <3>4, <3>7, <3>10
      <4> QED BY <2>3, <3>2, <3>5, <3>7, <3>10, <4>1
    <3> QED BY <2>2, <3>1, <3>6, <3>8
  <2>19. balances' \in Ledgers
    BY <2>2 DEF PairingInv
  <2> QED BY <2>8, <2>11, <2>16, <2>17, <2>18, <2>19 DEF PairingInv
<1> QED BY <1>1, <1>2 DEF Next

-----------------------------------------------------------------------------
\* The loop keeps PairingInv.
LEMMA PairingIsSafe == Spec => []PairingInv
BY PairingInit, PairingStep, PTL DEF Spec

\* Every turn is done with one of the people and the last one with two.
LEMMA FewEnough == PairingInv => FewTransfers
<1> SUFFICES ASSUME PairingInv PROVE FewTransfers
  OBVIOUS
<1> PICK I : I = {u \in Person : balances[u] # 0}
  OBVIOUS
<1>1. Debtors \in SUBSET Person /\ Creditors \in SUBSET Person /\ I \in SUBSET Person
  BY DEF Debtors, Creditors
<1>2. I = Debtors \cup Creditors /\ Debtors \cap Creditors = {}
  BY DEF Debtors, Creditors, PairingInv, TypeOK
<1>3. IsFiniteSet(Debtors) /\ IsFiniteSet(Creditors) /\ IsFiniteSet(I)
  BY <1>1, FS_Subset, LedgerAssumption
<1>4. Cardinality(I) = Cardinality(Debtors) + Cardinality(Creditors)
  <2>1. Cardinality({}) = 0 /\ Cardinality(Debtors) \in Nat /\ Cardinality(Creditors) \in Nat
    BY <1>3, FS_EmptySet, FS_CardinalityType
  <2>2. Cardinality(I) = Cardinality(Debtors) + Cardinality(Creditors) - Cardinality({})
    BY <1>2, <1>3, FS_Union
  <2> QED BY <2>1, <2>2
<1>5. /\ debtors \in Seq(Entry) /\ creditors \in Seq(Entry)
      /\ Lists(debtors, Debtors) /\ Lists(creditors, Creditors)
  BY DEF PairingInv, TypeOK
<1>6. Len(debtors) <= Cardinality(Debtors) /\ Len(creditors) <= Cardinality(Creditors)
  BY <1>1, <1>5, ListsAreShort
<1>7. PICK n, a, b, p, q : /\ n = Len(transfers) /\ a = Len(debtors) /\ b = Len(creditors)
                           /\ p = Cardinality(Debtors) /\ q = Cardinality(Creditors)
  OBVIOUS
<1>8. n \in Nat /\ a \in Nat /\ b \in Nat /\ p \in Nat /\ q \in Nat
  BY <1>3, <1>5, <1>7, TransfersAre, FS_CardinalityType DEF PairingInv
<1>9. n = 0 \/ n <= a + b - 1
  <2>1. CASE transfers = <<>>
    BY <1>7, <2>1
  <2> QED BY <1>7, <2>1 DEF PairingInv, Turns
<1>10. I = {} => p + q = 0
  BY <1>3, <1>4, <1>7, <1>8, FS_EmptySet
<1>11. I # {} => p + q # 0
  BY <1>3, <1>4, <1>7, <1>8, FS_EmptySet
<1>12. n <= IF I = {} THEN 0 ELSE (p + q) - 1
  BY <1>6, <1>7, <1>8, <1>9, <1>10, <1>11
<1> QED BY <1>4, <1>7, <1>12 DEF FewTransfers

\* simplify_debts suggests fewer transfers than there are people with something open, for
\* any number of people and any balances.
THEOREM SuggestionsAreFew == Spec => []FewTransfers
BY PairingIsSafe, FewEnough, PTL

\* Less in the lists is Settle on the positions.
LEMMA TurnSettles == PairingInv /\ PairingInv' /\ [Next]_vars => [Repayments!Next]_Open
<1> SUFFICES ASSUME PairingInv, PairingInv', [Next]_vars PROVE [Repayments!Next]_Open
  OBVIOUS
<1>1. TypeOK /\ TypeOK'
  BY DEF PairingInv
<1>2. OpenAddsUp /\ OpenAddsUp'
  BY <1>1, OpenIs, PTL
<1>3. CASE UNCHANGED vars
  <2>1. Cents' = Cents /\ \A u : From(u)' = From(u) /\ To(u)' = To(u)
    BY <1>3 DEF vars, Cents, From, To
  <2>2. \A u \in Person : Open'[u] = Open[u]
    BY <1>2, <1>3, <2>1 DEF OpenAddsUp, vars
  <2> QED BY <1>2, <2>2 DEF OpenAddsUp
<1>4. CASE Pair
  <2>1. PICK d, c \in Person, m \in Nat \ {0} :
           /\ d = debtors[i].id /\ c = creditors[j].id /\ d # c
           /\ m <= debtors[i].cents /\ m <= creditors[j].cents
           /\ m = debtors[i].cents \/ m = creditors[j].cents
           /\ Open[d] = -debtors[i].cents /\ Open[c] = creditors[j].cents
           /\ m = Repayments!Smaller(-Open[d], Open[c])
           /\ transfers' = Append(transfers, [from |-> d, to |-> c, amount |-> m])
           /\ debtors' = Less(debtors, i, m) /\ creditors' = Less(creditors, j, m)
    BY <1>4, PairSettles
  <2>2. Open' = [Open EXCEPT ![d] = @ + m, ![c] = @ - m]
    <3>1. transfers' = Append(transfers, [from |-> d, to |-> c, amount |-> m]) /\ d # c
      BY <2>1
    <3>2. UNCHANGED balances /\ m \in Nat
      BY <1>4 DEF Pair
    <3> QED BY <1>1, <3>1, <3>2, OpenMoves
  <2>3. Open[d] < 0 /\ Open[c] > 0
    <3>1. i \in DOMAIN debtors /\ j \in DOMAIN creditors
      BY <1>1, <1>4 DEF Pair, More, TypeOK
    <3>4. debtors \in Seq(Entry) /\ creditors \in Seq(Entry)
      BY <1>1 DEF TypeOK
    <3>2. debtors[i] \in Entry /\ creditors[j] \in Entry
      BY <3>1, <3>4, ElementOfSeq
    <3>3. debtors[i].cents \in Nat /\ creditors[j].cents \in Nat
      BY <3>2 DEF Entry
    <3> QED BY <2>1, <3>3
  <2>4. Repayments!Settle(d, c)
    BY <2>1, <2>2, <2>3 DEF Repayments!Settle
  <2> QED BY <2>4 DEF Repayments!Next
<1> QED BY <1>3, <1>4 DEF Next

\* Every turn of simplify_debts's loop is a step of the promised settlement: it takes from
\* one who owes, gives to one who is owed, overshoots neither and finishes with one of them.
THEOREM EveryTurnSettles == Spec => Repayments!TypeOK /\ [][Repayments!Next]_Open
<1>1. PairingInv => Repayments!TypeOK
  BY OpenIs DEF PairingInv, OpenAddsUp, Repayments!TypeOK
<1> QED BY <1>1, PairingIsSafe, TurnSettles, PTL DEF Spec

\* What compute_balances returns (TripProofs!EveryCentIsAccountedFor).
LedgersAddUp == \A b \in Ledgers : SumOver(b, Person) = 0

\* Positions of one sign that add up to nothing are all zero.
LEMMA StopsWhenSquare ==
  ASSUME LedgersAddUp PROVE PairingInv => (~More => Repayments!Square)
<1> SUFFICES ASSUME PairingInv, ~More PROVE \A u \in Person : Open[u] = 0
  BY DEF Repayments!Square
<1>1. PICK f : f = Open
  OBVIOUS
<1>2. f \in [Person -> Int] /\ SumOver(f, Person) = 0 /\ IsFiniteSet(Person)
  BY <1>1, OpenIs, LedgerAssumption DEF PairingInv, OpenAddsUp, LedgersAddUp
<1>3. /\ debtors \in Seq(Entry) /\ creditors \in Seq(Entry)
      /\ i \in Nat /\ j \in Nat /\ balances \in [Person -> Int]
  BY DEF PairingInv, TypeOK
<1>4. /\ \A a \in DOMAIN debtors : debtors[a].cents \in Nat
      /\ \A b \in DOMAIN creditors : creditors[b].cents \in Nat
  <2>1. /\ \A a \in DOMAIN debtors : debtors[a] \in Entry
        /\ \A b \in DOMAIN creditors : creditors[b] \in Entry
    BY <1>3, ElementOfSeq
  <2> QED BY <2>1 DEF Entry
<1>5. ASSUME NEW u \in Person, balances[u] < 0
      PROVE  f[u] <= 0 /\ (i > Len(debtors) => f[u] = 0)
  <2>1. PICK a \in DOMAIN debtors : debtors[a].id = u
    BY <1>5 DEF PairingInv, Lists, Debtors
  <2>2. f[u] = -debtors[a].cents /\ (debtors[a].cents = 0 <=> a < i)
    BY <1>1, <2>1 DEF PairingInv, Books, DebtorsMatch
  <2>3. a \in Nat /\ a <= Len(debtors) /\ Len(debtors) \in Nat
    BY <1>3
  <2> QED BY <1>3, <1>4, <2>2, <2>3
<1>6. ASSUME NEW u \in Person, balances[u] > 0
      PROVE  f[u] >= 0 /\ (j > Len(creditors) => f[u] = 0)
  <2>1. PICK b \in DOMAIN creditors : creditors[b].id = u
    BY <1>6 DEF PairingInv, Lists, Creditors
  <2>2. f[u] = creditors[b].cents /\ (creditors[b].cents = 0 <=> b < j)
    BY <1>1, <2>1 DEF PairingInv, Books, CreditorsMatch
  <2>3. b \in Nat /\ b <= Len(creditors) /\ Len(creditors) \in Nat
    BY <1>3
  <2> QED BY <1>3, <1>4, <2>2, <2>3
<1>7. \A u \in Person : balances[u] = 0 => f[u] = 0
  BY <1>1 DEF PairingInv, Books
<1>8. \A u \in Person : balances[u] < 0 \/ balances[u] > 0 \/ balances[u] = 0
  BY <1>3
<1>9. CASE i > Len(debtors)
  <2>1. \A u \in Person : f[u] \in Nat
    BY <1>2, <1>5, <1>6, <1>7, <1>8, <1>9
  <2> QED BY <1>1, <1>2, <2>1, NothingToShare
<1>10. CASE j > Len(creditors)
  <2>1. \A u \in Person : f[u] <= 0
    BY <1>2, <1>5, <1>6, <1>7, <1>8, <1>10
  <2>2. PICK g : g = [u \in Person |-> -f[u]]
    OBVIOUS
  <2>3. PICK z : z = [u \in Person |-> 0]
    OBVIOUS
  <2>4. \A u \in Person : f[u] \in Int /\ g[u] \in Nat /\ z[u] = f[u] + g[u] /\ z[u] = 0
    BY <1>2, <2>1, <2>2, <2>3
  <2>5. SumOver(z, Person) = SumOver(f, Person) + SumOver(g, Person)
    BY <1>2, <2>4, SumPlus
  <2>6. SumOver(z, Person) = 0
    BY <1>2, <2>4, SumZero
  <2>7. SumOver(g, Person) \in Int
    BY <1>2, <2>4, SumInt
  <2>8. SumOver(g, Person) = 0
    BY <1>2, <2>5, <2>6, <2>7
  <2>9. \A u \in Person : g[u] = 0
    BY <1>2, <2>4, <2>8, NothingToShare
  <2> QED BY <1>1, <2>4, <2>9
<1>11. i > Len(debtors) \/ j > Len(creditors)
  BY <1>3 DEF More
<1> QED BY <1>9, <1>10, <1>11

\* When one list is exhausted the other one is too: given balances that add up to nothing,
\* the loop of simplify_debts stops only where nobody has anything open.
THEOREM NothingIsLeftOpen ==
  ASSUME LedgersAddUp PROVE Spec => [](~More => Repayments!Square)
BY PairingIsSafe, StopsWhenSquare, PTL
=============================================================================
