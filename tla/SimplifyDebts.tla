---------------------------- MODULE SimplifyDebts ----------------------------
(***************************************************************************)
(* simplify_debts (services/balance.py), one action per turn of its loop:  *)
(* two lists sorted once, two indices, remainders carried in the lists.    *)
(***************************************************************************)
EXTENDS Integers, Sequences, FiniteSets, FiniteSetsExt

CONSTANTS
  Person,
  Rank,      \* the order of the ids' bytes, which breaks ties
  Ledgers    \* the balances the function may be given

ASSUME LedgerAssumption ==
  /\ IsFiniteSet(Person)
  /\ Rank \in [Person -> Nat]
  /\ \A u, v \in Person : Rank[u] = Rank[v] => u = v
  /\ Ledgers \subseteq [Person -> Int]

VARIABLES
  balances,              \* the argument
  debtors, creditors,    \* the sorted lists, with what is left of every entry
  i, j,                  \* where in them the loop is
  transfers              \* the suggestions so far

vars == <<balances, debtors, creditors, i, j, transfers>>

Entry == [id : Person, cents : Nat]

TypeOK ==
  /\ balances \in [Person -> Int]
  /\ debtors \in Seq(Entry) /\ creditors \in Seq(Entry)
  /\ i \in 1..(Len(debtors) + 1) /\ j \in 1..(Len(creditors) + 1)
  /\ transfers \in Seq([from : Person, to : Person, amount : Nat \ {0}])

\* The sort key: largest amount first, then the bytes of the id.
Before(p, q) ==
  p.cents > q.cents \/ (p.cents = q.cents /\ Rank[p.id] < Rank[q.id])

Sorted(entries) ==
  CHOOSE s \in [1..Cardinality(entries) -> entries] :
    \A a, b \in DOMAIN s : a < b => Before(s[a], s[b])

\* Mutant of Side: people with nothing open are listed on both sides.
SideWithZeros(b, sign) ==
  {[id |-> u, cents |-> sign * b[u]] : u \in {p \in Person : sign * b[p] >= 0}}

\* The people on one side of zero, with what they owe (-1) or are owed (1).
Side(b, sign) ==
  {[id |-> u, cents |-> sign * b[u]] : u \in {p \in Person : sign * b[p] > 0}}

Init ==
  /\ balances \in Ledgers
  /\ debtors = Sorted(Side(balances, -1)) /\ creditors = Sorted(Side(balances, 1))
  /\ i = 1 /\ j = 1 /\ transfers = <<>>

\* The loop's condition.
More == i <= Len(debtors) /\ j <= Len(creditors)

\* Mutant of Pair: whoever was paired is done with, remainder or not.
PairDropsRemainder ==
  LET owed == debtors[i].cents
      due == creditors[j].cents
  IN  /\ More
      /\ transfers' = Append(transfers, [from |-> debtors[i].id, to |-> creditors[j].id,
                                         amount |-> IF owed < due THEN owed ELSE due])
      /\ i' = i + 1 /\ j' = j + 1
      /\ UNCHANGED <<balances, debtors, creditors>>

Pair ==
  LET amount == IF debtors[i].cents < creditors[j].cents
                THEN debtors[i].cents ELSE creditors[j].cents
  IN  /\ More
      /\ transfers' = Append(transfers, [from |-> debtors[i].id, to |-> creditors[j].id,
                                         amount |-> amount])
      /\ debtors' = [debtors EXCEPT ![i].cents = @ - amount]
      /\ creditors' = [creditors EXCEPT ![j].cents = @ - amount]
      /\ i' = (IF debtors'[i].cents = 0 THEN i + 1 ELSE i)
      /\ j' = (IF creditors'[j].cents = 0 THEN j + 1 ELSE j)
      /\ UNCHANGED balances

Next == Pair

\* A loop in one process: it takes its next turn.
Spec == Init /\ [][Next]_vars /\ WF_vars(Next)

-----------------------------------------------------------------------------
\* What is still open once the suggestions made so far have been followed.
Cents   == [k \in DOMAIN transfers |-> transfers[k].amount]
From(u) == {k \in DOMAIN transfers : transfers[k].from = u}
To(u)   == {k \in DOMAIN transfers : transfers[k].to = u}

Open ==
  [u \in Person |-> balances[u] + MapThenSumSet(LAMBDA k : Cents[k], From(u))
                               - MapThenSumSet(LAMBDA k : Cents[k], To(u))]

Repayments == INSTANCE DebtSettlement WITH open <- Open

\* Every suggestion settles one of its two people, overshoots neither, and the
\* loop stops only when nothing could be added (simplify_debts implements
\* DebtSettlement, whatever the sizes of the balances).
SettlesDebts == Repayments!Spec

\* Followed to the end, the suggestions leave nobody owing anything: the loop
\* ends when one list is exhausted, and the other must be too.
EverybodyEndsSquare == <>[](Repayments!Square /\ ~More)

\* simplify_debts' docstring: for n nonzero participants at most n-1 transfers,
\* none when n is zero.
FewTransfers ==
  LET involved == {u \in Person : balances[u] # 0}
  IN  Len(transfers) <= IF involved = {} THEN 0 ELSE Cardinality(involved) - 1
=============================================================================
