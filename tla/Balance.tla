------------------------------- MODULE Balance -------------------------------
(***************************************************************************)
(* The arithmetic of services/balance.py and of the two places that net a  *)
(* person's position out of the raw rows (services/expense_service.py).    *)
(* Everything here is a constant-level operator: nothing is stored, every  *)
(* balance is recomputed from the rows it is given.                        *)
(*                                                                         *)
(*   expense     [id, paid_by, amount, shares]   shares: person -> cents   *)
(*   settlement  [id, from, to, amount]                                    *)
(***************************************************************************)
EXTENDS Integers, FiniteSets, Sequences, FiniteSetsExt

(***************************************************************************)
(* split_evenly: total over the people of the sequence ids, the leftover   *)
(* cents handed out one each, the payer first and then in list order.      *)
(***************************************************************************)
People(ids) == {ids[i] : i \in DOMAIN ids}

\* sorted is stable and nobody is listed twice: the payer, if listed, moves to the
\* front and the others keep their order.
PayerFirst(ids, payer) ==
  LET k == CHOOSE i \in DOMAIN ids : ids[i] = payer
  IN  [i \in DOMAIN ids |-> IF payer \notin People(ids) \/ i > k THEN ids[i]
                           ELSE IF i = 1 THEN payer ELSE ids[i - 1]]

\* Mutant of SplitEvenly: the leftover cents are dropped.
SplitDropsRemainder(total, ids, payer) ==
  [u \in People(ids) |-> total \div Len(ids)]

SplitEvenly(total, ids, payer) ==
  LET base      == total \div Len(ids)
      remainder == total % Len(ids)
      lucky     == People(SubSeq(PayerFirst(ids, payer), 1, remainder))
  IN  [u \in People(ids) |-> base + (IF u \in lucky THEN 1 ELSE 0)]

(***************************************************************************)
(* compute_balances: net position per person, positive when owed money.    *)
(***************************************************************************)
ShareOf(u, e) == IF u \in DOMAIN e.shares THEN e.shares[u] ELSE 0

SharesTotal(e) == MapThenSumSet(LAMBDA u : e.shares[u], DOMAIN e.shares)

\* What one expense does to u: the payer fronted all of it, everyone owes a share.
Effect(u, e) == (IF u = e.paid_by THEN SharesTotal(e) ELSE 0) - ShareOf(u, e)

\* What one repayment does to u: the sender's deficit shrinks, so does the
\* receiver's credit.
Repayment(u, s) == (IF u = s.from THEN s.amount ELSE 0)
                     - (IF u = s.to THEN s.amount ELSE 0)

Net(u, expenses, settlements) ==
  MapThenSumSet(LAMBDA e : Effect(u, e), expenses)
    + MapThenSumSet(LAMBDA s : Repayment(u, s), settlements)

Involved(expenses, settlements) ==
  (UNION {{e.paid_by} \cup DOMAIN e.shares : e \in expenses})
    \cup (UNION {{s.from, s.to} : s \in settlements})

ComputeBalances(expenses, settlements) ==
  [u \in Involved(expenses, settlements) |-> Net(u, expenses, settlements)]

(***************************************************************************)
(* get_balance_report adds the members with no activity, showing zero, and *)
(* balance_for looks one person up in it, 0 for somebody it does not list. *)
(***************************************************************************)
BalanceReport(members, expenses, settlements) ==
  LET computed == ComputeBalances(expenses, settlements)
  IN  [u \in members \cup DOMAIN computed |->
         IF u \in DOMAIN computed THEN computed[u] ELSE 0]

BalanceFor(u, members, expenses, settlements) ==
  LET report == BalanceReport(members, expenses, settlements)
  IN  IF u \in DOMAIN report THEN report[u] ELSE 0

(***************************************************************************)
(* balances_for_trips: the same position for the trips list, added up row  *)
(* by row of the joined expense and share tables.  The empty set is        *)
(* Python's None: no share row in the trip, no repayment of this person's. *)
(***************************************************************************)
ShareRows(expenses) == UNION {{<<e, p>> : p \in DOMAIN e.shares} : e \in expenses}

\* Mutant of SummaryBalance: the join repeats the whole amount on every share row.
SummaryCountsPerRow(u, expenses, settlements) ==
  LET cents(r) == (IF r[1].paid_by = u THEN r[1].amount ELSE 0)
                    - (IF r[2] = u THEN r[1].shares[r[2]] ELSE 0)
      rows == ShareRows(expenses)
  IN  IF rows = {} THEN {} ELSE {MapThenSumSet(cents, rows)}

SummaryBalance(u, expenses, settlements) ==
  LET rows  == ShareRows(expenses)
      mine  == {s \in settlements : u \in {s.from, s.to}}
      cents(r) == (IF r[1].paid_by = u THEN r[1].shares[r[2]] ELSE 0)
                    - (IF r[2] = u THEN r[1].shares[r[2]] ELSE 0)
      repaid(s) == IF s.from = u THEN s.amount ELSE -s.amount
  IN  IF rows = {} /\ mine = {}
      THEN {}
      ELSE {MapThenSumSet(cents, rows) + MapThenSumSet(repaid, mine)}
==============================================================================
