--------------------------- MODULE DebtSettlement ---------------------------
(***************************************************************************)
(* What a list of suggested repayments promises: read from the top, every  *)
(* one of them moves money from somebody who owes to somebody who is owed, *)
(* goes no further than either of them needs, finishes with one of the two *)
(* for good, and in the end nobody owes anything.                          *)
(***************************************************************************)
EXTENDS Integers

CONSTANT Person

VARIABLE open   \* what everybody is still owed, negative when they owe

TypeOK == open \in [Person -> Int]

Smaller(a, b) == IF a < b THEN a ELSE b

Settle(debtor, creditor) ==
  LET cents == Smaller(-open[debtor], open[creditor])
  IN  /\ open[debtor] < 0 /\ open[creditor] > 0
      /\ open' = [open EXCEPT ![debtor] = @ + cents, ![creditor] = @ - cents]

Next == \E debtor, creditor \in Person : Settle(debtor, creditor)

Spec == TypeOK /\ [][Next]_open /\ WF_open(Next)

Square == \A u \in Person : open[u] = 0
=============================================================================
