-------------------------- MODULE MCSimplifyDebts --------------------------
(***************************************************************************)
(* Every ledger of five people that adds up to zero, as compute_balances'  *)
(* results do (EveryCentIsSomebodys), nobody further out than MaxCents.    *)
(***************************************************************************)
EXTENDS SimplifyDebts

CONSTANT MaxCents

People5 == 1..5
ByNumber == [u \in People5 |-> u]

ZeroSum ==
  {b \in [People5 -> (-MaxCents)..MaxCents] : MapThenSumSet(LAMBDA u : b[u], People5) = 0}
=============================================================================
