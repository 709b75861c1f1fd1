------------------------------- MODULE MCTrip -------------------------------
(***************************************************************************)
(* Small instances of TripProperties for TLC.                              *)
(***************************************************************************)
EXTENDS TripProperties, TLC

CONSTANTS ann, bob, cai, c1, r1, r2

Even(payer, amount, who) ==
  [paid_by |-> payer, amount |-> amount, participants |-> who, shares |-> NoShares]

\* Bob pays two cents for Cai and himself.
OneBill == {Even(bob, 2, <<cai, bob>>)}

\* A split with a leftover cent, one whose payer is not in it, and one given as
\* explicit shares with a zero in it.
ManyBills ==
  { Even(ann, 4, <<bob, ann, cai>>), Even(bob, 3, <<cai, ann>>),
    [paid_by |-> cai, amount |-> 5, participants |-> <<>>,
     shares |-> (ann :> 2 @@ bob :> 3 @@ cai :> 0)] }

Slots == Permutations(Req)
=============================================================================
