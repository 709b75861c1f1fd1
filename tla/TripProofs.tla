----------------------------- MODULE TripProofs -----------------------------
(***************************************************************************)
(* Proofs about TripRequests for any number of accounts, codes and         *)
(* requests in flight, and without the bounds the model checker needs:     *)
(* types, ownership, the people the ledger names, what the tables add up   *)
(* to, and, in the last part, what TripOverlaps says is left of the other  *)
(* promises however requests overlap.                                      *)
(***************************************************************************)
EXTENDS TripOverlaps, FiniteData, TLAPS

-----------------------------------------------------------------------------
(***************************************************************************)
(* Operators of the model.                                                 *)
(***************************************************************************)

\* An even split gives every participant a natural number of cents.
LEMMA SplitIsShares ==
  ASSUME NEW total \in Nat, NEW ids \in Seq(User), Len(ids) > 0, NEW payer
  PROVE  IsShares(SplitEvenly(total, ids, payer))
<1> DEFINE base      == total \div Len(ids)
           remainder == total % Len(ids)
           lucky     == People(SubSeq(PayerFirst(ids, payer), 1, remainder))
           f         == [u \in People(ids) |-> base + (IF u \in lucky THEN 1 ELSE 0)]
<1>1. Len(ids) \in Nat \ {0}
  OBVIOUS
<1>2. base \in Nat
  BY <1>1
<1>3. People(ids) \subseteq User
  BY DEF People
<1>4. f \in [People(ids) -> Nat]
  BY <1>2
<1>5. SplitEvenly(total, ids, payer) = f
  BY DEF SplitEvenly
<1> HIDE DEF f
<1> QED BY <1>3, <1>4, <1>5 DEF IsShares

\* The shares of any payload the schema accepts are well typed.
LEMMA BillShares ==
  ASSUME NEW b \in Bills
  PROVE  IsShares(SharesFor(b)) /\ b.paid_by \in User /\ b.amount \in Nat
<1>1. ValidBill(b)
  BY StoreAssumption
<1>2. CASE b.shares = NoShares
  <2>1. b.participants \in Seq(User) /\ Len(b.participants) > 0 /\ b.amount \in Nat
    BY <1>1, <1>2 DEF ValidBill
  <2>2. SharesFor(b) = SplitEvenly(b.amount, b.participants, b.paid_by)
    BY <1>2 DEF SharesFor
  <2>3. IsShares(SplitEvenly(b.amount, b.participants, b.paid_by))
    BY <2>1, SplitIsShares
  <2> QED BY <1>1, <2>2, <2>3 DEF ValidBill
<1>3. CASE b.shares # NoShares
  BY <1>1, <1>3 DEF ValidBill, SharesFor
<1> QED BY <1>1, <1>2, <1>3 DEF ValidBill

-----------------------------------------------------------------------------
(***************************************************************************)
(* Type correctness.                                                       *)
(***************************************************************************)
ReqsOK == DOMAIN req = Req /\ \A r \in Req : IsRequest(req[r])

LEMMA IdleIsRequest == IsRequest(Idle)
BY StoreAssumption DEF IsRequest, Idle, Roles

\* Replacing one record by a well typed one keeps all of them well typed.
LEMMA PutKeeps ==
  ASSUME ReqsOK, NEW r \in Req, NEW q, IsRequest(q), Become(r, q)
  PROVE  ReqsOK'
BY DEF ReqsOK, Become

LEMMA AnswerKeeps ==
  ASSUME ReqsOK, NEW r \in Req, Answer(r)
  PROVE  ReqsOK'
BY IdleIsRequest, PutKeeps DEF Answer

LEMMA GotoKeeps ==
  ASSUME ReqsOK, NEW r \in Req, NEW pc \in Steps, Goto(r, pc)
  PROVE  ReqsOK'
<1>1. IsRequest([req[r] EXCEPT !.pc = pc])
  BY DEF ReqsOK, IsRequest
<1> QED BY <1>1, PutKeeps DEF Goto

LEMMA ProceedKeeps ==
  ASSUME ReqsOK, NEW r \in Req, NEW condition, NEW pc \in Steps,
         Proceed(r, condition, pc)
  PROVE  ReqsOK'
BY AnswerKeeps, GotoKeeps DEF Proceed

\* What each kind of request carries.
LEMMA InputsAre ==
  /\ Inputs("create_expense") = Bills
  /\ Inputs("create_settlement") = [to : User, amount : Amounts]
  /\ \A op \in {"remove_member", "transfer"} : Inputs(op) = User
  /\ \A op \in {"join", "create_invite", "revoke_invite"} : Inputs(op) = Code
  /\ Inputs("leave") = {None}
BY DEF Inputs, Deletions

\* A request that has just been let in is well typed.
LEMMA ArrivalIsRequest ==
  ASSUME TypeOK, NEW op \in Ops, NEW u \in User, NEW arg \in Inputs(op),
         NEW pc \in Steps
  PROVE  /\ IsRequest(Arriving(op, u, arg, pc)) /\ Arriving(op, u, arg, pc).op = op
         /\ IsRequest(Seated(op, u, arg, pc)) /\ Seated(op, u, arg, pc).op = op
<1>1. role[u] \in Roles /\ row[u] \in Nat
  BY DEF TypeOK, StoreTypeOK
<1>2. IsRequest(Arriving(op, u, arg, pc)) /\ Arriving(op, u, arg, pc).op = op
  BY DEF IsRequest, Arriving, Idle, Roles
<1>3. IsRequest(Seated(op, u, arg, pc)) /\ Seated(op, u, arg, pc).op = op
  BY <1>1 DEF IsRequest, Seated, Arriving, Idle
<1> QED BY <1>2, <1>3

\* The three shapes of a step: it only reads, it commits, it arrives.
LEMMA ReadKeeps ==
  ASSUME TypeOK, UNCHANGED store, ReqsOK'
  PROVE  TypeOK'
BY DEF TypeOK, StoreTypeOK, store, ReqsOK

LEMMA CommitKeeps ==
  ASSUME TypeOK, NEW r \in Req, Answer(r), StoreTypeOK'
  PROVE  TypeOK'
BY AnswerKeeps DEF TypeOK, ReqsOK

LEMMA ArrivingKeeps ==
  ASSUME TypeOK, NEW r \in Req, NEW op, NEW u \in User, NEW arg \in Inputs(op),
         NEW pc \in Steps, Accept(r, Arriving(op, u, arg, pc))
  PROVE  TypeOK'
<1>1. op \in Ops
  BY DEF Accept, Arriving, Idle
<1>2. IsRequest(Arriving(op, u, arg, pc))
  BY <1>1, ArrivalIsRequest
<1>3. ReqsOK
  BY DEF TypeOK, ReqsOK
<1> QED BY <1>2, <1>3, PutKeeps, ReadKeeps DEF Accept

LEMMA SeatedKeeps ==
  ASSUME TypeOK, NEW r \in Req, NEW op, NEW u \in User, NEW arg \in Inputs(op),
         NEW pc \in Steps, Accept(r, Seated(op, u, arg, pc))
  PROVE  TypeOK'
<1>1. op \in Ops
  BY DEF Accept, Seated, Arriving, Idle
<1>2. IsRequest(Seated(op, u, arg, pc))
  BY <1>1, ArrivalIsRequest
<1>3. ReqsOK
  BY DEF TypeOK, ReqsOK
<1> QED BY <1>2, <1>3, PutKeeps, ReadKeeps DEF Accept

LEMMA DropKeeps ==
  ASSUME StoreTypeOK, DropTrip, active' \in [User -> BOOLEAN]
  PROVE  StoreTypeOK'
BY DEF StoreTypeOK, DropTrip, Roles, Invite, Unminted

LEMMA TypeStep == TypeOK /\ [Next]_vars => TypeOK'
<1> SUFFICES ASSUME TypeOK, [Next]_vars PROVE TypeOK'
  OBVIOUS
<1> USE DEF TypeOK
<1>0. ReqsOK /\ StoreTypeOK
  BY DEF ReqsOK
<1>1. ASSUME NEW r \in Req, Authorize(r) PROVE TypeOK'
  <2>1. PICK u \in Members :
          \/ \E op \in ContentOps : \E arg \in Inputs(op) :
                Accept(r, Seated(op, u, arg, "writable"))
          \/ Accept(r, Seated("leave", u, None, "read"))
          \/ \E op \in OwnerOps : \E arg \in Inputs(op) :
                Accept(r, Seated(op, u, arg, "read"))
    BY <1>1 DEF Authorize
  <2>2. u \in User
    BY DEF Members
  <2>3. CASE \E op \in ContentOps : \E arg \in Inputs(op) :
                Accept(r, Seated(op, u, arg, "writable"))
    BY <2>2, <2>3, SeatedKeeps DEF Steps
  <2>4. CASE Accept(r, Seated("leave", u, None, "read"))
    <3>1. None \in Inputs("leave")
      BY InputsAre
    <3> QED BY <2>2, <2>4, <3>1, SeatedKeeps DEF Steps
  <2>5. CASE \E op \in OwnerOps : \E arg \in Inputs(op) :
                Accept(r, Seated(op, u, arg, "read"))
    BY <2>2, <2>5, SeatedKeeps DEF Steps
  <2> QED BY <2>1, <2>3, <2>4, <2>5
<1>2. ASSUME NEW r \in Req, SignIn(r) PROVE TypeOK'
  <2>1. PICK u \in User, op \in AccountOps : \E arg \in Inputs(op) :
            Accept(r, Arriving(op, u, arg, "read"))
    BY <1>2 DEF SignIn
  <2> QED BY <2>1, ArrivingKeeps DEF Steps
<1>3. ASSUME NEW r \in Req, Abort(r) PROVE TypeOK'
  BY <1>0, <1>3, AnswerKeeps, ReadKeeps DEF Abort
<1>4. ASSUME NEW r \in Req, CheckWritable(r) PROVE TypeOK'
  BY <1>0, <1>4, ProceedKeeps, ReadKeeps DEF CheckWritable, Steps
<1>5. ASSUME NEW r \in Req, CheckInsiders(r) PROVE TypeOK'
  BY <1>0, <1>5, ProceedKeeps, ReadKeeps DEF CheckInsiders, Steps
<1>6. ASSUME NEW r \in Req, GetExpense(r) PROVE TypeOK'
  BY <1>0, <1>6, ProceedKeeps, ReadKeeps DEF GetExpense, Steps
<1>7. ASSUME NEW r \in Req, CheckParties(r) PROVE TypeOK'
  BY <1>0, <1>7, ProceedKeeps, ReadKeeps DEF CheckParties, Steps
<1>8. ASSUME NEW r \in Req, GetSettlement(r) PROVE TypeOK'
  BY <1>0, <1>8, ProceedKeeps, ReadKeeps DEF GetSettlement, Steps
<1>9. ASSUME NEW r \in Req, EnsureSettled(r) PROVE TypeOK'
  BY <1>0, <1>9, ProceedKeeps, ReadKeeps DEF EnsureSettled, Steps
<1>10. ASSUME NEW r \in Req, CompareAndSwap(r) PROVE TypeOK'
  BY <1>0, <1>10, ProceedKeeps, ReadKeeps DEF CompareAndSwap, Steps
<1>11. ASSUME NEW r \in Req, DrawCode(r) PROVE TypeOK'
  BY <1>0, <1>11, ProceedKeeps, ReadKeeps DEF DrawCode, Steps
<1>12. ASSUME NEW r \in Req, FindInvite(r) PROVE TypeOK'
  BY <1>0, <1>12, ProceedKeeps, ReadKeeps DEF FindInvite, Steps
<1>13. ASSUME NEW r \in Req, CheckUses(r) PROVE TypeOK'
  BY <1>0, <1>13, ProceedKeeps, ReadKeeps DEF CheckUses, Steps
<1>14. ASSUME NEW r \in Req, OwnedWithOthers(r) PROVE TypeOK'
  BY <1>0, <1>14, ProceedKeeps, ReadKeeps DEF OwnedWithOthers, Steps
<1>15. ASSUME NEW r \in Req, ReadTrip(r) PROVE TypeOK'
  BY <1>0, <1>15, ProceedKeeps, ReadKeeps DEF ReadTrip, Steps, At
<1>16. ASSUME NEW r \in Req, CountMembers(r) PROVE TypeOK'
  <2>1. CASE Goto(r, "drop") \/ Answer(r)
    BY <2>1, <1>16, <1>0, GotoKeeps, AnswerKeeps, ReadKeeps DEF CountMembers, Steps
  <2>2. CASE Become(r, [req[r] EXCEPT !.target = req[r].row, !.pc = "expenses"])
    <3>1. IsRequest([req[r] EXCEPT !.target = req[r].row, !.pc = "expenses"])
      BY DEF IsRequest, Steps
    <3> QED BY <2>2, <3>1, <1>0, <1>16, PutKeeps, ReadKeeps DEF CountMembers
  <2> QED BY <2>1, <2>2, <1>16 DEF CountMembers
<1>17. ASSUME NEW r \in Req, FindTarget(r) PROVE TypeOK'
  <2>1. CASE Answer(r)
    BY <2>1, <1>17, <1>0, AnswerKeeps, ReadKeeps DEF FindTarget
  <2>2. CASE ~Answer(r)
    <3>1. req[r].arg \in User
      BY <1>17, InputsAre DEF FindTarget, At, IsRequest
    <3>2. row[req[r].arg] \in Nat
      BY <3>1 DEF StoreTypeOK
    <3>3. PICK pc \in Steps :
            Become(r, [req[r] EXCEPT !.target = row[req[r].arg], !.pc = pc])
      BY <2>2, <1>17 DEF FindTarget, Steps
    <3>4. IsRequest([req[r] EXCEPT !.target = row[req[r].arg], !.pc = pc])
      BY <3>2 DEF IsRequest
    <3> QED BY <3>3, <3>4, <1>0, <1>17, PutKeeps, ReadKeeps DEF FindTarget
  <2> QED BY <2>1, <2>2
<1>18. ASSUME NEW r \in Req, ReadExpenses(r) PROVE TypeOK'
  <2>1. IsRequest([req[r] EXCEPT !.read = expenses, !.pc = "settlements"])
    BY DEF IsRequest, Steps, StoreTypeOK
  <2> QED BY <2>1, <1>0, <1>18, PutKeeps, ReadKeeps DEF ReadExpenses
<1>19. ASSUME NEW r \in Req, ReadInvite(r) PROVE TypeOK'
  <2>1. CASE Answer(r)
    BY <2>1, <1>19, <1>0, AnswerKeeps, ReadKeeps DEF ReadInvite
  <2>2. CASE ~Answer(r)
    <3>1. invites[req[r].arg].uses \in Nat
      BY <1>19, InputsAre DEF ReadInvite, At, IsRequest, StoreTypeOK, Invite
    <3>2. IsRequest([req[r] EXCEPT !.uses = invites[req[r].arg].uses, !.pc = "found"])
      BY <3>1 DEF IsRequest, Steps
    <3> QED BY <2>2, <3>2, <1>0, <1>19, PutKeeps, ReadKeeps DEF ReadInvite
  <2> QED BY <2>1, <2>2
<1>20. ASSUME NEW r \in Req, OwnedTrips(r) PROVE TypeOK'
  <2>1. IsRequest([req[r] EXCEPT !.solo = (role[req[r].user] = "OWNER"),
                                 !.pc = "commit"])
    BY DEF IsRequest, Steps
  <2> QED BY <2>1, <1>0, <1>20, PutKeeps, ReadKeeps DEF OwnedTrips
<1>21. ASSUME NEW r \in Req, CreateExpense(r) PROVE TypeOK'
  <2>1. req[r].arg \in Bills
    BY <1>21, InputsAre DEF CreateExpense, At, IsRequest
  <2>2. StoreTypeOK'
    BY <2>1, <1>21, BillShares DEF CreateExpense, InsertExpense, StoreTypeOK, IsExpense
  <2> QED BY <2>2, <1>21, CommitKeeps DEF CreateExpense
<1>22. ASSUME NEW r \in Req, CreateSettlement(r) PROVE TypeOK'
  <2>1. req[r].user \in User /\ req[r].arg \in [to : User, amount : Amounts]
    BY <1>22, InputsAre DEF CreateSettlement, At, IsRequest
  <2>2. req[r].arg.to \in User /\ req[r].arg.amount \in Nat
    BY <2>1, StoreAssumption
  <2>3. StoreTypeOK'
    BY <2>1, <2>2, <1>22 DEF CreateSettlement, InsertSettlement, StoreTypeOK, Settlement
  <2> QED BY <2>3, <1>22, CommitKeeps DEF CreateSettlement
<1>23. ASSUME NEW r \in Req, DeleteExpense(r) PROVE TypeOK'
  <2>1. StoreTypeOK'
    BY <1>23 DEF DeleteExpense, StoreTypeOK
  <2> QED BY <2>1, <1>23, CommitKeeps DEF DeleteExpense
<1>24. ASSUME NEW r \in Req, DeleteSettlement(r) PROVE TypeOK'
  <2>1. StoreTypeOK'
    BY <1>24 DEF DeleteSettlement, StoreTypeOK
  <2> QED BY <2>1, <1>24, CommitKeeps DEF DeleteSettlement
<1>25. ASSUME NEW r \in Req, UpdateTrip(r) PROVE TypeOK'
  <2>1. StoreTypeOK'
    BY <1>25 DEF UpdateTrip, StoreTypeOK
  <2> QED BY <2>1, <1>25, CommitKeeps DEF UpdateTrip
<1>26. ASSUME NEW r \in Req, RemoveMember(r) PROVE TypeOK'
  <2>1. Subject(req[r]) \in User
    BY <1>26, InputsAre DEF RemoveMember, At, Subject, IsRequest
  <2>2. StoreTypeOK'
    BY <2>1, <1>26 DEF RemoveMember, RemoveRow, StoreTypeOK, Roles
  <2> QED BY <2>2, <1>26, CommitKeeps DEF RemoveMember
<1>27. ASSUME NEW r \in Req, TransferOwnership(r) PROVE TypeOK'
  <2>1. StoreTypeOK'
    BY <1>27 DEF TransferOwnership, HandOver, StoreTypeOK, Roles
  <2> QED BY <2>1, <1>27, CommitKeeps DEF TransferOwnership
<1>28. ASSUME NEW r \in Req, DeleteTrip(r) PROVE TypeOK'
  <2>1. StoreTypeOK'
    BY <1>28, DropKeeps DEF DeleteTrip, StoreTypeOK
  <2> QED BY <2>1, <1>28, CommitKeeps DEF DeleteTrip
<1>29. ASSUME NEW r \in Req, CreateInvite(r) PROVE TypeOK'
  <2>1. StoreTypeOK'
    BY <1>29 DEF CreateInvite, StoreTypeOK, Invite
  <2> QED BY <2>1, <1>29, CommitKeeps DEF CreateInvite
<1>30. ASSUME NEW r \in Req, RevokeInvite(r) PROVE TypeOK'
  <2>1. StoreTypeOK'
    BY <1>30 DEF RevokeInvite, StoreTypeOK, Invite
  <2> QED BY <2>1, <1>30, CommitKeeps DEF RevokeInvite
<1>31. ASSUME NEW r \in Req, JoinByCode(r) PROVE TypeOK'
  <2>1. StoreTypeOK'
    BY <1>31 DEF JoinByCode, InsertMember, StoreTypeOK, Invite, Roles
  <2> QED BY <2>1, <1>31, CommitKeeps DEF JoinByCode
<1>32. ASSUME NEW r \in Req, DeleteAccount(r) PROVE TypeOK'
  <2>1. active' \in [User -> BOOLEAN]
    BY <1>32 DEF DeleteAccount, CloseAccount, StoreTypeOK
  <2>2. StoreTypeOK'
    BY <2>1, <1>32, DropKeeps DEF DeleteAccount, CloseAccount, StoreTypeOK, Roles
  <2> QED BY <2>2, <1>32, CommitKeeps DEF DeleteAccount
<1>33. ASSUME NEW c \in Code, ExpireInvite(c) PROVE TypeOK'
  BY <1>33 DEF ExpireInvite, StoreTypeOK, Invite, IsRequest
<1>34. CASE UNCHANGED vars
  BY <1>34 DEF vars, store, StoreTypeOK
<1> QED
  BY <1>1, <1>2, <1>3, <1>4, <1>5, <1>6, <1>7, <1>8, <1>9, <1>10, <1>11,
     <1>12, <1>13, <1>14, <1>15, <1>16, <1>17, <1>18, <1>19, <1>20, <1>21,
     <1>22, <1>23, <1>24, <1>25, <1>26, <1>27, <1>28, <1>29, <1>30, <1>31,
     <1>32, <1>33, <1>34 DEF Next, Dependencies, ExpenseStep, MemberStep,
     TripStep, InviteStep, AccountStep

LEMMA TypeInit == Init => TypeOK
BY StoreAssumption, IdleIsRequest
   DEF Init, StoreInit, TypeOK, StoreTypeOK, Roles, Invite, Unminted

\* Every table row, and everything a request remembers, keeps its type.
THEOREM TypeCorrect == Spec => []TypeOK
BY TypeInit, TypeStep, PTL DEF Spec

-----------------------------------------------------------------------------
(***************************************************************************)
(* Three commits rely on what the step before them has checked: the ones   *)
(* in Gated get there through that check only.                             *)
(***************************************************************************)

Gated == {"transfer", "create_expense", "create_settlement"}
Through(r) == At(r, Gated, "commit")

\* No gated request reaches its commit in this step.
NobodyGetsThrough == \A q \in Req : Through(q)' => req'[q] = req[q]

LEMMA AnswerGetsNobody ==
  ASSUME ReqsOK, NEW r \in Req, Answer(r)
  PROVE  NobodyGetsThrough
BY DEF ReqsOK, Answer, Become, NobodyGetsThrough, Through, At, Gated, Idle

LEMMA PutGetsNobody ==
  ASSUME ReqsOK, NEW r \in Req, NEW q, Become(r, q),
         q.op \notin Gated \/ q.pc # "commit"
  PROVE  NobodyGetsThrough
BY DEF ReqsOK, Become, NobodyGetsThrough, Through, At

LEMMA ProceedGetsNobody ==
  ASSUME ReqsOK, NEW r \in Req, req[r].op \notin Gated, NEW pc, NEW condition,
         Proceed(r, condition, pc) \/ Goto(r, pc)
  PROVE  NobodyGetsThrough
<1>1. CASE Answer(r)
  BY <1>1, AnswerGetsNobody
<1>2. CASE Goto(r, pc)
  <2>1. [req[r] EXCEPT !.pc = pc].op \notin Gated
    BY DEF ReqsOK, IsRequest, Idle
  <2> QED BY <2>1, <1>2, PutGetsNobody DEF Goto
<1> QED BY <1>1, <1>2 DEF Proceed

LEMMA OnlyTheChecksLetThrough ==
  ASSUME TypeOK, [Next]_vars
  PROVE  NobodyGetsThrough
         \/ \E r \in Req : CompareAndSwap(r) \/ CheckInsiders(r) \/ CheckParties(r)
<1>0. ReqsOK
  BY DEF TypeOK, ReqsOK
<1>1. ASSUME NEW r \in Req, Authorize(r) PROVE NobodyGetsThrough
  <2>1. PICK op, u, arg : \/ Accept(r, Seated(op, u, arg, "writable"))
                          \/ Accept(r, Seated(op, u, arg, "read"))
    BY <1>1 DEF Authorize
  <2> QED BY <2>1, <1>0, PutGetsNobody DEF Accept, Seated, Arriving, Idle
<1>2. ASSUME NEW r \in Req, SignIn(r) PROVE NobodyGetsThrough
  <2>1. PICK op, u, arg : Accept(r, Arriving(op, u, arg, "read"))
    BY <1>2 DEF SignIn
  <2> QED BY <2>1, <1>0, PutGetsNobody DEF Accept, Arriving, Idle
<1>3. ASSUME NEW r \in Req,
             \/ Abort(r) \/ CreateExpense(r) \/ DeleteExpense(r)
             \/ CreateSettlement(r) \/ DeleteSettlement(r)
             \/ RemoveMember(r) \/ TransferOwnership(r)
             \/ UpdateTrip(r) \/ DeleteTrip(r)
             \/ CreateInvite(r) \/ RevokeInvite(r) \/ JoinByCode(r)
             \/ DeleteAccount(r)
      PROVE NobodyGetsThrough
  <2>1. Answer(r)
    BY <1>3 DEF Abort, CreateExpense, DeleteExpense, CreateSettlement,
                DeleteSettlement, RemoveMember, TransferOwnership, UpdateTrip,
                DeleteTrip, CreateInvite, RevokeInvite, JoinByCode, DeleteAccount
  <2> QED BY <2>1, <1>0, AnswerGetsNobody
<1>4. ASSUME NEW r \in Req,
             \/ GetExpense(r) \/ GetSettlement(r) \/ EnsureSettled(r)
             \/ DrawCode(r) \/ FindInvite(r) \/ CheckUses(r) \/ OwnedWithOthers(r)
      PROVE NobodyGetsThrough
  <2>1. req[r].op \notin Gated
    BY <1>4 DEF GetExpense, GetSettlement, EnsureSettled, DrawCode, FindInvite,
                CheckUses, OwnedWithOthers, At, Gated
  <2>2. PICK pc, condition : Proceed(r, condition, pc)
    BY <1>4 DEF GetExpense, GetSettlement, EnsureSettled, DrawCode, FindInvite,
                CheckUses, OwnedWithOthers
  <2> QED BY <2>1, <2>2, <1>0, ProceedGetsNobody
<1>5. ASSUME NEW r \in Req, ReadTrip(r) PROVE NobodyGetsThrough
  <2>1. req[r].op \notin Gated
    BY <1>5 DEF ReadTrip, At, Gated
  <2> QED BY <2>1, <1>5, <1>0, ProceedGetsNobody DEF ReadTrip, At, Gated
<1>6. ASSUME NEW r \in Req, CountMembers(r) PROVE NobodyGetsThrough
  <2>1. req[r].op \notin Gated
    BY <1>6 DEF CountMembers, At, Gated
  <2>2. CASE Become(r, [req[r] EXCEPT !.target = req[r].row, !.pc = "expenses"])
    <3>1. [req[r] EXCEPT !.target = req[r].row, !.pc = "expenses"].op \notin Gated
      BY <2>1, <1>0 DEF ReqsOK, IsRequest, Idle
    <3> QED BY <2>2, <3>1, <1>0, PutGetsNobody
  <2> QED BY <2>1, <2>2, <1>6, <1>0, ProceedGetsNobody, AnswerGetsNobody
          DEF CountMembers
<1>7. ASSUME NEW r \in Req, FindTarget(r) PROVE NobodyGetsThrough
  <2>1. CASE Answer(r)
    BY <2>1, <1>0, AnswerGetsNobody
  <2>2. CASE ~Answer(r)
    <3>1. PICK id, pc : /\ pc # "commit"
                        /\ Become(r, [req[r] EXCEPT !.target = id, !.pc = pc])
      BY <2>2, <1>7 DEF FindTarget
    <3>2. [req[r] EXCEPT !.target = id, !.pc = pc].pc # "commit"
      BY <3>1, <1>0 DEF ReqsOK, IsRequest, Idle
    <3> QED BY <3>1, <3>2, <1>0, PutGetsNobody
  <2> QED BY <2>1, <2>2
<1>8. ASSUME NEW r \in Req, ReadExpenses(r) PROVE NobodyGetsThrough
  <2>1. [req[r] EXCEPT !.read = expenses, !.pc = "settlements"].pc # "commit"
    BY <1>0 DEF ReqsOK, IsRequest, Idle
  <2> QED BY <2>1, <1>0, <1>8, PutGetsNobody DEF ReadExpenses
<1>9. ASSUME NEW r \in Req, ReadInvite(r) PROVE NobodyGetsThrough
  <2>1. CASE Answer(r)
    BY <2>1, <1>0, AnswerGetsNobody
  <2>2. CASE ~Answer(r)
    <3>1. PICK n : Become(r, [req[r] EXCEPT !.uses = n, !.pc = "found"])
      BY <2>2, <1>9 DEF ReadInvite
    <3>2. [req[r] EXCEPT !.uses = n, !.pc = "found"].pc # "commit"
      BY <1>0 DEF ReqsOK, IsRequest, Idle
    <3> QED BY <3>1, <3>2, <1>0, PutGetsNobody
  <2> QED BY <2>1, <2>2
<1>10. ASSUME NEW r \in Req, OwnedTrips(r) PROVE NobodyGetsThrough
  <2>1. PICK solo : Become(r, [req[r] EXCEPT !.solo = solo, !.pc = "commit"])
    BY <1>10 DEF OwnedTrips
  <2>2. [req[r] EXCEPT !.solo = solo, !.pc = "commit"].op \notin Gated
    BY <1>10, <1>0 DEF OwnedTrips, At, Gated, ReqsOK, IsRequest, Idle
  <2> QED BY <2>1, <2>2, <1>0, PutGetsNobody
<1>11. CASE UNCHANGED req
  BY <1>11 DEF NobodyGetsThrough
<1>12. ASSUME NEW r \in Req, CheckWritable(r) PROVE NobodyGetsThrough
  <2>1. CASE Answer(r)
    BY <2>1, <1>0, AnswerGetsNobody
  <2>2. CASE Goto(r, "read")
    <3>1. [req[r] EXCEPT !.pc = "read"].pc # "commit"
      BY <1>0 DEF ReqsOK, IsRequest, Idle
    <3> QED BY <2>2, <3>1, <1>0, PutGetsNobody DEF Goto
  <2> QED BY <1>12, <2>1, <2>2 DEF CheckWritable, Proceed
<1> QED
  BY <1>1, <1>2, <1>3, <1>4, <1>5, <1>6, <1>7, <1>8, <1>9, <1>10, <1>11, <1>12
     DEF Next, vars, ExpireInvite, Dependencies, ExpenseStep, MemberStep,
         TripStep, InviteStep, AccountStep

-----------------------------------------------------------------------------
(***************************************************************************)
(* Ownership.  AtMostOneOwner alone is not inductive: the commit of a      *)
(* transfer demotes its caller and promotes somebody else, which keeps the *)
(* owner unique only if the caller is still the owner.                     *)
(* TransferHoldsTheRole says so, and is itself kept up by the row lock.    *)
(***************************************************************************)
OwnerInv == TypeOK /\ AtMostOneOwner /\ TransferHoldsTheRole /\ DeletedIsEmpty

-----------------------------------------------------------------------------
(***************************************************************************)
(* Who gets to the commit of a transfer, and how.                          *)
(***************************************************************************)

\* No transfer reaches its commit in this step.
NobodyGetsThere == \A q \in Req : Committing(q)' => req'[q] = req[q]

LEMMA ThroughIsMore ==
  ASSUME NobodyGetsThrough
  PROVE  NobodyGetsThere
BY DEF NobodyGetsThrough, NobodyGetsThere, Through, Committing, At, Gated

\* A transfer gets to its commit by its compare-and-swap.
LEMMA OnlyTheSwapGetsThere ==
  ASSUME TypeOK, [Next]_vars
  PROVE  NobodyGetsThere \/ \E r \in Req : CompareAndSwap(r)
<1>1. CASE NobodyGetsThrough
  BY <1>1, ThroughIsMore
<1>2. ASSUME NEW r \in Req, CheckInsiders(r) \/ CheckParties(r)
      PROVE  NobodyGetsThere
  <2>1. req[r].op # "transfer" /\ DOMAIN req[r] = DOMAIN Idle /\ DOMAIN req = Req
    BY <1>2 DEF CheckInsiders, CheckParties, At, TypeOK, IsRequest
  <2>2. PICK q : Become(r, q) /\ q.op # "transfer"
    BY <1>2, <2>1 DEF CheckInsiders, CheckParties, Proceed, Goto, Answer, Idle
  <2> QED BY <2>1, <2>2 DEF Become, NobodyGetsThere, Committing, At
<1> QED BY <1>1, <1>2, OnlyTheChecksLetThrough

-----------------------------------------------------------------------------
(***************************************************************************)
(* Who writes trip_members.                                                *)
(***************************************************************************)

\* Everything but these five commits leaves the people and the trip's existence
\* alone.
LEMMA OnlyTheseChangeRoles ==
  ASSUME [Next]_vars
  PROVE  \/ UNCHANGED <<role, past, active>> /\ Exists' = Exists
         \/ \E r \in Req : \/ RemoveMember(r) \/ TransferOwnership(r)
                           \/ DeleteTrip(r) \/ JoinByCode(r) \/ DeleteAccount(r)
<1> DEFINE Same == UNCHANGED <<role, past, active>> /\ Exists' = Exists
<1>1. ASSUME NEW r \in Req, Dependencies(r) PROVE Same
  BY <1>1 DEF Dependencies, Authorize, SignIn, Accept, CheckWritable, Abort,
              store, Exists
<1>2. ASSUME NEW r \in Req, ExpenseStep(r) PROVE Same
  BY <1>2 DEF ExpenseStep, CheckInsiders, CreateExpense, InsertExpense, GetExpense,
              DeleteExpense, CheckParties, CreateSettlement, InsertSettlement,
              GetSettlement, DeleteSettlement, store, Exists
<1>3. ASSUME NEW r \in Req,
             \/ CountMembers(r) \/ FindTarget(r) \/ ReadExpenses(r)
             \/ EnsureSettled(r) \/ CompareAndSwap(r)
      PROVE Same
  BY <1>3 DEF CountMembers, FindTarget, ReadExpenses, EnsureSettled,
              CompareAndSwap, store, Exists
<1>4. ASSUME NEW r \in Req, ReadTrip(r) \/ UpdateTrip(r) PROVE Same
  BY <1>4 DEF ReadTrip, UpdateTrip, store, Exists
<1>5. ASSUME NEW r \in Req,
             \/ DrawCode(r) \/ CreateInvite(r) \/ FindInvite(r)
             \/ RevokeInvite(r) \/ ReadInvite(r) \/ CheckUses(r)
             \/ OwnedWithOthers(r) \/ OwnedTrips(r)
      PROVE Same
  BY <1>5 DEF DrawCode, CreateInvite, FindInvite, RevokeInvite, ReadInvite,
              CheckUses, OwnedWithOthers, OwnedTrips, store, Exists
<1>6. ASSUME NEW c \in Code, ExpireInvite(c) PROVE Same
  BY <1>6 DEF ExpireInvite, Exists
<1>7. CASE UNCHANGED vars
  BY <1>7 DEF vars, store, Exists
<1> QED BY <1>1, <1>2, <1>3, <1>4, <1>5, <1>6, <1>7
        DEF Next, MemberStep, TripStep, InviteStep, AccountStep

\* What a commit does to the memberships, without the request it belongs to.
Vanish    == trip' = "deleted" /\ role' = [v \in User |-> "NONE"]
Leaves(u) == Exists' = Exists /\ role' = [role EXCEPT ![u] = "NONE"]
Joins(u)  == /\ Exists /\ Exists' /\ role[u] = "NONE"
             /\ role' = [role EXCEPT ![u] = "MEMBER"]

LEMMA RemoveMemberIs ==
  ASSUME TypeOK, NEW r \in Req, RemoveMember(r)
  PROVE  \/ role' = role /\ Exists' = Exists
         \/ \E u \in User : Leaves(u) /\ ~Locked(u) /\ role[u] # "NONE"
<1>1. Subject(req[r]) \in User
  BY InputsAre DEF RemoveMember, At, Subject, TypeOK, IsRequest
<1> QED BY <1>1 DEF RemoveMember, RemoveRow, Leaves, LiveRow, Exists

LEMMA DeleteAccountIs ==
  ASSUME TypeOK, NEW r \in Req, DeleteAccount(r)
  PROVE  \/ Vanish /\ Exists /\ \A v \in User : ~Locked(v)
         \/ \E u \in User : Leaves(u) /\ ~Locked(u)
<1>1. req[r].user \in User
  BY DEF TypeOK, IsRequest
<1>2. req[r].solo \in BOOLEAN
  BY DEF TypeOK, IsRequest
<1> QED BY <1>1, <1>2 DEF DeleteAccount, CloseAccount, DropTrip, Vanish, Leaves, Exists

-----------------------------------------------------------------------------
(***************************************************************************)
(* The inductive invariant.                                                *)
(***************************************************************************)
LEMMA OwnerInit == Init => OwnerInv
<1> SUFFICES ASSUME Init PROVE OwnerInv
  OBVIOUS
<1>1. TypeOK
  BY TypeInit
<1>2. Owners = {Founder}
  BY StoreAssumption DEF Init, StoreInit, Owners
<1>3. \A r \in Req : ~Committing(r)
  BY DEF Init, Committing, At, Idle
<1> QED BY <1>1, <1>2, <1>3
        DEF OwnerInv, AtMostOneOwner, TransferHoldsTheRole, DeletedIsEmpty,
            Init, StoreInit, Exists

LEMMA OwnerStep == OwnerInv /\ [Next]_vars => OwnerInv'
<1> SUFFICES ASSUME OwnerInv, [Next]_vars PROVE OwnerInv'
  OBVIOUS
<1>1. TypeOK /\ TypeOK'
  BY TypeStep DEF OwnerInv
<1>2. role \in [User -> Roles] /\ \A r \in Req : req[r].user \in User
  BY <1>1 DEF TypeOK, StoreTypeOK, IsRequest
<1> USE DEF AtMostOneOwner, TransferHoldsTheRole, DeletedIsEmpty, Owners, Members
<1>3. ASSUME NEW r \in Req, CompareAndSwap(r) PROVE OwnerInv'
  <2>1. role' = role /\ Exists' = Exists
    BY <1>3 DEF CompareAndSwap, store, Exists
  <2>2. \A q \in Req \ {r} : req'[q] = req[q]
    BY <1>1, <1>3 DEF CompareAndSwap, Proceed, Goto, Answer, Become, TypeOK
  <2>3. CASE StillOwner(req[r])
    <3>1. \A q \in Req : ~Committing(q)
      BY <1>2, <1>3, <2>3 DEF OwnerInv, CompareAndSwap, StillOwner, Locked, Committing
    <3>2. req'[r] = [req[r] EXCEPT !.pc = "commit"]
      BY <1>1, <1>3, <2>3 DEF CompareAndSwap, Proceed, Goto, Become, TypeOK
    <3>3. req'[r].user = req[r].user
      BY <1>1, <3>2 DEF TypeOK, IsRequest, Idle
    <3>4. role[req[r].user] = "OWNER"
      BY <2>3 DEF StillOwner
    <3>5. \A q \in Req : Committing(q)' => q = r
      BY <2>2, <3>1 DEF Committing, At
    <3> QED BY <1>1, <2>1, <3>3, <3>4, <3>5 DEF OwnerInv
  <2>4. CASE ~StillOwner(req[r])
    <3>1. NobodyGetsThere
      BY <1>1, <1>3, <2>4, AnswerGetsNobody, ThroughIsMore
         DEF CompareAndSwap, Proceed, TypeOK, ReqsOK
    <3> QED BY <1>1, <2>1, <3>1 DEF OwnerInv, NobodyGetsThere, Committing, At
  <2> QED BY <2>3, <2>4
<1>4. CASE NobodyGetsThere
  <2>1. \A q \in Req : Committing(q)' => Committing(q) /\ req'[q] = req[q]
    BY <1>4 DEF NobodyGetsThere, Committing, At
  <2>2. CASE role' = role /\ Exists' = Exists
    BY <1>1, <2>1, <2>2 DEF OwnerInv
  <2>3. ASSUME Vanish, \A v \in User : ~Locked(v) PROVE OwnerInv'
    <3>1. \A q \in Req : ~Committing(q)
      BY <1>2, <2>3 DEF Locked, Committing
    <3> QED BY <1>1, <2>1, <2>3, <3>1 DEF OwnerInv, Vanish, Exists
  <2>4. ASSUME NEW u \in User, Leaves(u), ~Locked(u) PROVE OwnerInv'
    <3>1. \A q \in Req : Committing(q) => req[q].user # u
      BY <2>4 DEF Locked, Committing
    <3> QED BY <1>1, <1>2, <2>1, <2>4, <3>1 DEF OwnerInv, Leaves
  <2>5. ASSUME NEW r \in Req, RemoveMember(r) PROVE OwnerInv'
    BY <1>1, <2>2, <2>4, <2>5, RemoveMemberIs
  <2>6. ASSUME NEW r \in Req, DeleteAccount(r) PROVE OwnerInv'
    BY <1>1, <2>3, <2>4, <2>6, DeleteAccountIs
  <2>7. ASSUME NEW r \in Req, DeleteTrip(r) PROVE OwnerInv'
    BY <2>3, <2>7 DEF DeleteTrip, DropTrip, Vanish
  <2>8. ASSUME NEW r \in Req, JoinByCode(r) PROVE OwnerInv'
    <3>1. req[r].user \in User
      BY <1>2
    <3>2. (role' = role /\ Exists' = Exists) \/ Joins(req[r].user)
      BY <2>8 DEF JoinByCode, InsertMember, Joins, Exists
    <3> QED BY <1>1, <1>2, <2>1, <2>2, <3>1, <3>2 DEF OwnerInv, Joins
  <2>9. ASSUME NEW r \in Req, TransferOwnership(r) PROVE OwnerInv'
    <3> DEFINE u == req[r].user
    <3>1. Committing(r) /\ role[u] = "OWNER" /\ Exists /\ Exists'
      BY <1>2, <2>9 DEF TransferOwnership, HandOver, Committing, Exists, OwnerInv
    <3>2. \A q \in Req : ~Committing(q)'
      <4>1. ~Committing(r)'
        BY <1>1, <2>9 DEF TransferOwnership, Answer, Become, Committing, At, Idle, TypeOK
      <4> QED BY <2>1, <3>1, <4>1 DEF OwnerInv
    <3>3. \A v, w \in User : role'[v] = "OWNER" /\ role'[w] = "OWNER" => v = w
      BY <1>2, <2>9, <3>1 DEF TransferOwnership, HandOver, OwnerInv
    <3> QED BY <1>1, <3>1, <3>2, <3>3 DEF OwnerInv
  <2> QED BY <2>2, <2>5, <2>6, <2>7, <2>8, <2>9, OnlyTheseChangeRoles
<1> QED BY <1>1, <1>3, <1>4, OnlyTheSwapGetsThere

\* However requests interleave, a trip never has two OWNER rows; the unique index
\* behind transfer_ownership is never what prevents it.
THEOREM OneOwnerAtMost == Spec => []AtMostOneOwner
<1>1. OwnerInv => AtMostOneOwner
  BY DEF OwnerInv
<1> QED BY <1>1, OwnerInit, OwnerStep, PTL DEF Spec

\* Between its compare-and-swap and its commit a transfer is alone and its caller
\* is the owner.
THEOREM TransferIsExclusive == Spec => []TransferHoldsTheRole
<1>1. OwnerInv => TransferHoldsTheRole
  BY DEF OwnerInv
<1> QED BY <1>1, OwnerInit, OwnerStep, PTL DEF Spec

\* A deleted trip has no members left, and nothing a request under way does gives it
\* one: a join that was admitted before the deletion finds no trip to join.
THEOREM DeletedTripsAreEmpty == Spec => []DeletedIsEmpty
<1>1. OwnerInv => DeletedIsEmpty
  BY DEF OwnerInv
<1> QED BY <1>1, OwnerInit, OwnerStep, PTL DEF Spec

-----------------------------------------------------------------------------
(***************************************************************************)
(* TripRequests implements TripOwnership.  The mapping reads the abstract  *)
(* owner and members off the role column.                                  *)
(***************************************************************************)
LEMMA OwnershipInit == Init => Ownership!Init
<1> SUFFICES ASSUME Init PROVE Ownership!Init
  OBVIOUS
<1>1. Exists /\ Owners = {Founder}
  BY StoreAssumption DEF Init, StoreInit, Owners, Exists
<1>2. Members = Companion \cup {Founder}
  BY StoreAssumption DEF Init, StoreInit, Members
<1> QED BY <1>1, <1>2 DEF Ownership!Init, Exists

\* Losing one's row is a departure, or a lapse when the row was the owner's.
LEMMA LeavesIsAllowed ==
  ASSUME OwnerInv, NEW u \in User, Leaves(u)
  PROVE  [Ownership!Next]_(Ownership!ownership)
<1>1. role \in [User -> Roles]
  BY DEF OwnerInv, TypeOK, StoreTypeOK
<1>2. Members' = Members \ {u} /\ Owners' = Owners \ {u} /\ Exists' = Exists
  BY <1>1 DEF Leaves, Members, Owners
<1>3. CASE u \in Owners
  <2>1. Owners = {u}
    BY <1>3 DEF OwnerInv, AtMostOneOwner
  <2>2. Ownership!Lapse(u)
    BY <1>2, <2>1 DEF Ownership!Lapse
  <2> QED BY <2>2 DEF Ownership!Next
<1>4. CASE u \in Members \ Owners
  <2>1. Ownership!Depart(u)
    BY <1>2, <1>4 DEF Ownership!Depart
  <2> QED BY <2>1 DEF Ownership!Next
<1>5. CASE u \notin Members
  <2>1. u \notin Owners
    BY <1>5 DEF Members, Owners
  <2>2. Members' = Members /\ Owners' = Owners
    BY <1>2, <1>5, <2>1
  <2> QED BY <1>2, <2>2 DEF Ownership!ownership
<1> QED BY <1>3, <1>4, <1>5 DEF Owners, Members

LEMMA VanishIsAllowed ==
  ASSUME OwnerInv, Vanish
  PROVE  [Ownership!Next]_(Ownership!ownership)
<1>1. Members' = {} /\ Owners' = {} /\ Exists' = FALSE
  BY DEF Vanish, Members, Owners, Exists
<1>2. CASE Exists
  <2>1. Ownership!End
    BY <1>1, <1>2 DEF Ownership!End
  <2> QED BY <2>1 DEF Ownership!Next
<1>3. CASE ~Exists
  <2>1. Members = {} /\ Owners = {}
    BY <1>3 DEF OwnerInv, DeletedIsEmpty, Members, Owners
  <2> QED BY <1>1, <1>3, <2>1 DEF Ownership!ownership, Exists
<1> QED BY <1>2, <1>3

LEMMA JoinsIsAllowed ==
  ASSUME OwnerInv, NEW u \in User, Joins(u)
  PROVE  [Ownership!Next]_(Ownership!ownership)
<1>1. role \in [User -> Roles]
  BY DEF OwnerInv, TypeOK, StoreTypeOK
<1>2. Members' = Members \cup {u} /\ Owners' = Owners /\ u \notin Members
  BY <1>1 DEF Joins, Members, Owners
<1>3. Ownership!Arrive(u)
  BY <1>2 DEF Joins, Ownership!Arrive, Exists
<1> QED BY <1>3 DEF Ownership!Next

\* The commit of a transfer hands over, or lapses when the heir's row is gone.
LEMMA TransferIsAllowed ==
  ASSUME OwnerInv, NEW r \in Req, TransferOwnership(r)
  PROVE  [Ownership!Next]_(Ownership!ownership)
<1> DEFINE u == req[r].user
           v == req[r].arg
           there == LiveRow(v, req[r].target)
<1>1. role \in [User -> Roles] /\ u \in User /\ v \in User
  BY InputsAre DEF OwnerInv, TypeOK, StoreTypeOK, IsRequest, TransferOwnership, At
<1>2. Committing(r) /\ role[u] = "OWNER"
  BY DEF OwnerInv, TransferHoldsTheRole, TransferOwnership, Committing
<1>3. Owners = {u}
  BY <1>1, <1>2 DEF OwnerInv, AtMostOneOwner, Owners
<1>4. role' = [w \in User |-> IF w = v /\ there THEN "OWNER"
                              ELSE IF w = u THEN "MEMBER" ELSE role[w]]
  BY DEF TransferOwnership, HandOver
<1>5. Exists' = Exists
  BY DEF TransferOwnership, HandOver, Exists
<1>6. there => v \in Members
  BY <1>1 DEF LiveRow, Members
<1>7. Members' = Members
  BY <1>1, <1>2, <1>4, <1>6 DEF Members
<1>8. \A w \in User \ {u} : role[w] # "OWNER"
  BY <1>3 DEF Owners
<1>9. CASE there /\ v # u
  <2>1. Owners' = {v}
    BY <1>1, <1>4, <1>8, <1>9 DEF Owners
  <2>2. Ownership!Hand(u, v)
    BY <1>3, <1>5, <1>6, <1>7, <1>9, <2>1 DEF Ownership!Hand
  <2> QED BY <1>1, <2>2 DEF Ownership!Next
<1>10. CASE there /\ v = u
  <2>1. Owners' = Owners
    BY <1>1, <1>3, <1>4, <1>8, <1>10 DEF Owners
  <2> QED BY <1>5, <1>7, <2>1 DEF Ownership!ownership
<1>11. CASE ~there
  <2>1. Owners' = {}
    BY <1>1, <1>4, <1>8, <1>11 DEF Owners
  <2>2. Ownership!Lapse(u)
    BY <1>3, <1>5, <1>7, <2>1 DEF Ownership!Lapse
  <2> QED BY <1>1, <2>2 DEF Ownership!Next
<1> QED BY <1>9, <1>10, <1>11

\* Every step is one of TripOwnership, or a stutter of it.
LEMMA OwnershipStep ==
  OwnerInv /\ [Next]_vars => [Ownership!Next]_(Ownership!ownership)
<1> SUFFICES ASSUME OwnerInv, [Next]_vars
             PROVE  [Ownership!Next]_(Ownership!ownership)
  OBVIOUS
<1>1. TypeOK
  BY DEF OwnerInv
<1>2. CASE role' = role /\ Exists' = Exists
  BY <1>2 DEF Ownership!ownership, Owners, Members
<1>3. ASSUME NEW r \in Req, RemoveMember(r)
      PROVE  [Ownership!Next]_(Ownership!ownership)
  BY <1>1, <1>2, <1>3, RemoveMemberIs, LeavesIsAllowed
<1>4. ASSUME NEW r \in Req, TransferOwnership(r)
      PROVE  [Ownership!Next]_(Ownership!ownership)
  BY <1>4, TransferIsAllowed
<1>5. ASSUME NEW r \in Req, DeleteTrip(r)
      PROVE  [Ownership!Next]_(Ownership!ownership)
  BY <1>5, VanishIsAllowed DEF DeleteTrip, DropTrip, Vanish
<1>6. ASSUME NEW r \in Req, JoinByCode(r)
      PROVE  [Ownership!Next]_(Ownership!ownership)
  <2>1. req[r].user \in User
    BY <1>1 DEF TypeOK, IsRequest
  <2>2. (role' = role /\ Exists' = Exists) \/ Joins(req[r].user)
    BY <1>6 DEF JoinByCode, InsertMember, Joins, Exists
  <2> QED BY <1>2, <2>1, <2>2, JoinsIsAllowed
<1>7. ASSUME NEW r \in Req, DeleteAccount(r)
      PROVE  [Ownership!Next]_(Ownership!ownership)
  BY <1>1, <1>7, DeleteAccountIs, VanishIsAllowed, LeavesIsAllowed
<1> QED BY <1>2, <1>3, <1>4, <1>5, <1>6, <1>7, OnlyTheseChangeRoles

\* The memberships' handlers implement TripOwnership: the role only moves from the
\* sitting owner to a current member, nobody else acquires it, and a role that has
\* lapsed is never taken up again.
THEOREM RoleIsHandedOver == Spec => OwnershipIsHandedOver
BY OwnerInit, OwnerStep, OwnershipInit, OwnershipStep, PTL
   DEF Spec, OwnershipIsHandedOver, Ownership!Spec

-----------------------------------------------------------------------------
(***************************************************************************)
(* The people named in the ledger.  NobodyIsForgotten is not inductive: an *)
(* entry about to be committed names people its request has checked        *)
(* earlier.  LedgerInv adds them, and the argument is that the people the  *)
(* trip knows of only grow while it exists.                                *)
(***************************************************************************)
\* Everybody the trip knows of.
Known == Members \cup past \cup {u \in User : ~active[u]}

\* Whom a request is about to record money of.
NamedBy(q) ==
  IF q.op = "create_expense" THEN {q.arg.paid_by} \cup DOMAIN SharesFor(q.arg)
  ELSE {q.user, q.arg.to}

ExpenseNames(e) == {e.paid_by} \cup DOMAIN e.shares
SettlementNames(s) == {s.from, s.to}
LedgerIsKnown ==
  /\ \A e \in expenses : ExpenseNames(e) \subseteq Known
  /\ \A s \in settlements : SettlementNames(s) \subseteq Known

Recording(r) == At(r, Creations, "commit")

\* Whatever names people, in the ledger or on its way there, names known ones.
LedgerInv ==
  /\ TypeOK
  /\ Exists => LedgerIsKnown /\ \A r \in Req : Recording(r) => NamedBy(req[r]) \subseteq Known
  /\ ~Exists => expenses = {} /\ settlements = {}

-----------------------------------------------------------------------------
(***************************************************************************)
(* Who is known stays known.                                               *)
(***************************************************************************)
LEMMA KnownGrows ==
  ASSUME TypeOK, [Next]_vars, Exists'
  PROVE  Exists /\ Known \subseteq Known'
<1>1. role \in [User -> Roles] /\ active \in [User -> BOOLEAN]
  BY DEF TypeOK, StoreTypeOK
<1>2. CASE UNCHANGED <<role, past, active>> /\ Exists' = Exists
  BY <1>2 DEF Known, Members
<1>3. ASSUME NEW r \in Req, RemoveMember(r) PROVE Exists /\ Known \subseteq Known'
  BY <1>1, <1>3 DEF RemoveMember, RemoveRow, LiveRow, Exists, Known, Members
<1>4. ASSUME NEW r \in Req, TransferOwnership(r) PROVE Exists /\ Known \subseteq Known'
  BY <1>1, <1>4 DEF TransferOwnership, HandOver, LiveRow, Exists, Known, Members
<1>5. ASSUME NEW r \in Req, DeleteTrip(r) PROVE FALSE
  BY <1>5 DEF DeleteTrip, DropTrip, Exists
<1>6. ASSUME NEW r \in Req, JoinByCode(r) PROVE Exists /\ Known \subseteq Known'
  <2>1. req[r].user \in User
    BY DEF TypeOK, IsRequest
  <2> QED BY <1>1, <1>6, <2>1 DEF JoinByCode, InsertMember, Exists, Known, Members
<1>7. ASSUME NEW r \in Req, DeleteAccount(r) PROVE Exists /\ Known \subseteq Known'
  BY <1>1, <1>7 DEF DeleteAccount, CloseAccount, DropTrip, Exists, Known, Members
<1> QED BY <1>2, <1>3, <1>4, <1>5, <1>6, <1>7, OnlyTheseChangeRoles

-----------------------------------------------------------------------------
(***************************************************************************)
(* An entry is checked against the members before it is committed.         *)
(***************************************************************************)
\* What the checks of module expense_service establish.
Checked(q) == /\ NamedBy(q) \subseteq Members
              /\ q.op = "create_settlement" => q.user # q.arg.to

\* Only the checks bring an entry to its commit.
LEMMA RecordingIsChecked ==
  ASSUME TypeOK, [Next]_vars, NEW q \in Req, Recording(q)'
  PROVE  \/ req'[q] = req[q]
         \/ Checked(req'[q]) /\ UNCHANGED store
<1>0. DOMAIN req = Req /\ \A r \in Req : DOMAIN req[r] = DOMAIN Idle
  BY DEF TypeOK, IsRequest
<1>1. CASE NobodyGetsThrough
  BY <1>1 DEF NobodyGetsThrough, Through, Recording, At, Gated, Creations
<1>2. ASSUME NEW r \in Req, CompareAndSwap(r) PROVE req'[q] = req[q]
  <2>1. CASE r # q
    BY <1>0, <1>2, <2>1 DEF CompareAndSwap, Proceed, Goto, Answer, Become
  <2>2. CASE r = q
    <3>1. req'[q].op \in {"transfer", "idle"}
      BY <1>0, <1>2, <2>2 DEF CompareAndSwap, At, Proceed, Goto, Answer, Become, Idle
    <3> QED BY <3>1 DEF Recording, At, Creations
  <2> QED BY <2>1, <2>2
<1>3. ASSUME NEW r \in Req, CheckInsiders(r)
      PROVE  \/ req'[q] = req[q]
             \/ Checked(req'[q]) /\ UNCHANGED store
  <2>1. CASE r # q
    BY <1>0, <1>3, <2>1 DEF CheckInsiders, Proceed, Goto, Answer, Become
  <2>2. CASE r = q
    <3>1. Goto(q, "commit")
      BY <1>0, <1>3, <2>2 DEF CheckInsiders, Proceed, Answer, Become, Recording, At, Idle
    <3>2. req'[q].op = req[q].op /\ req'[q].arg = req[q].arg
      BY <1>0, <3>1 DEF Goto, Become, Idle
    <3>3. req[q].op = "create_expense" /\ UNCHANGED store
      BY <1>3, <2>2 DEF CheckInsiders, At
    <3>4. {req[q].arg.paid_by} \cup DOMAIN SharesFor(req[q].arg) \subseteq Members
      <4>1. req'[q] # Idle
        BY DEF Recording, At, Idle
      <4> QED BY <1>0, <1>3, <2>2, <4>1 DEF CheckInsiders, Proceed, Answer, Become
    <3> QED BY <3>2, <3>3, <3>4 DEF NamedBy, Checked
  <2> QED BY <2>1, <2>2
<1>4. ASSUME NEW r \in Req, CheckParties(r)
      PROVE  \/ req'[q] = req[q]
             \/ Checked(req'[q]) /\ UNCHANGED store
  <2>1. CASE r # q
    BY <1>0, <1>4, <2>1 DEF CheckParties, Proceed, Goto, Answer, Become
  <2>2. CASE r = q
    <3>1. req'[q] # Idle
      BY DEF Recording, At, Idle
    <3>2. /\ Goto(q, "commit") /\ req[q].user # req[q].arg.to
          /\ {req[q].user, req[q].arg.to} \subseteq Members
      BY <1>0, <1>4, <2>2, <3>1 DEF CheckParties, Proceed, Answer, Become
    <3>3. /\ req'[q].op = req[q].op /\ req'[q].arg = req[q].arg
          /\ req'[q].user = req[q].user
      BY <1>0, <3>2 DEF Goto, Become, Idle
    <3>4. req[q].op = "create_settlement" /\ UNCHANGED store
      BY <1>4, <2>2 DEF CheckParties, At
    <3> QED BY <3>2, <3>3, <3>4 DEF NamedBy, Checked
  <2> QED BY <2>1, <2>2
<1> QED BY <1>1, <1>2, <1>3, <1>4, OnlyTheChecksLetThrough

-----------------------------------------------------------------------------
(***************************************************************************)
(* Who writes the ledger.                                                  *)
(***************************************************************************)
Shrinks == expenses' \subseteq expenses /\ settlements' \subseteq settlements

\* Nothing enters the ledger but what the two creations commit.
LEMMA OnlyCreationsAdd ==
  ASSUME [Next]_vars
  PROVE  Shrinks \/ \E r \in Req : CreateExpense(r) \/ CreateSettlement(r)
<1>1. ASSUME NEW r \in Req, Dependencies(r) PROVE Shrinks
  BY <1>1 DEF Dependencies, Authorize, SignIn, Accept, CheckWritable, Abort, store,
              Shrinks
<1>2. ASSUME NEW r \in Req,
             \/ CheckInsiders(r) \/ GetExpense(r) \/ DeleteExpense(r) \/ CheckParties(r)
             \/ GetSettlement(r) \/ DeleteSettlement(r)
      PROVE Shrinks
  BY <1>2 DEF CheckInsiders, GetExpense, DeleteExpense, CheckParties, GetSettlement,
              DeleteSettlement, store, Shrinks
<1>3. ASSUME NEW r \in Req, MemberStep(r) PROVE Shrinks
  BY <1>3 DEF MemberStep, CountMembers, FindTarget, ReadExpenses, EnsureSettled,
              RemoveMember, RemoveRow, CompareAndSwap, TransferOwnership, HandOver,
              store, Shrinks
<1>4. ASSUME NEW r \in Req, TripStep(r) PROVE Shrinks
  BY <1>4 DEF TripStep, ReadTrip, UpdateTrip, DeleteTrip, DropTrip, store, Shrinks
<1>5. ASSUME NEW r \in Req, InviteStep(r) PROVE Shrinks
  BY <1>5 DEF InviteStep, DrawCode, CreateInvite, FindInvite, RevokeInvite, ReadInvite,
              CheckUses, JoinByCode, InsertMember, store, Shrinks
<1>6. ASSUME NEW r \in Req, AccountStep(r) PROVE Shrinks
  BY <1>6 DEF AccountStep, OwnedWithOthers, OwnedTrips, DeleteAccount, CloseAccount,
              DropTrip, store, Shrinks
<1>7. ASSUME NEW c \in Code, ExpireInvite(c) PROVE Shrinks
  BY <1>7 DEF ExpireInvite, Shrinks
<1>8. CASE UNCHANGED vars
  BY <1>8 DEF vars, store, Shrinks
<1> QED BY <1>1, <1>2, <1>3, <1>4, <1>5, <1>6, <1>7, <1>8 DEF Next, ExpenseStep

\* Nothing enters the ledger but what CreateExpense and CreateSettlement commit into
\* a trip that exists.
LEMMA LedgerWrites ==
  ASSUME [Next]_vars
  PROVE  \/ Shrinks
         \/ \E r \in Req :
              /\ Recording(r) /\ Answer(r) /\ Exists /\ Exists'
              /\ \A e \in expenses' : e \in expenses \/ ExpenseNames(e) = NamedBy(req[r])
              /\ \A s \in settlements' :
                    s \in settlements \/ SettlementNames(s) = NamedBy(req[r])
<1>1. ASSUME NEW r \in Req, CreateExpense(r) PROVE
        \/ Shrinks
        \/ /\ Recording(r) /\ Answer(r) /\ Exists /\ Exists'
           /\ \A e \in expenses' : e \in expenses \/ ExpenseNames(e) = NamedBy(req[r])
           /\ \A s \in settlements' : s \in settlements
  BY <1>1 DEF CreateExpense, InsertExpense, At, Recording, Creations, Exists, Shrinks,
              ExpenseNames, NamedBy
<1>2. ASSUME NEW r \in Req, CreateSettlement(r) PROVE
        \/ Shrinks
        \/ /\ Recording(r) /\ Answer(r) /\ Exists /\ Exists'
           /\ \A e \in expenses' : e \in expenses
           /\ \A s \in settlements' :
                 s \in settlements \/ SettlementNames(s) = NamedBy(req[r])
  BY <1>2 DEF CreateSettlement, InsertSettlement, At, Recording, Creations, Exists,
              Shrinks, SettlementNames, NamedBy
<1> QED BY <1>1, <1>2, OnlyCreationsAdd

\* The trip's deletion takes the ledger with it.
LEMMA DeletionEmpties ==
  ASSUME [Next]_vars, Exists, ~Exists'
  PROVE  expenses' = {} /\ settlements' = {}
<1>1. ASSUME NEW r \in Req,
             RemoveMember(r) \/ TransferOwnership(r) \/ JoinByCode(r)
      PROVE FALSE
  BY <1>1 DEF RemoveMember, RemoveRow, TransferOwnership, HandOver, JoinByCode,
              InsertMember, store, Exists
<1>2. ASSUME NEW r \in Req, DeleteTrip(r) \/ DeleteAccount(r)
      PROVE expenses' = {} /\ settlements' = {}
  BY <1>2 DEF DeleteTrip, DeleteAccount, CloseAccount, DropTrip, Exists
<1> QED BY <1>1, <1>2, OnlyTheseChangeRoles

-----------------------------------------------------------------------------
(***************************************************************************)
(* The inductive invariant.                                                *)
(***************************************************************************)
LEMMA LedgerInit == Init => LedgerInv
<1> SUFFICES ASSUME Init PROVE LedgerInv
  OBVIOUS
<1>1. expenses = {} /\ settlements = {} /\ \A r \in Req : ~Recording(r)
  BY DEF Init, StoreInit, Recording, At, Idle, Creations
<1> QED BY <1>1, TypeInit DEF LedgerInv, LedgerIsKnown

LEMMA LedgerStep == LedgerInv /\ [Next]_vars => LedgerInv'
<1> SUFFICES ASSUME LedgerInv, [Next]_vars PROVE LedgerInv'
  OBVIOUS
<1>1. TypeOK /\ TypeOK'
  BY TypeStep DEF LedgerInv
<1>2. CASE Exists'
  <2>1. Exists /\ Known \subseteq Known'
    BY <1>1, <1>2, KnownGrows
  <2>2. LedgerIsKnown /\ \A r \in Req : Recording(r) => NamedBy(req[r]) \subseteq Known
    BY <2>1 DEF LedgerInv
  <2>3. \A r \in Req : Recording(r)' => NamedBy(req'[r]) \subseteq Known'
    <3> SUFFICES ASSUME NEW r \in Req, Recording(r)'
                 PROVE  NamedBy(req'[r]) \subseteq Known'
      OBVIOUS
    <3>1. CASE req'[r] = req[r]
      BY <2>1, <2>2, <3>1 DEF Recording, At
    <3>2. CASE Checked(req'[r])
      BY <2>1, <3>2 DEF Known, Checked
    <3> QED BY <1>1, <3>1, <3>2, RecordingIsChecked
  <2>4. LedgerIsKnown'
    <3>1. CASE Shrinks
      BY <2>1, <2>2, <3>1 DEF Shrinks, LedgerIsKnown
    <3>2. ASSUME NEW r \in Req, Recording(r),
                 \A e \in expenses' : e \in expenses \/ ExpenseNames(e) = NamedBy(req[r]),
                 \A s \in settlements' :
                   s \in settlements \/ SettlementNames(s) = NamedBy(req[r])
          PROVE  LedgerIsKnown'
      BY <2>1, <2>2, <3>2 DEF LedgerIsKnown
    <3> QED BY <3>1, <3>2, LedgerWrites
  <2> QED BY <1>1, <1>2, <2>3, <2>4 DEF LedgerInv
<1>3. CASE ~Exists'
  <2>1. CASE Exists
    BY <1>1, <1>3, <2>1, DeletionEmpties DEF LedgerInv
  <2>2. CASE ~Exists
    BY <1>1, <1>3, <2>2, LedgerWrites DEF LedgerInv, Shrinks
  <2> QED BY <2>1, <2>2
<1> QED BY <1>2, <1>3

LEMMA KnownMeansNotForgotten == LedgerInv => NobodyIsForgotten
<1> SUFFICES ASSUME LedgerInv, NEW u \in Involved(expenses, settlements)
             PROVE  u \in Members \cup past \/ ~active[u]
  BY DEF NobodyIsForgotten
<1>1. \/ \E e \in expenses : u \in ExpenseNames(e)
      \/ \E s \in settlements : u \in SettlementNames(s)
  BY DEF Involved, ExpenseNames, SettlementNames
<1>2. Exists /\ LedgerIsKnown
  BY <1>1 DEF LedgerInv
<1> QED BY <1>1, <1>2 DEF LedgerIsKnown, Known

\* However people come and go while money is recorded, everybody the ledger names
\* is a member, a former member or a closed account.
THEOREM LedgerForgetsNobody == Spec => []NobodyIsForgotten
BY LedgerInit, LedgerStep, KnownMeansNotForgotten, PTL DEF Spec

\* No join, departure, removal, transfer or account closure touches the ledger,
\* unless the trip goes with it.
THEOREM LedgerIsNotTheirs == Spec => LedgerOutlivesMembers
<1> DEFINE Kept == <<role, past, active>>' # <<role, past, active>> /\ trip' # "deleted"
                     => UNCHANGED <<expenses, settlements>>
<1>1. [Next]_vars => [Kept]_store
  <2> SUFFICES ASSUME [Next]_vars PROVE Kept
    OBVIOUS
  <2>1. CASE UNCHANGED <<role, past, active>>
    BY <2>1
  <2>2. ASSUME NEW r \in Req, RemoveMember(r) \/ TransferOwnership(r) \/ JoinByCode(r)
        PROVE Kept
    BY <2>2 DEF RemoveMember, RemoveRow, TransferOwnership, HandOver, JoinByCode,
                InsertMember, store
  <2>3. ASSUME NEW r \in Req, DeleteTrip(r) \/ DeleteAccount(r) PROVE Kept
    BY <2>3 DEF DeleteTrip, DeleteAccount, CloseAccount, DropTrip
  <2> QED BY <2>1, <2>2, <2>3, OnlyTheseChangeRoles
<1> QED BY <1>1, PTL DEF Spec, LedgerOutlivesMembers

-----------------------------------------------------------------------------
(***************************************************************************)
(* Every use of a code is somebody's arrival.  The counter is raised in    *)
(* the statement that inserts the row, so that the two sums move together, *)
(* whoever reads an older count in between.                                *)
(***************************************************************************)
LEMMA RowsAre == RowsInserted = SumOver(row, User) - Cardinality(Companion) - 1
BY DEF RowsInserted, SumOver

\* How often each code has been used.
UsesOf == [c \in Code |-> invites[c].uses]

\* The sums of the property are sums over the codes and over the accounts.
LEMMA UsesAre == UsesCounted = SumOver(UsesOf, Code)
<1> DEFINE A(g) == g = [s \in SUBSET Code |-> IF s = {} THEN 0
                         ELSE invites[Pick(s)].uses + g[s \ {Pick(s)}]]
<1>1. UsesCounted = (CHOOSE g : A(g))[Code]
  BY DEF UsesCounted, MapThenSumSet, MapThenFoldSet, Pick
<1>2. SumOver(UsesOf, Code) = (CHOOSE g : Rec(g, UsesOf, SUBSET Code))[Code]
  BY SumUnfold DEF Fold
<1>3. \A g : A(g) <=> Rec(g, UsesOf, SUBSET Code)
  <2>1. \A s \in SUBSET Code : s # {} => UsesOf[Pick(s)] = invites[Pick(s)].uses
    BY PickIn DEF UsesOf
  <2>2. [s \in SUBSET Code |-> 0] = [s \in SUBSET Code |-> 0]
    OBVIOUS
  <2> QED BY <2>1 DEF Rec
<1>4. (CHOOSE g : A(g)) = (CHOOSE g : Rec(g, UsesOf, SUBSET Code))
  <2> HIDE DEF A
  <2> QED BY <1>3, Zenon
<1> QED BY <1>1, <1>2, <1>4


LEMMA UsesTypes ==
  ASSUME TypeOK
  PROVE  /\ \A c \in Code : UsesOf[c] \in Int
         /\ \A u \in User : row[u] \in Int
BY DEF TypeOK, StoreTypeOK, Invite, UsesOf

LEMMA CountInit == Init => EveryUseIsCounted
<1> SUFFICES ASSUME Init PROVE UsesCounted = RowsInserted
  BY DEF EveryUseIsCounted
<1> DEFINE D == Companion \cup {Founder}
<1>1. SumOver(UsesOf, Code) = 0
  <2>1. \A c \in Code : UsesOf[c] = 0
    BY DEF Init, StoreInit, UsesOf, Unminted
  <2> QED BY <2>1, FiniteAssumption, SumZero
<1>2. \A u \in User : row[u] = IF u \in D THEN 1 ELSE 0
  BY DEF Init, StoreInit
<1>3. D \in SUBSET User /\ IsFiniteSet(D) /\ IsFiniteSet(Companion)
  BY StoreAssumption, FiniteAssumption, FS_Subset
<1>4. Cardinality(D) = Cardinality(Companion) + 1 /\ Cardinality(Companion) \in Nat
  BY <1>3, StoreAssumption, FS_AddElement, FS_CardinalityType
<1>5. SumOver(row, User) = Cardinality(D)
  <2> HIDE DEF D
  <2>1. SumOver(row, User) = SumOver(row, D)
    BY <1>2, <1>3, FiniteAssumption, SumSupport
  <2>2. \A u \in D : row[u] = 1
    BY <1>2, <1>3
  <2> QED BY <1>3, <2>1, <2>2, SumOnes
<1> QED BY <1>1, <1>4, <1>5, RowsAre, UsesAre

\* Rows are inserted and uses counted by JoinByCode and by nothing else.
LEMMA OnlyJoiningCounts ==
  ASSUME TypeOK, [Next]_vars
  PROVE  \/ ~Exists' /\ \A c \in Code : invites'[c].uses = 0
         \/ row' = row /\ UsesOf' = UsesOf
         \/ \E r \in Req : JoinByCode(r)
<1> DEFINE Same  == row' = row /\ UsesOf' = UsesOf
           Reset == ~Exists' /\ \A c \in Code : invites'[c].uses = 0
<1>1. invites \in [Code -> Invite]
  BY DEF TypeOK, StoreTypeOK
<1>2. ASSUME NEW r \in Req, Dependencies(r) PROVE Same
  BY <1>2 DEF Dependencies, Authorize, SignIn, Accept, CheckWritable, Abort, store, UsesOf
<1>3. ASSUME NEW r \in Req, ExpenseStep(r) PROVE Same
  BY <1>3 DEF ExpenseStep, CheckInsiders, CreateExpense, InsertExpense, GetExpense,
              DeleteExpense, CheckParties, CreateSettlement, InsertSettlement,
              GetSettlement, DeleteSettlement, store, UsesOf
<1>4. ASSUME NEW r \in Req, MemberStep(r) PROVE Same
  BY <1>4 DEF MemberStep, CountMembers, FindTarget, ReadExpenses, EnsureSettled,
              RemoveMember, RemoveRow, CompareAndSwap, TransferOwnership, HandOver, store,
              UsesOf
<1>5. ASSUME NEW r \in Req, TripStep(r) PROVE Same \/ Reset
  BY <1>5 DEF TripStep, ReadTrip, UpdateTrip, DeleteTrip, DropTrip, store, UsesOf, Exists,
              Unminted
<1>6. ASSUME NEW r \in Req,
             \/ DrawCode(r) \/ CreateInvite(r) \/ FindInvite(r) \/ RevokeInvite(r)
             \/ ReadInvite(r) \/ CheckUses(r)
      PROVE Same
  BY <1>1, <1>6 DEF DrawCode, CreateInvite, FindInvite, RevokeInvite, ReadInvite,
                    CheckUses, store, UsesOf, Invite
<1>7. ASSUME NEW r \in Req, AccountStep(r) PROVE Same \/ Reset
  BY <1>7 DEF AccountStep, OwnedWithOthers, OwnedTrips, DeleteAccount, CloseAccount,
              DropTrip, store, UsesOf, Exists, Unminted
<1>8. ASSUME NEW c \in Code, ExpireInvite(c) PROVE Same
  BY <1>1, <1>8 DEF ExpireInvite, UsesOf, Invite
<1>9. CASE UNCHANGED vars
  BY <1>9 DEF vars, store, UsesOf
<1> QED BY <1>2, <1>3, <1>4, <1>5, <1>6, <1>7, <1>8, <1>9 DEF Next, InviteStep

LEMMA CountStep == TypeOK /\ EveryUseIsCounted /\ [Next]_vars => EveryUseIsCounted'
<1> SUFFICES ASSUME TypeOK, EveryUseIsCounted, [Next]_vars, Exists'
             PROVE  UsesCounted' = RowsInserted'
  BY DEF EveryUseIsCounted
<1>1. Exists
  BY KnownGrows
<1>2. SumOver(UsesOf, Code) = SumOver(row, User) - Cardinality(Companion) - 1
  BY <1>1, RowsAre, UsesAre DEF EveryUseIsCounted
<1>3. /\ UsesCounted' = SumOver(UsesOf', Code)
      /\ RowsInserted' = SumOver(row', User) - Cardinality(Companion) - 1
  <2>1. (UsesCounted = SumOver(UsesOf, Code))'
    BY UsesAre, PTL
  <2>2. (RowsInserted = SumOver(row, User) - Cardinality(Companion) - 1)'
    BY RowsAre, PTL
  <2> QED BY <2>1, <2>2
<1>4. CASE row' = row /\ UsesOf' = UsesOf
  BY <1>2, <1>3, <1>4
<1>5. ASSUME NEW r \in Req, JoinByCode(r)
      PROVE  SumOver(UsesOf', Code) = SumOver(row', User) - Cardinality(Companion) - 1
  <2> DEFINE u == req[r].user
             c == req[r].arg
  <2>1. u \in User /\ c \in Code
    BY <1>5, InputsAre DEF TypeOK, IsRequest, JoinByCode, At
  <2>2. CASE row' = row /\ invites' = invites
    BY <1>2, <2>2 DEF UsesOf
  <2>3. CASE /\ row' = [row EXCEPT ![u] = @ + 1]
             /\ invites' = [invites EXCEPT ![c].uses = @ + 1]
    <3>1. PICK rows : rows = row'
      OBVIOUS
    <3>2. PICK uses : uses = UsesOf'
      OBVIOUS
    <3>3. /\ \A v \in User : row[v] \in Int /\ rows[v] \in Int
          /\ \A v \in User \ {u} : row[v] = rows[v]
          /\ rows[u] = row[u] + 1
      BY <2>1, <2>3, <3>1, UsesTypes DEF TypeOK, StoreTypeOK
    <3>4. /\ \A d \in Code : UsesOf[d] \in Int /\ uses[d] \in Int
          /\ \A d \in Code \ {c} : UsesOf[d] = uses[d]
          /\ uses[c] = UsesOf[c] + 1
      BY <2>1, <2>3, <3>2 DEF TypeOK, StoreTypeOK, Invite, UsesOf
    <3>5. SumOver(rows, User) = SumOver(row, User) + rows[u] - row[u]
      BY <2>1, <3>3, FiniteAssumption, SumChange
    <3>6. SumOver(uses, Code) = SumOver(UsesOf, Code) + uses[c] - UsesOf[c]
      BY <2>1, <3>4, FiniteAssumption, SumChange
    <3>7. SumOver(row, User) \in Int /\ SumOver(UsesOf, Code) \in Int
      BY UsesTypes, FiniteAssumption, SumInt
    <3>8. IsFiniteSet(Companion)
      BY StoreAssumption, FiniteAssumption, FS_Subset
    <3>9. Cardinality(Companion) \in Int
      BY <3>8, FS_CardinalityType
    <3>10. row[u] \in Int /\ UsesOf[c] \in Int
      BY <2>1, UsesTypes
    <3>11. SumOver(uses, Code) = SumOver(rows, User) - Cardinality(Companion) - 1
      BY <1>2, <3>3, <3>4, <3>5, <3>6, <3>7, <3>9, <3>10
    <3> QED BY <3>1, <3>2, <3>11
  <2> QED BY <1>5, <2>2, <2>3 DEF JoinByCode, InsertMember
<1> QED BY <1>3, <1>4, <1>5, OnlyJoiningCounts

\* However joins overlap, every row a code let in is counted in its uses, and nothing
\* else is.
THEOREM EveryJoinIsCounted == Spec => []EveryUseIsCounted
BY TypeInit, TypeStep, CountInit, CountStep, PTL DEF Spec

-----------------------------------------------------------------------------
(***************************************************************************)
(* Every cent is somebody's.  An even split hands out what it divides,     *)
(* which makes the shares of every stored expense add up to its amount     *)
(* (MoneyInv); an expense then takes from the people sharing it what it    *)
(* gives the payer, and a repayment moves an amount from one side to the   *)
(* other.  The report's sum is the sum over all rows of sums over all      *)
(* people, exchanged.                                                      *)
(***************************************************************************)
\* No element twice.
Distinct(ids) == \A i, j \in DOMAIN ids : ids[i] = ids[j] => i = j

\* The payer moves to the front: the same people, nobody twice.
LEMMA PayerFirstPermutes ==
  ASSUME NEW ids \in Seq(User), Distinct(ids), NEW payer
  PROVE  /\ PayerFirst(ids, payer) \in Seq(People(ids))
         /\ Len(PayerFirst(ids, payer)) = Len(ids)
         /\ Distinct(PayerFirst(ids, payer))
<1> DEFINE k == CHOOSE i \in DOMAIN ids : ids[i] = payer
           n == Len(ids)
           p == [i \in 1..n |-> IF payer \notin People(ids) \/ i > k THEN ids[i]
                                ELSE IF i = 1 THEN payer ELSE ids[i - 1]]
<1>1. PayerFirst(ids, payer) = p /\ n \in Nat /\ DOMAIN ids = 1..n
  BY DEF PayerFirst
<1>2. \A i \in 1..n : ids[i] \in People(ids)
  BY <1>1 DEF People
<1>3. payer \in People(ids) => k \in 1..n /\ ids[k] = payer
  BY <1>1 DEF People
<1> HIDE DEF k
<1>4. \A i \in 1..n : p[i] \in People(ids)
  BY <1>1, <1>2, <1>3
<1>5. p \in Seq(People(ids)) /\ Len(p) = n
  BY <1>1, <1>4
<1>6. \A i, j \in 1..n : p[i] = p[j] => i = j
  <2>1. \A i, j \in 1..n : ids[i] = ids[j] => i = j
    BY <1>1 DEF Distinct
  <2>2. CASE payer \notin People(ids)
    BY <2>1, <2>2
  <2>3. CASE payer \in People(ids)
    <3>1. k \in 1..n /\ ids[k] = payer
      BY <1>3, <2>3
    <3>2. \A i \in 1..n : p[i] = IF i > k THEN ids[i] ELSE IF i = 1 THEN payer ELSE ids[i - 1]
      BY <2>3
    <3> DEFINE from(i) == IF i > k THEN i ELSE IF i = 1 THEN k ELSE i - 1
    <3>3. ASSUME NEW i \in 1..n PROVE \E a \in 1..n : p[i] = ids[a] /\ a = from(i)
      BY <3>1, <3>2, <1>1
    <3> HIDE DEF p
    <3> SUFFICES ASSUME NEW i \in 1..n, NEW j \in 1..n, p[i] = p[j] PROVE i = j
      OBVIOUS
    <3>4. PICK a \in 1..n : p[i] = ids[a] /\ a = from(i)
      BY <3>3
    <3>5. PICK b \in 1..n : p[j] = ids[b] /\ b = from(j)
      BY <3>3
    <3>6. a = b
      BY <2>1, <3>4, <3>5
    <3> QED BY <1>1, <3>1, <3>4, <3>5, <3>6
  <2> QED BY <2>2, <2>3
<1> QED BY <1>1, <1>5, <1>6 DEF Distinct

\* As many people as places, if nobody has two.
LEMMA PeopleCount ==
  ASSUME NEW T, NEW ids \in Seq(T), Distinct(ids)
  PROVE  IsFiniteSet(People(ids)) /\ Cardinality(People(ids)) = Len(ids)
<1>1. Len(ids) \in Nat /\ DOMAIN ids = 1..Len(ids)
  OBVIOUS
<1>2. ids \in Bijection(1..Len(ids), People(ids))
  BY <1>1 DEF Distinct, People, Bijection, Injection, Surjection, IsInjective
<1>3. ExistsBijection(1..Len(ids), People(ids))
  BY <1>2 DEF ExistsBijection
<1> QED BY <1>1, <1>3, FS_CountingElements, FS_NatBijection

\* An even split hands out the whole amount, leftover cents included.
LEMMA SplitAddsUp ==
  ASSUME NEW total \in Nat, NEW ids \in Seq(User), Len(ids) > 0, Distinct(ids), NEW payer
  PROVE  /\ IsFiniteSet(People(ids))
         /\ SumOver(SplitEvenly(total, ids, payer), People(ids)) = total
<1> DEFINE n         == Len(ids)
           base      == total \div n
           remainder == total % n
           first     == SubSeq(PayerFirst(ids, payer), 1, remainder)
           lucky     == People(first)
           f         == [u \in People(ids) |-> base]
           g         == [u \in People(ids) |-> IF u \in lucky THEN 1 ELSE 0]
           h         == [u \in People(ids) |-> base + (IF u \in lucky THEN 1 ELSE 0)]
<1>1. n \in Nat \ {0}
  OBVIOUS
<1>2. base \in Nat /\ remainder \in 0..(n - 1) /\ total = base * n + remainder
  BY <1>1
<1>3. IsFiniteSet(People(ids)) /\ Cardinality(People(ids)) = n
  BY PeopleCount
<1>4. first \in Seq(People(ids)) /\ Len(first) = remainder /\ Distinct(first)
  <2>1. PICK p : p = PayerFirst(ids, payer)
    OBVIOUS
  <2>2. p \in Seq(People(ids)) /\ Len(p) = n /\ Distinct(p)
    BY <2>1, PayerFirstPermutes
  <2> HIDE DEF n, remainder
  <2>3. /\ SubSeq(p, 1, remainder) \in Seq(People(ids))
        /\ Len(SubSeq(p, 1, remainder)) = remainder
        /\ \A i \in 1..remainder : SubSeq(p, 1, remainder)[i] = p[i]
    BY <1>1, <1>2, <2>2
  <2> QED BY <1>1, <1>2, <2>1, <2>2, <2>3 DEF Distinct
<1>5. Cardinality(lucky) = remainder /\ IsFiniteSet(lucky) /\ lucky \in SUBSET People(ids)
  <2> HIDE DEF first, remainder
  <2>1. lucky \in SUBSET People(ids)
    BY <1>4 DEF People
  <2> QED BY <1>4, <2>1, PeopleCount
<1>6. SplitEvenly(total, ids, payer) = h
  BY DEF SplitEvenly
<1> HIDE DEF n, base, remainder, lucky
<1>7. SumOver(f, People(ids)) = base * n
  BY <1>2, <1>3, SumConstant
<1>8. SumOver(g, People(ids)) = remainder
  <2>1. SumOver(g, People(ids)) = SumOver(g, lucky)
    BY <1>3, <1>5, SumSupport
  <2>2. SumOver(g, lucky) = Cardinality(lucky)
    BY <1>5, SumOnes
  <2> QED BY <1>5, <2>1, <2>2
<1>9. SumOver(h, People(ids)) = SumOver(f, People(ids)) + SumOver(g, People(ids))
  BY <1>2, <1>3, SumPlus
<1> QED BY <1>2, <1>3, <1>6, <1>7, <1>8, <1>9

\* Whatever payload the schema accepts, the shares stored add up to the amount.
LEMMA BillAddsUp ==
  ASSUME NEW b \in Bills
  PROVE  SumOver(SharesFor(b), DOMAIN SharesFor(b)) = b.amount
<1>1. ValidBill(b)
  BY StoreAssumption
<1>2. CASE b.shares = NoShares
  <2>1. /\ b.participants \in Seq(User) /\ Len(b.participants) > 0 /\ b.amount \in Nat
        /\ Distinct(b.participants)
    BY <1>1, <1>2 DEF ValidBill, Distinct
  <2>2. SharesFor(b) = SplitEvenly(b.amount, b.participants, b.paid_by)
    BY <1>2 DEF SharesFor
  <2>3. DOMAIN SharesFor(b) = People(b.participants)
    BY <2>2 DEF SplitEvenly
  <2> QED BY <2>1, <2>2, <2>3, SplitAddsUp
<1>3. CASE b.shares # NoShares
  BY <1>1, <1>3 DEF ValidBill, SharesFor, SharesTotal, SumOver
<1> QED BY <1>2, <1>3

\* What each expense, and each repayment, does to u.
EffectsOn(u, E) == [e \in E |-> Effect(u, e)]
RepaymentsOf(u, S) == [s \in S |-> Repayment(u, s)]

LEMMA EffectsAre ==
  ASSUME NEW u, NEW E
  PROVE  MapThenSumSet(LAMBDA e : Effect(u, e), E) = SumOver(EffectsOn(u, E), E)
<1> DEFINE A(g) == g = [s \in SUBSET E |-> IF s = {} THEN 0
                         ELSE Effect(u, Pick(s)) + g[s \ {Pick(s)}]]
<1>1. PICK f : f = EffectsOn(u, E)
  OBVIOUS
<1>2. MapThenSumSet(LAMBDA e : Effect(u, e), E) = (CHOOSE g : A(g))[E]
  BY DEF MapThenSumSet, MapThenFoldSet, Pick
<1>3. SumOver(f, E) = (CHOOSE g : Rec(g, f, SUBSET E))[E]
  BY SumUnfold DEF Fold
<1>4. \A g : A(g) <=> Rec(g, f, SUBSET E)
  <2>1. \A s \in SUBSET E : s # {} => f[Pick(s)] = Effect(u, Pick(s))
    BY <1>1, PickIn DEF EffectsOn
  <2> QED BY <2>1 DEF Rec
<1>5. (CHOOSE g : A(g)) = (CHOOSE g : Rec(g, f, SUBSET E))
  <2> HIDE DEF A
  <2> QED BY <1>4, Zenon
<1> QED BY <1>1, <1>2, <1>3, <1>5

LEMMA RepaymentsAre ==
  ASSUME NEW u, NEW S
  PROVE  MapThenSumSet(LAMBDA s : Repayment(u, s), S) = SumOver(RepaymentsOf(u, S), S)
<1> DEFINE A(g) == g = [s \in SUBSET S |-> IF s = {} THEN 0
                         ELSE Repayment(u, Pick(s)) + g[s \ {Pick(s)}]]
<1>1. PICK f : f = RepaymentsOf(u, S)
  OBVIOUS
<1>2. MapThenSumSet(LAMBDA s : Repayment(u, s), S) = (CHOOSE g : A(g))[S]
  BY DEF MapThenSumSet, MapThenFoldSet, Pick
<1>3. SumOver(f, S) = (CHOOSE g : Rec(g, f, SUBSET S))[S]
  BY SumUnfold DEF Fold
<1>4. \A g : A(g) <=> Rec(g, f, SUBSET S)
  <2>1. \A s \in SUBSET S : s # {} => f[Pick(s)] = Repayment(u, Pick(s))
    BY <1>1, PickIn DEF RepaymentsOf
  <2> QED BY <2>1 DEF Rec
<1>5. (CHOOSE g : A(g)) = (CHOOSE g : Rec(g, f, SUBSET S))
  <2> HIDE DEF A
  <2> QED BY <1>4, Zenon
<1> QED BY <1>1, <1>2, <1>3, <1>5

\* A position is the sum of what the rows do to it.
LEMMA NetIs ==
  ASSUME NEW u, NEW E, NEW S
  PROVE  Net(u, E, S) = SumOver(EffectsOn(u, E), E) + SumOver(RepaymentsOf(u, S), S)
BY EffectsAre, RepaymentsAre DEF Net

\* The shares of one expense, and what it does to a person, are whole cents.
LEMMA ExpenseTypes ==
  ASSUME NEW e, IsExpense(e)
  PROVE  /\ IsFiniteSet(DOMAIN e.shares) /\ DOMAIN e.shares \subseteq User
         /\ \A u \in DOMAIN e.shares : e.shares[u] \in Nat
         /\ SharesTotal(e) = SumOver(e.shares, DOMAIN e.shares)
         /\ SharesTotal(e) \in Int
         /\ \A u : Effect(u, e) \in Int
<1>1. DOMAIN e.shares \subseteq User /\ \A u \in DOMAIN e.shares : e.shares[u] \in Nat
  BY DEF IsExpense, IsShares
<1>2. IsFiniteSet(DOMAIN e.shares)
  BY <1>1, FiniteAssumption, FS_Subset
<1>3. SharesTotal(e) = SumOver(e.shares, DOMAIN e.shares)
  BY DEF SharesTotal, SumOver
<1>4. PICK f, D : f = e.shares /\ D = DOMAIN e.shares
  OBVIOUS
<1>5. SumOver(f, D) \in Int
  BY <1>1, <1>2, <1>4, SumInt
<1>6. \A u : Effect(u, e) \in Int
  BY <1>1, <1>3, <1>4, <1>5 DEF Effect, ShareOf
<1> QED BY <1>1, <1>2, <1>3, <1>4, <1>5, <1>6

\* What an expense gives the payer it takes from the people sharing it.
LEMMA ExpenseBalances ==
  ASSUME NEW e, IsExpense(e), NEW U, IsFiniteSet(U),
         {e.paid_by} \cup DOMAIN e.shares \subseteq U
  PROVE  SumOver([u \in U |-> Effect(u, e)], U) = 0
<1> DEFINE D == DOMAIN e.shares
           t == SharesTotal(e)
           h == [u \in U |-> Effect(u, e)]
           s == [u \in U |-> ShareOf(u, e)]
           p == [u \in U |-> IF u = e.paid_by THEN t ELSE 0]
<1>1. t \in Int /\ IsFiniteSet(D) /\ D \in SUBSET U /\ t = SumOver(e.shares, D)
  BY ExpenseTypes
<1>2. \A u \in U : /\ s[u] \in Int /\ h[u] \in Int /\ p[u] \in Int /\ p[u] = h[u] + s[u]
                   /\ u \notin D => s[u] = 0
  BY ExpenseTypes DEF Effect, ShareOf
<1>3. /\ \A u \in D : s[u] = e.shares[u]
      /\ e.paid_by \in U /\ p[e.paid_by] = t
      /\ \A u \in U \ {e.paid_by} : p[u] = 0
  BY <1>1 DEF ShareOf
<1> HIDE DEF D, t, h, s, p
<1>4. SumOver(s, U) = SumOver(s, D)
  BY <1>1, <1>2, SumSupport
<1>5. SumOver(s, D) = t
  <2>1. PICK f : f = e.shares
    OBVIOUS
  <2>2. SumOver(s, D) = SumOver(f, D)
    BY <1>1, <1>3, <2>1, SumEqual
  <2> QED BY <1>1, <2>1, <2>2
<1>6. SumOver(p, U) = t
  <2>1. PICK a : a = e.paid_by
    OBVIOUS
  <2>2. {a} \in SUBSET U
    BY <1>3, <2>1
  <2>3. SumOver(p, U) = SumOver(p, {a})
    BY <1>2, <1>3, <2>1, <2>2, SumSupport
  <2>4. SumOver(p, {} \cup {a}) = p[a] + SumOver(p, {})
    BY <1>1, <1>3, <2>1, FS_EmptySet, SumInsert
  <2>5. {} \cup {a} = {a} /\ SumOver(p, {}) = 0
    BY SumEmpty
  <2>6. SumOver(p, {a}) = p[a] + 0
    BY <2>4, <2>5
  <2> QED BY <1>1, <1>3, <2>1, <2>3, <2>6
<1>7. SumOver(p, U) = SumOver(h, U) + SumOver(s, U)
  BY <1>2, SumPlus
<1>8. SumOver(h, U) \in Int
  BY <1>2, SumInt
<1>9. SumOver(h, U) = 0
  BY <1>1, <1>4, <1>5, <1>6, <1>7, <1>8
<1> QED BY <1>9 DEF h

\* A repayment gives one side what it takes from the other.
LEMMA RepaymentBalances ==
  ASSUME NEW s \in Settlement, NEW U, IsFiniteSet(U), {s.from, s.to} \subseteq U
  PROVE  SumOver([u \in U |-> Repayment(u, s)], U) = 0
<1> DEFINE h == [u \in U |-> Repayment(u, s)]
           z == [u \in U |-> 0]
           p == [u \in U |-> IF u = s.from THEN s.amount ELSE 0]
<1>1. PICK a, b, k : a = s.from /\ b = s.to /\ k = s.amount
  OBVIOUS
<1>2. a \in U /\ b \in U /\ k \in Int
  BY <1>1 DEF Settlement
<1>3. /\ \A u \in U : z[u] = 0
      /\ \A u \in U : p[u] = IF u = a THEN k ELSE 0
      /\ \A u \in U : h[u] = (IF u = a THEN k ELSE 0) - (IF u = b THEN k ELSE 0)
  BY <1>1 DEF Repayment
<1> HIDE DEF h, z, p
<1>4. SumOver(z, U) = 0
  BY <1>3, SumZero
<1>5. SumOver(p, U) = SumOver(z, U) + p[a] - z[a]
  BY <1>2, <1>3, SumChange
<1>6. SumOver(h, U) = SumOver(p, U) + h[b] - p[b]
  <2>1. \A u \in U : p[u] \in Int /\ h[u] \in Int
    BY <1>2, <1>3
  <2>2. \A u \in U \ {b} : p[u] = h[u]
    BY <1>2, <1>3
  <2> QED BY <1>2, <2>1, <2>2, SumChange
<1>7. p[a] = k /\ z[a] = 0 /\ h[b] = p[b] - k /\ p[b] \in Int
  BY <1>2, <1>3
<1>8. SumOver(h, U) = 0
  BY <1>2, <1>4, <1>5, <1>6, <1>7
<1> QED BY <1>8 DEF h

\* Everybody's positions out of any rows add up to nothing.
LEMMA PositionsBalance ==
  ASSUME NEW E, IsFiniteSet(E), \A e \in E : IsExpense(e),
         NEW S, IsFiniteSet(S), S \subseteq Settlement
  PROVE  LET U == Involved(E, S)
         IN  /\ IsFiniteSet(U) /\ U \subseteq User
             /\ \A u \in U : Net(u, E, S) \in Int
             /\ SumOver([u \in U |-> Net(u, E, S)], U) = 0
<1> DEFINE U == Involved(E, S)
           m == [e \in E |-> [u \in U |-> Effect(u, e)]]
           n == [s \in S |-> [u \in U |-> Repayment(u, s)]]
           paid == [u \in U |-> SumOver([e \in E |-> m[e][u]], E)]
           back == [u \in U |-> SumOver([s \in S |-> n[s][u]], S)]
           net  == [u \in U |-> Net(u, E, S)]
<1>1. U \subseteq User
  BY DEF Involved, IsExpense, IsShares, Settlement
<1>2. IsFiniteSet(U)
  BY <1>1, FiniteAssumption, FS_Subset
<1>3. /\ \A e \in E : {e.paid_by} \cup DOMAIN e.shares \subseteq U
      /\ \A s \in S : {s.from, s.to} \subseteq U
  BY DEF Involved
<1>4. \A e \in E, u \in U : m[e][u] \in Int
  BY ExpenseTypes
<1>5. \A s \in S, u \in U : n[s][u] \in Int
  BY DEF Repayment, Settlement
<1>6. SumOver([e \in E |-> SumOver(m[e], U)], E) = 0
  <2>1. \A e \in E : SumOver(m[e], U) = 0
    BY <1>2, <1>3, ExpenseBalances
  <2> DEFINE f == [e \in E |-> SumOver(m[e], U)]
  <2>2. \A e \in E : f[e] = 0
    BY <2>1
  <2> HIDE DEF f
  <2>3. SumOver(f, E) = 0
    BY <2>2, SumZero
  <2> QED BY <2>3 DEF f
<1>7. SumOver([s \in S |-> SumOver(n[s], U)], S) = 0
  <2>1. \A s \in S : SumOver(n[s], U) = 0
    BY <1>2, <1>3, RepaymentBalances
  <2> DEFINE f == [s \in S |-> SumOver(n[s], U)]
  <2>2. \A s \in S : f[s] = 0
    BY <2>1
  <2> HIDE DEF f
  <2>3. SumOver(f, S) = 0
    BY <2>2, SumZero
  <2> QED BY <2>3 DEF f
<1>8. SumOver(paid, U) = 0
  <2> HIDE DEF m, U
  <2> QED BY <1>2, <1>4, <1>6, SumSwap
<1>9. SumOver(back, U) = 0
  <2> HIDE DEF n, U
  <2> QED BY <1>2, <1>5, <1>7, SumSwap
<1>10. \A u \in U : /\ paid[u] \in Int /\ back[u] \in Int
                    /\ net[u] = paid[u] + back[u]
  <2> SUFFICES ASSUME NEW u \in U
               PROVE  paid[u] \in Int /\ back[u] \in Int /\ net[u] = paid[u] + back[u]
    OBVIOUS
  <2>1. [e \in E |-> m[e][u]] = EffectsOn(u, E) /\ [s \in S |-> n[s][u]] = RepaymentsOf(u, S)
    BY DEF EffectsOn, RepaymentsOf
  <2>2. PICK f, g : f = EffectsOn(u, E) /\ g = RepaymentsOf(u, S)
    OBVIOUS
  <2>3. paid[u] = SumOver(f, E) /\ back[u] = SumOver(g, S)
    BY <2>1, <2>2
  <2>4. (\A e \in E : f[e] \in Int) /\ (\A s \in S : g[s] \in Int)
    BY <1>4, <1>5, <2>1, <2>2
  <2>5. SumOver(f, E) \in Int /\ SumOver(g, S) \in Int
    BY <2>4, SumInt
  <2>6. net[u] = SumOver(f, E) + SumOver(g, S)
    BY <2>2, NetIs
  <2> QED BY <2>3, <2>5, <2>6
<1>11. SumOver(net, U) = SumOver(paid, U) + SumOver(back, U)
  <2> HIDE DEF net, paid, back, U
  <2> QED BY <1>2, <1>10, SumPlus
<1>12. \A u \in U : Net(u, E, S) \in Int
  <2>1. \A u \in U : net[u] = Net(u, E, S)
    OBVIOUS
  <2> HIDE DEF net, paid, back, U
  <2>2. \A u \in U : net[u] \in Int
    BY <1>10
  <2> QED BY <2>1, <2>2
<1> QED BY <1>1, <1>2, <1>8, <1>9, <1>11, <1>12

\* The report adds zeros only, so it adds up to nothing too.
LEMMA ReportBalances ==
  ASSUME NEW E, IsFiniteSet(E), \A e \in E : IsExpense(e),
         NEW S, IsFiniteSet(S), S \subseteq Settlement, NEW M \in SUBSET User
  PROVE  SumOver(BalanceReport(M, E, S), DOMAIN BalanceReport(M, E, S)) = 0
<1> DEFINE U == Involved(E, S)
           D == M \cup U
           net == [u \in U |-> Net(u, E, S)]
           f == [u \in D |-> IF u \in U THEN net[u] ELSE 0]
<1>1. BalanceReport(M, E, S) = f
  BY DEF BalanceReport, ComputeBalances
<1>2. /\ IsFiniteSet(U) /\ U \subseteq User /\ SumOver(net, U) = 0
      /\ \A u \in U : net[u] \in Int
  BY PositionsBalance
<1>3. IsFiniteSet(D) /\ U \in SUBSET D
  BY <1>2, FiniteAssumption, FS_Subset
<1>4. /\ \A u \in D : f[u] \in Int
      /\ \A u \in D \ U : f[u] = 0
      /\ \A u \in U : f[u] = net[u]
      /\ DOMAIN f = D
  BY <1>2
<1> HIDE DEF U, D, net, f
<1>5. SumOver(f, D) = SumOver(f, U)
  BY <1>3, <1>4, SumSupport
<1>6. SumOver(f, U) = SumOver(net, U)
  BY <1>2, <1>4, SumEqual
<1> QED BY <1>1, <1>2, <1>4, <1>5, <1>6

\* The rows are finitely many, and every expense is shared out completely.
MoneyInv ==
  /\ IsFiniteSet(expenses) /\ IsFiniteSet(settlements)
  /\ \A e \in expenses : SharesTotal(e) = e.amount

LEMMA MoneyInit == Init => MoneyInv
BY FS_EmptySet DEF Init, StoreInit, MoneyInv

LEMMA MoneyImplies == TypeOK /\ MoneyInv => EveryCentIsSomebodys
<1> SUFFICES ASSUME TypeOK, MoneyInv PROVE EveryCentIsSomebodys
  OBVIOUS
<1>1. PICK report : report = BalanceReport(Members, expenses, settlements)
  OBVIOUS
<1>2. /\ \A e \in expenses : IsExpense(e)
      /\ settlements \subseteq Settlement
      /\ Members \in SUBSET User
      /\ IsFiniteSet(expenses) /\ IsFiniteSet(settlements)
  BY DEF TypeOK, StoreTypeOK, MoneyInv, Members
<1>3. SumOver(report, DOMAIN report) = 0
  BY <1>1, <1>2, ReportBalances
<1>4. MapThenSumSet(LAMBDA u : report[u], DOMAIN report) = 0
  BY <1>3 DEF SumOver
<1> QED BY <1>1, <1>4 DEF EveryCentIsSomebodys, MoneyInv

LEMMA MoneyStep == TypeOK /\ MoneyInv /\ [Next]_vars => MoneyInv'
<1> SUFFICES ASSUME TypeOK, MoneyInv, [Next]_vars PROVE MoneyInv'
  OBVIOUS
<1>1. ASSUME NEW r \in Req, CreateExpense(r) PROVE MoneyInv'
  <2> DEFINE b == req[r].arg
  <2>1. b \in Bills
    BY <1>1, InputsAre DEF TypeOK, IsRequest, CreateExpense, At
  <2>2. PICK e : e = [id |-> issued + 1, paid_by |-> b.paid_by, amount |-> b.amount,
                      shares |-> SharesFor(b)]
    OBVIOUS
  <2>3. SharesTotal(e) = e.amount
    <3>1. SharesTotal(e) = SumOver(e.shares, DOMAIN e.shares)
      BY DEF SharesTotal, SumOver
    <3>2. e.shares = SharesFor(b) /\ e.amount = b.amount
      BY <2>2
    <3> QED BY <2>1, <3>1, <3>2, BillAddsUp
  <2>4. settlements' = settlements /\ (expenses' = expenses \/ expenses' = expenses \cup {e})
    BY <1>1, <2>2 DEF CreateExpense, InsertExpense
  <2>5. IsFiniteSet(expenses \cup {e})
    BY FS_AddElement DEF MoneyInv
  <2> QED BY <2>3, <2>4, <2>5 DEF MoneyInv
<1>2. ASSUME NEW r \in Req, CreateSettlement(r) PROVE MoneyInv'
  <2>1. PICK s : settlements' = settlements \/ settlements' = settlements \cup {s}
    BY <1>2 DEF CreateSettlement, InsertSettlement
  <2>2. IsFiniteSet(settlements \cup {s})
    BY FS_AddElement DEF MoneyInv
  <2> QED BY <1>2, <2>1, <2>2 DEF CreateSettlement, InsertSettlement, MoneyInv
<1>3. CASE Shrinks
  <2>1. IsFiniteSet(expenses') /\ IsFiniteSet(settlements')
    BY <1>3, FS_Subset DEF MoneyInv, Shrinks
  <2> QED BY <1>3, <2>1 DEF MoneyInv, Shrinks
<1> QED BY <1>1, <1>2, <1>3, OnlyCreationsAdd

\* However the requests interleave, every expense's shares add up to its amount, and
\* the balance report shows no cent that is owed to nobody.
THEOREM EveryCentIsAccountedFor == Spec => []EveryCentIsSomebodys
BY TypeInit, TypeStep, MoneyInit, MoneyStep, MoneyImplies, PTL DEF Spec

-----------------------------------------------------------------------------
(***************************************************************************)
(* The trips list adds up share rows of joined tables, the report adds up  *)
(* expenses.  They agree on settlements only because nobody repays himself *)
(* (PartiesInv): the list counts such a row once, the report twice.        *)
(***************************************************************************)
\* What one share row of the joined tables adds to u's summary.
CentsOf(u, r) == (IF r[1].paid_by = u THEN r[1].shares[r[2]] ELSE 0)
                   - (IF r[2] = u THEN r[1].shares[r[2]] ELSE 0)
CentsOn(u, E) == [r \in ShareRows(E) |-> CentsOf(u, r)]
RepaidOf(u, s) == IF s.from = u THEN s.amount ELSE -s.amount
Mine(u, S) == {s \in S : u \in {s.from, s.to}}
RepaidIn(u, S) == [s \in Mine(u, S) |-> RepaidOf(u, s)]

LEMMA CentsAre ==
  ASSUME NEW u, NEW E
  PROVE  MapThenSumSet(LAMBDA r : CentsOf(u, r), ShareRows(E))
           = SumOver(CentsOn(u, E), ShareRows(E))
<1> PICK f, S : f = CentsOn(u, E) /\ S = ShareRows(E)
  OBVIOUS
<1> DEFINE A(g) == g = [s \in SUBSET S |-> IF s = {} THEN 0
                         ELSE CentsOf(u, Pick(s)) + g[s \ {Pick(s)}]]
<1>1. MapThenSumSet(LAMBDA r : CentsOf(u, r), S) = (CHOOSE g : A(g))[S]
  BY DEF MapThenSumSet, MapThenFoldSet, Pick
<1>2. SumOver(f, S) = (CHOOSE g : Rec(g, f, SUBSET S))[S]
  BY SumUnfold DEF Fold
<1>3. \A g : A(g) <=> Rec(g, f, SUBSET S)
  <2>1. \A s \in SUBSET S : s # {} => f[Pick(s)] = CentsOf(u, Pick(s))
    BY PickIn DEF CentsOn
  <2> QED BY <2>1 DEF Rec
<1>4. (CHOOSE g : A(g)) = (CHOOSE g : Rec(g, f, SUBSET S))
  <2> HIDE DEF A
  <2> QED BY <1>3, Zenon
<1> QED BY <1>1, <1>2, <1>4

LEMMA RepaidAre ==
  ASSUME NEW u, NEW S
  PROVE  MapThenSumSet(LAMBDA s : RepaidOf(u, s), Mine(u, S))
           = SumOver(RepaidIn(u, S), Mine(u, S))
<1> PICK f, M : f = RepaidIn(u, S) /\ M = Mine(u, S)
  OBVIOUS
<1> DEFINE A(g) == g = [s \in SUBSET M |-> IF s = {} THEN 0
                         ELSE RepaidOf(u, Pick(s)) + g[s \ {Pick(s)}]]
<1>1. MapThenSumSet(LAMBDA s : RepaidOf(u, s), M) = (CHOOSE g : A(g))[M]
  BY DEF MapThenSumSet, MapThenFoldSet, Pick
<1>2. SumOver(f, M) = (CHOOSE g : Rec(g, f, SUBSET M))[M]
  BY SumUnfold DEF Fold
<1>3. \A g : A(g) <=> Rec(g, f, SUBSET M)
  <2>1. \A s \in SUBSET M : s # {} => f[Pick(s)] = RepaidOf(u, Pick(s))
    BY PickIn DEF RepaidIn
  <2> QED BY <2>1 DEF Rec
<1>4. (CHOOSE g : A(g)) = (CHOOSE g : Rec(g, f, SUBSET M))
  <2> HIDE DEF A
  <2> QED BY <1>3, Zenon
<1> QED BY <1>1, <1>2, <1>4

\* The number of the trips list, as sums.
LEMMA SummaryIs ==
  ASSUME NEW u, NEW E, NEW S
  PROVE  SummaryBalance(u, E, S) \subseteq
           {SumOver(CentsOn(u, E), ShareRows(E)) + SumOver(RepaidIn(u, S), Mine(u, S))}
<1>1. SummaryBalance(u, E, S) =
        IF ShareRows(E) = {} /\ Mine(u, S) = {} THEN {}
        ELSE {MapThenSumSet(LAMBDA r : CentsOf(u, r), ShareRows(E))
                + MapThenSumSet(LAMBDA s : RepaidOf(u, s), Mine(u, S))}
  BY DEF SummaryBalance, CentsOf, RepaidOf, Mine
<1> QED BY <1>1, CentsAre, RepaidAre

\* The rows of one expense add up to its effect.
LEMMA RowsMakeEffect ==
  ASSUME NEW e, IsExpense(e), NEW u, NEW E, e \in E
  PROVE  LET D == DOMAIN e.shares
         IN  /\ \A p \in D : CentsOn(u, E)[<<e, p>>] \in Int
             /\ SumOver(RowTerms(CentsOn(u, E), e, D), D) = Effect(u, e)
<1> PICK D, f, c : D = DOMAIN e.shares /\ f = e.shares /\ c = CentsOn(u, E)
  OBVIOUS
<1> DEFINE g == RowTerms(c, e, D)
           h == [p \in D |-> IF e.paid_by = u THEN f[p] ELSE 0]
           k == [p \in D |-> IF p = u THEN f[p] ELSE 0]
<1>1. /\ IsFiniteSet(D) /\ (\A p \in D : f[p] \in Int)
      /\ SharesTotal(e) = SumOver(f, D) /\ SumOver(f, D) \in Int
  BY ExpenseTypes
<1>2. \A p \in D : <<e, p>> \in ShareRows(E) /\ c[<<e, p>>] = CentsOf(u, <<e, p>>)
  BY DEF ShareRows, CentsOn
<1>3. \A p \in D :
        c[<<e, p>>] = (IF e.paid_by = u THEN f[p] ELSE 0) - (IF p = u THEN f[p] ELSE 0)
  BY <1>2 DEF CentsOf
<1>4. \A p \in D : /\ g[p] \in Int /\ h[p] \in Int /\ k[p] \in Int
                   /\ h[p] = g[p] + k[p]
  BY <1>1, <1>3 DEF RowTerms
<1>5. SumOver(h, D) = IF e.paid_by = u THEN SumOver(f, D) ELSE 0
  <2>1. CASE e.paid_by = u
    <3>1. \A p \in D : h[p] = f[p]
      BY <2>1
    <3> HIDE DEF h
    <3> QED BY <1>1, <2>1, <3>1, SumEqual
  <2>2. CASE e.paid_by # u
    <3>1. \A p \in D : h[p] = 0
      BY <2>2
    <3> HIDE DEF h
    <3> QED BY <1>1, <2>2, <3>1, SumZero
  <2> QED BY <2>1, <2>2
<1>6. SumOver(k, D) = ShareOf(u, e) /\ ShareOf(u, e) \in Int
  <2>1. CASE u \in D
    <3>1. /\ \A p \in D : k[p] \in Int
          /\ \A p \in D \ {u} : k[p] = 0
          /\ k[u] = f[u] /\ f[u] \in Int
      BY <1>1, <2>1
    <3> HIDE DEF k
    <3>2. SumOver(k, D) = k[u] + SumOver(k, D \ {u})
      BY <1>1, <2>1, <3>1, SumRemove
    <3>3. PICK R : R = D \ {u}
      OBVIOUS
    <3>4. SumOver(k, R) = 0
      BY <1>1, <3>1, <3>3, FS_RemoveElement, SumZero
    <3> QED BY <2>1, <3>1, <3>2, <3>3, <3>4 DEF ShareOf
  <2>2. CASE u \notin D
    <3>1. \A p \in D : k[p] = 0
      BY <2>2
    <3> HIDE DEF k
    <3> QED BY <1>1, <2>2, <3>1, SumZero DEF ShareOf
  <2> QED BY <2>1, <2>2
<1>7. SumOver(h, D) = SumOver(g, D) + SumOver(k, D) /\ SumOver(g, D) \in Int
  <2> HIDE DEF g, h, k
  <2> QED BY <1>1, <1>4, SumPlus, SumInt
<1>8. SumOver(g, D) = Effect(u, e)
  <2> HIDE DEF g, h, k
  <2> QED BY <1>1, <1>5, <1>6, <1>7 DEF Effect
<1>9. \A p \in D : c[<<e, p>>] \in Int
  BY <1>1, <1>3
<1> QED BY <1>8, <1>9

\* Adding up the joined tables row by row gives what the expenses do to u.
LEMMA RowsMakeEffects ==
  ASSUME NEW E, IsFiniteSet(E), \A e \in E : IsExpense(e), NEW u
  PROVE  SumOver(CentsOn(u, E), ShareRows(E)) = SumOver(EffectsOn(u, E), E)
<1> PICK c, d : c = CentsOn(u, E) /\ d = [e \in E |-> DOMAIN e.shares]
  OBVIOUS
<1>1. Cells(d, E) = ShareRows(E)
  BY DEF Cells, CellsOf, ShareRows
<1>2. \A e \in E : /\ d[e] = DOMAIN e.shares /\ IsFiniteSet(d[e])
                   /\ \A p \in d[e] : c[<<e, p>>] \in Int
                   /\ SumOver(RowTerms(c, e, d[e]), d[e]) = Effect(u, e)
  BY ExpenseTypes, RowsMakeEffect
<1>3. SumOver(c, Cells(d, E)) = SumOver(RowTotals(c, d, E), E)
  BY <1>2, SumTable
<1>4. RowTotals(c, d, E) = EffectsOn(u, E)
  BY <1>2 DEF RowTotals, EffectsOn
<1> QED BY <1>1, <1>3, <1>4

\* A person's own repayments are all that count, as nobody repays himself.
LEMMA MineSuffice ==
  ASSUME NEW S, IsFiniteSet(S), S \subseteq Settlement, \A s \in S : s.from # s.to, NEW u
  PROVE  SumOver(RepaidIn(u, S), Mine(u, S)) = SumOver(RepaymentsOf(u, S), S)
<1> PICK f, g, M : f = RepaidIn(u, S) /\ g = RepaymentsOf(u, S) /\ M = Mine(u, S)
  OBVIOUS
<1>1. M \in SUBSET S /\ IsFiniteSet(M)
  BY FS_Subset DEF Mine
<1>2. \A s \in S : g[s] \in Int /\ (s \notin M => g[s] = 0) /\ (s \in M => f[s] = g[s])
  BY DEF RepaidIn, RepaidOf, RepaymentsOf, Repayment, Mine, Settlement
<1>3. SumOver(g, S) = SumOver(g, M)
  BY <1>1, <1>2, SumSupport
<1>4. SumOver(f, M) = SumOver(g, M)
  BY <1>1, <1>2, SumEqual
<1> QED BY <1>3, <1>4

\* Somebody the ledger does not name owes nothing.
LEMMA OutsidersAreEven ==
  ASSUME NEW E, IsFiniteSet(E), NEW S, IsFiniteSet(S), NEW u, u \notin Involved(E, S)
  PROVE  Net(u, E, S) = 0
<1> PICK f, g : f = EffectsOn(u, E) /\ g = RepaymentsOf(u, S)
  OBVIOUS
<1>1. \A e \in E : u # e.paid_by /\ u \notin DOMAIN e.shares
  BY DEF Involved
<1>2. \A s \in S : u # s.from /\ u # s.to
  BY DEF Involved
<1>3. \A e \in E : f[e] = 0
  BY <1>1 DEF EffectsOn, Effect, ShareOf
<1>4. \A s \in S : g[s] = 0
  BY <1>2 DEF RepaymentsOf, Repayment
<1> QED BY <1>3, <1>4, NetIs, SumZero

\* The number of the report is the position, for members and for others.
LEMMA BalanceForIs ==
  ASSUME NEW E, IsFiniteSet(E), NEW S, IsFiniteSet(S), NEW M, NEW u
  PROVE  BalanceFor(u, M, E, S) = Net(u, E, S)
<1>1. BalanceFor(u, M, E, S) = IF u \in Involved(E, S) THEN Net(u, E, S) ELSE 0
  BY DEF BalanceFor, BalanceReport, ComputeBalances
<1> QED BY <1>1, OutsidersAreEven

\* Nobody repays himself, in the table or in a commit under way.
Repaying(r) == At(r, {"create_settlement"}, "commit")
PartiesInv == /\ \A s \in settlements : s.from # s.to
              /\ \A r \in Req : Repaying(r) => req[r].user # req[r].arg.to

LEMMA PartiesInit == Init => PartiesInv
BY DEF Init, StoreInit, PartiesInv, Repaying, At, Idle

LEMMA PartiesStep == TypeOK /\ PartiesInv /\ [Next]_vars => PartiesInv'
<1> SUFFICES ASSUME TypeOK, PartiesInv, [Next]_vars PROVE PartiesInv'
  OBVIOUS
<1>1. \A r \in Req : Repaying(r)' => req'[r].user # req'[r].arg.to
  <2> SUFFICES ASSUME NEW r \in Req, Repaying(r)' PROVE req'[r].user # req'[r].arg.to
    OBVIOUS
  <2>1. Recording(r)' /\ req'[r].op = "create_settlement"
    BY DEF Repaying, Recording, At, Creations
  <2>2. CASE req'[r] = req[r]
    BY <2>2 DEF PartiesInv, Repaying, At
  <2> QED BY <2>1, <2>2, RecordingIsChecked DEF Checked
<1>2. \A s \in settlements' : s.from # s.to
  <2>1. CASE Shrinks
    BY <2>1 DEF Shrinks, PartiesInv
  <2>2. ASSUME NEW r \in Req, CreateExpense(r) PROVE settlements' = settlements
    BY <2>2 DEF CreateExpense, InsertExpense
  <2>3. ASSUME NEW r \in Req, CreateSettlement(r)
        PROVE  \A s \in settlements' : s \in settlements \/ s.from # s.to
    <3>1. req[r].user # req[r].arg.to
      BY <2>3 DEF CreateSettlement, PartiesInv, Repaying
    <3> QED BY <2>3, <3>1 DEF CreateSettlement, InsertSettlement
  <2> QED BY <2>1, <2>2, <2>3, OnlyCreationsAdd DEF PartiesInv
<1> QED BY <1>1, <1>2 DEF PartiesInv

LEMMA SummaryImplies == TypeOK /\ MoneyInv /\ PartiesInv => SummaryAgreesWithReport
<1> SUFFICES ASSUME TypeOK, MoneyInv, PartiesInv, NEW u \in User
             PROVE  SummaryBalance(u, expenses, settlements)
                      \subseteq {BalanceFor(u, Members, expenses, settlements)}
  BY DEF SummaryAgreesWithReport
<1>1. /\ \A e \in expenses : IsExpense(e)
      /\ settlements \subseteq Settlement /\ \A s \in settlements : s.from # s.to
      /\ IsFiniteSet(expenses) /\ IsFiniteSet(settlements)
  BY DEF TypeOK, StoreTypeOK, MoneyInv, PartiesInv
<1>2. BalanceFor(u, Members, expenses, settlements) = Net(u, expenses, settlements)
  BY <1>1, BalanceForIs
<1>3. SumOver(CentsOn(u, expenses), ShareRows(expenses))
        = SumOver(EffectsOn(u, expenses), expenses)
  BY <1>1, RowsMakeEffects
<1>4. SumOver(RepaidIn(u, settlements), Mine(u, settlements))
        = SumOver(RepaymentsOf(u, settlements), settlements)
  BY <1>1, MineSuffice
<1> QED BY <1>2, <1>3, <1>4, NetIs, SummaryIs

\* The trips list and the balance report show the same number to everybody.
THEOREM ListAndReportAgree == Spec => []SummaryAgreesWithReport
BY TypeInit, TypeStep, MoneyInit, MoneyStep, PartiesInit, PartiesStep, SummaryImplies,
   PTL DEF Spec

-----------------------------------------------------------------------------
(***************************************************************************)
(* Overlapping requests.  AllFresh says that what a request remembers of a *)
(* table is still what the table says, unless others have written to it    *)
(* meanwhile (behind).  A commit either relies on what is fresh, and keeps *)
(* the promise, or was overtaken.                                          *)
(***************************************************************************)
\* The caller's membership as the dependency read it.
SeatIsFresh(q) ==
  /\ role[q.user] # "NONE" /\ q.role = role[q.user] /\ q.row = row[q.user]
  /\ q.op \in OwnerOps => role[q.user] = "OWNER"

DepartureIsFresh(q) ==
  LET u == Subject(q) IN
  /\ q.pc \in {"expenses", "settlements", "commit"}
       => u \in User /\ role[u] = "MEMBER" /\ q.target = row[u]
  /\ q.pc = "drop" => Members = {q.user}

TransferIsFresh(q) ==
  q.pc \in {"found", "commit"}
    => q.arg # q.user /\ q.arg \in Members /\ q.target = row[q.arg]

ClosureIsFresh(q) ==
  /\ q.pc \in {"found", "commit"} => role[q.user] # "OWNER" \/ Members = {q.user}
  /\ q.pc = "commit" => q.solo = (role[q.user] = "OWNER")

\* What a request relies on, table by table.
TripIsFresh(q) == q.pc \in {"read", "commit"} => trip = "live"

MembersAreFresh(q) ==
  /\ q.op # "delete_account" => SeatIsFresh(q)
  /\ q.op \in Creations /\ q.pc = "commit" => NamedBy(q) \subseteq Members
  /\ q.op \in {"leave", "remove_member"} => DepartureIsFresh(q)
  /\ q.op = "transfer" => TransferIsFresh(q)
  /\ q.op = "delete_account" => ClosureIsFresh(q)

AccountIsFresh(q) == active[q.user]

LedgerIsFresh(q) ==
  /\ q.pc = "settlements" => q.read = expenses
  /\ q.pc = "commit" => Net(Subject(q), expenses, settlements) = 0

UsesAreFresh(q) ==
  /\ q.pc \in {"found", "commit"} => q.uses = invites[q.arg].uses
  /\ q.pc = "commit" => q.uses < MaxUses

IsFresh(q, overtaken) ==
  /\ "trip" \in ReliesOn(q.op) \ overtaken => TripIsFresh(q)
  /\ "members" \in ReliesOn(q.op) \ overtaken => MembersAreFresh(q)
  /\ "accounts" \in ReliesOn(q.op) \ overtaken => AccountIsFresh(q)
  /\ "ledger" \in ReliesOn(q.op) \ overtaken => LedgerIsFresh(q)
  /\ "uses" \in ReliesOn(q.op) \ overtaken => UsesAreFresh(q)

AllFresh == \A r \in Req : IsFresh(req[r], behind[r])

\* The same of the requests a step leaves, before its writes are looked at.
NextFresh == \A r \in Req : IsFresh(req'[r], behind[r])

\* The inductive invariant.
TrackInv == OwnerInv /\ MoneyInv /\ AllFresh

\* Which endpoints rely on which table.
LEMMA ReliesOnIs ==
  ASSUME NEW op
  PROVE  /\ "trip" \in ReliesOn(op) <=> op \in ContentOps
         /\ "members" \in ReliesOn(op)
              <=> op \in Creations \cup {"leave", "remove_member", "transfer",
                                         "delete_trip", "delete_account"}
         /\ "accounts" \in ReliesOn(op) <=> op = "join"
         /\ "ledger" \in ReliesOn(op) <=> op \in {"leave", "remove_member"}
         /\ "uses" \in ReliesOn(op) <=> op = "join"
<1> USE DEF ContentOps, Creations, Deletions
<1>1. CASE op \in Creations
  BY <1>1 DEF ReliesOn
<1>2. CASE op \in Deletions
  BY <1>2 DEF ReliesOn
<1>3. CASE op \in {"leave", "remove_member"}
  BY <1>3 DEF ReliesOn
<1>4. CASE op \in {"transfer", "delete_trip", "delete_account"}
  BY <1>4 DEF ReliesOn
<1>5. CASE op = "join"
  BY <1>5 DEF ReliesOn
<1>6. CASE op \notin Creations \cup Deletions \cup {"leave", "remove_member", "transfer",
                                         "delete_trip", "delete_account", "join"}
  BY <1>6 DEF ReliesOn
<1> QED BY <1>1, <1>2, <1>3, <1>4, <1>5, <1>6

\* A table no step writes is the same after it.
LEMMA WrittenIs ==
  /\ "trip" \notin Written => trip' = trip
  /\ "members" \notin Written => role' = role /\ row' = row
  /\ "accounts" \notin Written => active' = active
  /\ "ledger" \notin Written => expenses' = expenses /\ settlements' = settlements
  /\ "uses" \notin Written => \A c \in Code : invites'[c].uses = invites[c].uses
BY DEF Written, Tables

LEMMA ReadersWriteNothing ==
  ASSUME UNCHANGED store
  PROVE  Written = {}
BY DEF Written, Tables, store

\* What is fresh stays so while its table stays.
LEMMA FreshStays ==
  ASSUME NEW q, NEW before, IsFresh(q, before), NEW after,
         before \subseteq after, Written \cap ReliesOn(q.op) \subseteq after,
         q.op = "join" => q.arg \in Code
  PROVE  IsFresh(q, after)'
<1>1. ASSUME "trip" \in ReliesOn(q.op) \ after PROVE TripIsFresh(q)'
  BY <1>1, WrittenIs DEF IsFresh, TripIsFresh
<1>2. ASSUME "members" \in ReliesOn(q.op) \ after PROVE MembersAreFresh(q)'
  <2>1. role' = role /\ row' = row /\ MembersAreFresh(q)
    BY <1>2, WrittenIs DEF IsFresh
  <2>2. Members' = Members
    BY <2>1 DEF Members
  <2>3. SeatIsFresh(q) => SeatIsFresh(q)'
    BY <2>1 DEF SeatIsFresh
  <2>4. DepartureIsFresh(q) => DepartureIsFresh(q)'
    BY <2>1, <2>2 DEF DepartureIsFresh
  <2>5. TransferIsFresh(q) => TransferIsFresh(q)'
    BY <2>1, <2>2 DEF TransferIsFresh
  <2>6. ClosureIsFresh(q) => ClosureIsFresh(q)'
    BY <2>1, <2>2 DEF ClosureIsFresh
  <2> QED BY <2>1, <2>2, <2>3, <2>4, <2>5, <2>6 DEF MembersAreFresh
<1>3. ASSUME "accounts" \in ReliesOn(q.op) \ after PROVE AccountIsFresh(q)'
  BY <1>3, WrittenIs DEF IsFresh, AccountIsFresh
<1>4. ASSUME "ledger" \in ReliesOn(q.op) \ after PROVE LedgerIsFresh(q)'
  BY <1>4, WrittenIs DEF IsFresh, LedgerIsFresh
<1>5. ASSUME "uses" \in ReliesOn(q.op) \ after PROVE UsesAreFresh(q)'
  <2>1. q.arg \in Code
    BY <1>5, ReliesOnIs
  <2>2. invites'[q.arg].uses = invites[q.arg].uses
    BY <1>5, <2>1, WrittenIs
  <2>3. UsesAreFresh(q)
    BY <1>5 DEF IsFresh
  <2> QED BY <2>2, <2>3 DEF UsesAreFresh
<1> QED BY <1>1, <1>2, <1>3, <1>4, <1>5 DEF IsFresh

\* A slot that is free relies on nothing.
LEMMA IdleIsFresh == \A overtaken : IsFresh(Idle, overtaken) /\ IsFresh(Idle, overtaken)'
<1>1. Idle.op = "idle"
  BY DEF Idle
<1>2. ReliesOn("idle") \cap Tables = {}
  BY ReliesOnIs DEF Tables, ContentOps, Creations, Deletions
<1> QED BY <1>1, <1>2 DEF IsFresh, Tables

\* Every step leaves the requests as fresh as behind says.
LEMMA FreshStep ==
  ASSUME TypeOK', Track, NextFresh
  PROVE  AllFresh'
<1> SUFFICES ASSUME NEW r \in Req, NEW q, NEW after, q = req'[r], after = behind'[r]
             PROVE  IsFresh(q, after)'
  BY DEF AllFresh
<1>1. CASE q = Idle
  BY <1>1, IdleIsFresh
<1>2. CASE q # Idle
  <2>1. after = behind[r] \cup (Written \cap ReliesOn(q.op))
    BY <1>2 DEF Track
  <2>2. IsRequest(req[r])'
    BY DEF TypeOK
  <2>3. q.op = "join" => q.arg \in Code
    BY <2>2, InputsAre DEF IsRequest
  <2>4. IsFresh(q, behind[r])
    BY DEF NextFresh
  <2> QED BY <2>1, <2>3, <2>4, FreshStays
<1> QED BY <1>1, <1>2

\* A step touches one request; it is enough that this one stays fresh.
LEMMA PutIsFresh ==
  ASSUME TypeOK, AllFresh, NEW r \in Req, NEW q, Become(r, q),
         IsFresh(q, behind[r])
  PROVE  NextFresh
<1>1. \A s \in Req : req'[s] = IF s = r THEN q ELSE req[s]
  BY DEF Become, TypeOK
<1> QED BY <1>1 DEF NextFresh, AllFresh

LEMMA AnswerIsFresh ==
  ASSUME TypeOK, AllFresh, NEW r \in Req, Answer(r)
  PROVE  NextFresh
BY IdleIsFresh, PutIsFresh DEF Answer

\* A check either gives up or moves on, and leaves the record otherwise alone.
LEMMA ProceedIsFresh ==
  ASSUME TypeOK, AllFresh, NEW r \in Req, NEW condition, NEW pc,
         Proceed(r, condition, pc),
         condition => IsFresh([req[r] EXCEPT !.pc = pc], behind[r])
  PROVE  NextFresh
<1>1. CASE Answer(r)
  BY <1>1, AnswerIsFresh
<1>2. CASE condition /\ Goto(r, pc)
  BY <1>2, PutIsFresh DEF Goto
<1> QED BY <1>1, <1>2 DEF Proceed

\* A request at one of its steps is typed and fresh.
LEMMA WasFresh ==
  ASSUME TypeOK, AllFresh, NEW r \in Req, NEW ops, NEW pc, At(r, ops, pc)
  PROVE  /\ IsRequest(req[r]) /\ IsFresh(req[r], behind[r])
         /\ req[r].op \in ops /\ req[r].pc = pc
BY DEF TypeOK, AllFresh, At

\* The same record with another pc.
LEMMA PcOnly ==
  ASSUME NEW q, IsRequest(q), NEW pc
  PROVE  LET p == [q EXCEPT !.pc = pc]
         IN  /\ p.op = q.op /\ p.user = q.user /\ p.arg = q.arg /\ p.role = q.role
             /\ p.row = q.row /\ p.target = q.target /\ p.uses = q.uses
             /\ p.read = q.read /\ p.solo = q.solo /\ p.pc = pc
BY DEF IsRequest, Idle

\* A request is fresh when the dependencies admit it.
LEMMA SeatedIsFresh ==
  ASSUME NEW op \in ContentOps \cup OwnerOps \cup {"leave"}, NEW u \in Members, NEW arg,
         op \in OwnerOps => role[u] = "OWNER",
         NEW pc, pc = IF op \in ContentOps THEN "writable" ELSE "read", NEW overtaken
  PROVE  IsFresh(Seated(op, u, arg, pc), overtaken)
<1> PICK q : q = Seated(op, u, arg, pc)
  OBVIOUS
<1>1. /\ q.op = op /\ q.user = u /\ q.pc = pc /\ q.role = role[u] /\ q.row = row[u]
  BY DEF Seated, Arriving, Idle
<1>2. op \notin {"join", "delete_account"} /\ (op = "leave" => op \notin OwnerOps)
  BY DEF ContentOps, Creations, Deletions, OwnerOps
<1>3. op \in ContentOps => pc = "writable"
  OBVIOUS
<1>4. op \notin ContentOps => pc = "read"
  OBVIOUS
<1>5. /\ Creations \subseteq ContentOps
      /\ ContentOps \cap {"leave", "remove_member", "transfer"} = {}
  BY DEF ContentOps, Creations, Deletions
<1>6. MembersAreFresh(q)
  <2>1. SeatIsFresh(q)
    BY <1>1 DEF SeatIsFresh, Members
  <2>2. op \in Creations => q.pc # "commit"
    BY <1>1, <1>3, <1>5
  <2>3. op \in {"leave", "remove_member"} => DepartureIsFresh(q)
    BY <1>1, <1>4, <1>5 DEF DepartureIsFresh
  <2>4. op = "transfer" => TransferIsFresh(q)
    BY <1>1, <1>4, <1>5 DEF TransferIsFresh
  <2> QED BY <1>1, <1>2, <2>1, <2>2, <2>3, <2>4 DEF MembersAreFresh
<1>7. op \in ContentOps => TripIsFresh(q)
  BY <1>1, <1>3 DEF TripIsFresh
<1>8. op \in {"leave", "remove_member"} => LedgerIsFresh(q)
  BY <1>1, <1>4, <1>5 DEF LedgerIsFresh
<1> QED BY <1>1, <1>2, <1>6, <1>7, <1>8, ReliesOnIs DEF IsFresh

LEMMA AuthorizeIsFresh ==
  ASSUME TypeOK, AllFresh, NEW r \in Req, Authorize(r)
  PROVE  NextFresh
<1>1. PICK u \in Members :
        \/ \E op \in ContentOps : \E arg \in Inputs(op) :
              Accept(r, Seated(op, u, arg, "writable"))
        \/ Accept(r, Seated("leave", u, None, "read"))
        \/ /\ role[u] = "OWNER"
           /\ \E op \in OwnerOps : \E arg \in Inputs(op) :
                 Accept(r, Seated(op, u, arg, "read"))
  BY DEF Authorize
<1>2. /\ ContentOps \cap OwnerOps = {} /\ "leave" \notin ContentOps \cup OwnerOps
  BY DEF ContentOps, Creations, Deletions, OwnerOps
<1>3. CASE \E op \in ContentOps : \E arg \in Inputs(op) :
              Accept(r, Seated(op, u, arg, "writable"))
  <2>1. PICK op, arg : op \in ContentOps /\ Accept(r, Seated(op, u, arg, "writable"))
    BY <1>3
  <2>2. IsFresh(Seated(op, u, arg, "writable"), behind[r])
    BY <1>2, <2>1, SeatedIsFresh
  <2> QED BY <2>1, <2>2, PutIsFresh DEF Accept
<1>4. CASE Accept(r, Seated("leave", u, None, "read"))
  <2>1. IsFresh(Seated("leave", u, None, "read"), behind[r])
    BY <1>2, SeatedIsFresh
  <2> QED BY <1>4, <2>1, PutIsFresh DEF Accept
<1>5. CASE /\ role[u] = "OWNER"
           /\ \E op \in OwnerOps : \E arg \in Inputs(op) :
                 Accept(r, Seated(op, u, arg, "read"))
  <2>1. PICK op, arg : op \in OwnerOps /\ Accept(r, Seated(op, u, arg, "read"))
    BY <1>5
  <2>2. IsFresh(Seated(op, u, arg, "read"), behind[r])
    BY <1>2, <1>5, <2>1, SeatedIsFresh
  <2> QED BY <2>1, <2>2, PutIsFresh DEF Accept
<1> QED BY <1>1, <1>3, <1>4, <1>5

LEMMA SignInIsFresh ==
  ASSUME TypeOK, AllFresh, NEW r \in Req, SignIn(r)
  PROVE  NextFresh
<1>1. PICK u, op, arg : /\ u \in User /\ op \in AccountOps
                       /\ Accept(r, Arriving(op, u, arg, "read"))
  BY DEF SignIn
<1>2. PICK q : q = Arriving(op, u, arg, "read")
  OBVIOUS
<1>3. q.op = op /\ q.user = u /\ q.pc = "read"
  BY <1>2 DEF Arriving, Idle
<1>4. active[u] /\ Become(r, q)
  BY <1>1, <1>2, <1>3 DEF Accept
<1>5. op = "join" => AccountIsFresh(q) /\ UsesAreFresh(q)
  BY <1>3, <1>4 DEF AccountIsFresh, UsesAreFresh
<1>6. op = "delete_account" => MembersAreFresh(q)
  BY <1>3 DEF MembersAreFresh, ClosureIsFresh, Creations
<1>7. op \in {"join", "delete_account"} /\ op \notin ContentOps
  BY <1>1 DEF AccountOps, ContentOps, Creations, Deletions
<1>8. IsFresh(q, behind[r])
  BY <1>3, <1>5, <1>6, <1>7, ReliesOnIs DEF IsFresh, ContentOps
<1> QED BY <1>4, <1>8, PutIsFresh

LEMMA EntriesAreFresh ==
  ASSUME TypeOK, AllFresh, NEW r \in Req,
         \/ CheckWritable(r) \/ CheckInsiders(r) \/ GetExpense(r) \/ CheckParties(r)
         \/ GetSettlement(r)
  PROVE  NextFresh
<1> PICK q : q = req[r]
  OBVIOUS
<1>0. \E pc : \/ At(r, ContentOps, pc) \/ At(r, {"create_expense"}, pc)
              \/ At(r, {"delete_expense"}, pc) \/ At(r, {"create_settlement"}, pc)
              \/ At(r, {"delete_settlement"}, pc)
  BY DEF CheckWritable, CheckInsiders, GetExpense, CheckParties, GetSettlement
<1>1. IsRequest(q) /\ IsFresh(q, behind[r]) /\ q.op \in ContentOps
  BY <1>0, WasFresh DEF ContentOps, Creations, Deletions
<1>2. /\ "trip" \notin behind[r] => TripIsFresh(q)
      /\ q.op \in Creations /\ "members" \notin behind[r] => SeatIsFresh(q)
  <2>1. q.op \in Creations => q.op # "delete_account"
    BY DEF Creations
  <2> QED BY <1>1, <2>1, ReliesOnIs DEF IsFresh, MembersAreFresh
<1>3. ASSUME NEW pc \in {"read", "commit"}, "trip" \notin behind[r] => trip = "live",
             q.op \in Creations /\ pc = "commit" => NamedBy(q) \subseteq Members
      PROVE  IsFresh([q EXCEPT !.pc = pc], behind[r])
  <2>1. PICK p : p = [q EXCEPT !.pc = pc]
    OBVIOUS
  <2>2. /\ p.op = q.op /\ p.user = q.user /\ p.arg = q.arg /\ p.role = q.role
        /\ p.row = q.row /\ p.pc = pc
    BY <1>1, <2>1, PcOnly
  <2>3. "trip" \notin behind[r] => TripIsFresh(p)
    BY <1>3 DEF TripIsFresh
  <2>4. /\ p.op \notin {"join", "delete_account", "leave", "remove_member", "transfer",
                        "delete_trip"}
        /\ p.op \in ContentOps
    BY <1>1, <2>2 DEF ContentOps, Creations, Deletions
  <2>5. p.op \in Creations /\ "members" \notin behind[r] => MembersAreFresh(p)
    BY <1>2, <1>3, <2>2, <2>4 DEF MembersAreFresh, SeatIsFresh, NamedBy
  <2>6. IsFresh(p, behind[r])
    BY <2>3, <2>4, <2>5, ReliesOnIs DEF IsFresh
  <2> QED BY <2>1, <2>6
<1>4. CASE CheckWritable(r)
  <2>1. trip = "live" => IsFresh([q EXCEPT !.pc = "read"], behind[r])
    BY <1>3
  <2> QED BY <1>4, <2>1, ProceedIsFresh DEF CheckWritable
<1>5. q.pc = "read" /\ "trip" \notin behind[r] => trip = "live"
  BY <1>2 DEF TripIsFresh
<1>6. CASE CheckInsiders(r)
  <2>1. q.pc = "read" /\ q.op = "create_expense"
    BY <1>6 DEF CheckInsiders, At
  <2>2. {q.arg.paid_by} \cup DOMAIN SharesFor(q.arg) \subseteq Members
          => IsFresh([q EXCEPT !.pc = "commit"], behind[r])
    BY <1>3, <1>5, <2>1 DEF NamedBy
  <2> QED BY <1>6, <2>2, ProceedIsFresh DEF CheckInsiders
<1>7. CASE CheckParties(r)
  <2>1. q.pc = "read" /\ q.op = "create_settlement"
    BY <1>7 DEF CheckParties, At
  <2>2. {q.user, q.arg.to} \subseteq Members
          => IsFresh([q EXCEPT !.pc = "commit"], behind[r])
    BY <1>3, <1>5, <2>1 DEF NamedBy
  <2> QED BY <1>7, <2>2, ProceedIsFresh DEF CheckParties
<1>8. CASE GetExpense(r) \/ GetSettlement(r)
  <2>1. q.pc = "read" /\ q.op \notin Creations
    BY <1>8 DEF GetExpense, GetSettlement, At, Creations
  <2>2. IsFresh([q EXCEPT !.pc = "commit"], behind[r])
    BY <1>3, <1>5, <2>1
  <2>3. PICK condition : Proceed(r, condition, "commit")
    BY <1>8 DEF GetExpense, GetSettlement
  <2> QED BY <2>2, <2>3, ProceedIsFresh
<1> QED BY <1>4, <1>6, <1>7, <1>8

LEMMA DeparturesAreFresh ==
  ASSUME OwnerInv, MoneyInv, AllFresh, NEW r \in Req,
         CountMembers(r) \/ FindTarget(r) \/ ReadExpenses(r) \/ EnsureSettled(r)
  PROVE  NextFresh
<1> PICK q, B : q = req[r] /\ B = behind[r]
  OBVIOUS
<1>0. TypeOK
  BY DEF OwnerInv
<1>1. IsRequest(q) /\ IsFresh(q, B) /\ q.op \in {"leave", "remove_member", "transfer"}
  BY <1>0, WasFresh DEF CountMembers, FindTarget, ReadExpenses, EnsureSettled
<1>2. q.op \notin ContentOps \cup AccountOps
  BY <1>1 DEF ContentOps, Creations, Deletions, AccountOps
<1>3. /\ "members" \notin B => SeatIsFresh(q)
      /\ "members" \notin B /\ q.op # "transfer" => DepartureIsFresh(q)
      /\ "ledger" \notin B /\ q.op # "transfer" => LedgerIsFresh(q)
  BY <1>1, <1>2, ReliesOnIs DEF IsFresh, MembersAreFresh, AccountOps
<1>4. role \in [User -> Roles] /\ q.user \in User
  BY <1>0, <1>1 DEF TypeOK, StoreTypeOK, IsRequest
<1>5. ASSUME NEW p, p.op = q.op, p.user = q.user, p.role = q.role, p.row = q.row,
             "members" \notin B /\ p.op = "transfer" => TransferIsFresh(p),
             "members" \notin B /\ p.op # "transfer" => DepartureIsFresh(p),
             "ledger" \notin B /\ p.op # "transfer" => LedgerIsFresh(p)
      PROVE  IsFresh(p, B)
  <2>1. "members" \notin B => SeatIsFresh(p)
    BY <1>3, <1>5 DEF SeatIsFresh
  <2>2. p.op \notin Creations
    BY <1>2, <1>5 DEF ContentOps
  <2>3. "members" \notin B => MembersAreFresh(p)
    BY <1>1, <1>5, <2>1, <2>2 DEF MembersAreFresh
  <2> QED BY <1>1, <1>2, <1>5, <2>3, ReliesOnIs DEF IsFresh, AccountOps
<1>6. CASE CountMembers(r)
  <2>1. q.op = "leave" /\ q.pc = "read"
    BY <1>6 DEF CountMembers, At
  <2>2. CASE Cardinality(Members) = 1
    <3>1. "members" \notin B => Members = {q.user}
      <4>1. "members" \notin B => q.user \in Members
        BY <1>3, <1>4 DEF SeatIsFresh, Members
      <4>2. IsFiniteSet(Members)
        BY FiniteAssumption, FS_Subset, Members \in SUBSET User DEF Members
      <4> QED BY <2>2, <4>1, <4>2, FS_Singleton
    <3>2. PICK p : p = [q EXCEPT !.pc = "drop"]
      OBVIOUS
    <3>3. /\ p.op = q.op /\ p.user = q.user /\ p.role = q.role /\ p.row = q.row
          /\ p.pc = "drop"
      BY <1>1, <3>2, PcOnly
    <3>4. LedgerIsFresh(p) /\ ("members" \notin B => DepartureIsFresh(p))
      BY <3>1, <3>3 DEF DepartureIsFresh, LedgerIsFresh
    <3>5. IsFresh(p, B)
      BY <1>5, <2>1, <3>3, <3>4
    <3> QED BY <1>0, <1>6, <2>2, <3>2, <3>5, PutIsFresh DEF CountMembers, Goto
  <2>3. CASE Cardinality(Members) # 1 /\ q.role = "OWNER"
    BY <1>0, <1>6, <2>3, AnswerIsFresh DEF CountMembers
  <2>4. CASE Cardinality(Members) # 1 /\ q.role # "OWNER"
    <3>1. PICK p : p = [q EXCEPT !.target = q.row, !.pc = "expenses"]
      OBVIOUS
    <3>2. /\ p.op = q.op /\ p.user = q.user /\ p.role = q.role /\ p.row = q.row
          /\ p.pc = "expenses" /\ p.target = q.row
      BY <1>1, <3>1 DEF IsRequest, Idle
    <3>3. "members" \notin B => role[q.user] = "MEMBER" /\ q.row = row[q.user]
      BY <1>3, <1>4, <2>4 DEF SeatIsFresh, Roles
    <3>4. LedgerIsFresh(p) /\ ("members" \notin B => DepartureIsFresh(p))
      BY <1>4, <2>1, <3>2, <3>3 DEF DepartureIsFresh, LedgerIsFresh, Subject
    <3>5. IsFresh(p, B)
      BY <1>5, <2>1, <3>2, <3>4
    <3> QED BY <1>0, <1>6, <2>4, <3>1, <3>5, PutIsFresh DEF CountMembers
  <2> QED BY <2>2, <2>3, <2>4
<1>7. CASE FindTarget(r)
  <2>1. q.op \in {"remove_member", "transfer"} /\ q.pc = "read" /\ q.arg \in User
    BY <1>1, <1>7, InputsAre DEF FindTarget, At, IsRequest
  <2>2. CASE role[q.arg] # "NONE" /\ q.arg # q.user
    <3>1. PICK p : p = [q EXCEPT !.target = row[q.arg],
                                 !.pc = IF q.op = "transfer" THEN "found" ELSE "expenses"]
      OBVIOUS
    <3>2. /\ p.op = q.op /\ p.user = q.user /\ p.role = q.role /\ p.row = q.row
          /\ p.arg = q.arg /\ p.target = row[q.arg]
          /\ p.pc = IF q.op = "transfer" THEN "found" ELSE "expenses"
      BY <1>1, <3>1 DEF IsRequest, Idle
    <3>3. "members" \notin B => role[q.arg] = "MEMBER"
      <4>1. "members" \notin B => role[q.user] = "OWNER"
        BY <1>3, <2>1 DEF SeatIsFresh, OwnerOps
      <4> QED BY <1>4, <2>1, <2>2, <4>1 DEF OwnerInv, AtMostOneOwner, Owners, Roles
    <3>4. "members" \notin B /\ p.op = "transfer" => TransferIsFresh(p)
      BY <2>1, <2>2, <3>2, <3>3 DEF TransferIsFresh, Members
    <3>5. "members" \notin B /\ p.op # "transfer" => DepartureIsFresh(p)
      BY <2>1, <3>2, <3>3 DEF DepartureIsFresh, Subject
    <3>6. p.op # "transfer" => LedgerIsFresh(p)
      BY <3>2 DEF LedgerIsFresh
    <3>7. IsFresh(p, B)
      BY <1>5, <3>2, <3>4, <3>5, <3>6
    <3> QED BY <1>0, <1>7, <2>2, <3>1, <3>7, PutIsFresh DEF FindTarget
  <2>3. CASE ~(role[q.arg] # "NONE" /\ q.arg # q.user)
    BY <1>0, <1>7, <2>3, AnswerIsFresh DEF FindTarget
  <2> QED BY <2>2, <2>3
<1>8. CASE ReadExpenses(r)
  <2>1. q.op \in {"leave", "remove_member"} /\ q.pc = "expenses"
    BY <1>8 DEF ReadExpenses, At
  <2>2. PICK p : p = [q EXCEPT !.read = expenses, !.pc = "settlements"]
    OBVIOUS
  <2>3. /\ p.op = q.op /\ p.user = q.user /\ p.role = q.role /\ p.row = q.row
        /\ p.arg = q.arg /\ p.target = q.target /\ p.read = expenses
        /\ p.pc = "settlements"
    BY <1>1, <2>2 DEF IsRequest, Idle
  <2>4. "members" \notin B => DepartureIsFresh(p)
    BY <1>3, <2>1, <2>3 DEF DepartureIsFresh, Subject
  <2>5. LedgerIsFresh(p)
    BY <2>3 DEF LedgerIsFresh
  <2>6. IsFresh(p, B)
    BY <1>5, <2>1, <2>3, <2>4, <2>5
  <2> QED BY <1>0, <1>8, <2>2, <2>6, PutIsFresh DEF ReadExpenses
<1>9. CASE EnsureSettled(r)
  <2>1. q.op \in {"leave", "remove_member"} /\ q.pc = "settlements"
    BY <1>9 DEF EnsureSettled, At
  <2>2. PICK p : p = [q EXCEPT !.pc = "commit"]
    OBVIOUS
  <2>3. /\ p.op = q.op /\ p.user = q.user /\ p.role = q.role /\ p.row = q.row
        /\ p.arg = q.arg /\ p.target = q.target /\ p.pc = "commit"
    BY <1>1, <2>2, PcOnly
  <2>4. "members" \notin B => DepartureIsFresh(p)
    BY <1>3, <2>1, <2>3 DEF DepartureIsFresh, Subject
  <2>5. ASSUME BalanceFor(Subject(q), Members, q.read, settlements) = 0
        PROVE  "ledger" \notin B => LedgerIsFresh(p)
    <3>1. "ledger" \notin B => q.read = expenses
      BY <1>3, <2>1 DEF LedgerIsFresh
    <3>2. "ledger" \notin B => Net(Subject(q), expenses, settlements) = 0
      BY <2>5, <3>1, BalanceForIs DEF MoneyInv
    <3>3. Subject(p) = Subject(q)
      BY <2>3 DEF Subject
    <3> QED BY <2>3, <3>2, <3>3 DEF LedgerIsFresh
  <2>6. BalanceFor(Subject(q), Members, q.read, settlements) = 0 => IsFresh(p, B)
    BY <1>5, <2>1, <2>3, <2>4, <2>5
  <2> QED BY <1>0, <1>9, <2>2, <2>6, ProceedIsFresh DEF EnsureSettled
<1> QED BY <1>6, <1>7, <1>8, <1>9

LEMMA SwapIsFresh ==
  ASSUME TypeOK, AllFresh, NEW r \in Req, CompareAndSwap(r)
  PROVE  NextFresh
<1> PICK q, B : q = req[r] /\ B = behind[r]
  OBVIOUS
<1>1. IsRequest(q) /\ IsFresh(q, B) /\ q.op = "transfer" /\ q.pc = "found"
  BY WasFresh DEF CompareAndSwap
<1>2. PICK p : p = [q EXCEPT !.pc = "commit"]
  OBVIOUS
<1>3. /\ p.op = q.op /\ p.user = q.user /\ p.role = q.role /\ p.row = q.row
      /\ p.arg = q.arg /\ p.target = q.target /\ p.pc = "commit"
  BY <1>1, <1>2, PcOnly
<1>4. "members" \notin B => MembersAreFresh(p)
  <2>1. "members" \notin B => MembersAreFresh(q)
    BY <1>1, ReliesOnIs DEF IsFresh
  <2> QED BY <1>1, <1>3, <2>1
          DEF MembersAreFresh, SeatIsFresh, TransferIsFresh, Creations
<1>5. IsFresh(p, B)
  BY <1>1, <1>3, <1>4, ReliesOnIs DEF IsFresh, ContentOps, Creations, Deletions
<1> QED BY <1>2, <1>5, ProceedIsFresh DEF CompareAndSwap

\* Requests whose record says nothing beyond the caller's seat.
LEMMA TripStepsAreFresh ==
  ASSUME TypeOK, AllFresh, NEW r \in Req, ReadTrip(r) \/ DrawCode(r) \/ FindInvite(r)
  PROVE  NextFresh
<1> PICK q, B : q = req[r] /\ B = behind[r]
  OBVIOUS
<1>1. /\ IsRequest(q) /\ IsFresh(q, B)
      /\ q.op \in {"archive", "unarchive", "delete_trip", "create_invite", "revoke_invite"}
  BY WasFresh DEF ReadTrip, DrawCode, FindInvite
<1>2. \A pc : IsFresh([q EXCEPT !.pc = pc], B)
  <2> SUFFICES ASSUME NEW pc PROVE IsFresh([q EXCEPT !.pc = pc], B)
    OBVIOUS
  <2>1. PICK p : p = [q EXCEPT !.pc = pc]
    OBVIOUS
  <2>2. p.op = q.op /\ p.user = q.user /\ p.role = q.role /\ p.row = q.row
    BY <1>1, <2>1, PcOnly
  <2>3. q.op \notin ContentOps /\ q.op \notin Creations
    BY <1>1 DEF ContentOps, Creations, Deletions
  <2>4. "members" \in ReliesOn(q.op) \ B => MembersAreFresh(p)
    BY <1>1, <2>2, <2>3 DEF IsFresh, MembersAreFresh, SeatIsFresh
  <2>5. IsFresh(p, B)
    BY <1>1, <2>2, <2>3, <2>4, ReliesOnIs DEF IsFresh
  <2> QED BY <2>1, <2>5
<1>3. PICK condition, pc : Proceed(r, condition, pc)
  BY DEF ReadTrip, DrawCode, FindInvite
<1> QED BY <1>2, <1>3, ProceedIsFresh

LEMMA JoinsAreFresh ==
  ASSUME TypeOK, AllFresh, NEW r \in Req, ReadInvite(r) \/ CheckUses(r)
  PROVE  NextFresh
<1> PICK q, B : q = req[r] /\ B = behind[r]
  OBVIOUS
<1>1. IsRequest(q) /\ IsFresh(q, B) /\ q.op = "join"
  BY WasFresh DEF ReadInvite, CheckUses
<1>2. /\ "accounts" \notin B => active[q.user]
      /\ "uses" \notin B => UsesAreFresh(q)
  BY <1>1, ReliesOnIs DEF IsFresh, AccountIsFresh
<1>3. ASSUME NEW p, p.op = "join", p.user = q.user, "uses" \notin B => UsesAreFresh(p)
      PROVE  IsFresh(p, B)
  BY <1>2, <1>3, ReliesOnIs
     DEF IsFresh, AccountIsFresh, ContentOps, Creations, Deletions
<1>4. CASE ReadInvite(r)
  <2>1. PICK p : p = [q EXCEPT !.uses = invites[q.arg].uses, !.pc = "found"]
    OBVIOUS
  <2>2. /\ p.op = q.op /\ p.user = q.user /\ p.arg = q.arg /\ p.pc = "found"
        /\ p.uses = invites[q.arg].uses
    BY <1>1, <2>1 DEF IsRequest, Idle
  <2>3. IsFresh(p, B)
    BY <1>1, <1>3, <2>2 DEF UsesAreFresh
  <2> QED BY <1>4, <2>1, <2>3, PutIsFresh, AnswerIsFresh DEF ReadInvite
<1>5. CASE CheckUses(r)
  <2>1. q.pc = "found"
    BY <1>5 DEF CheckUses, At
  <2>2. PICK p : p = [q EXCEPT !.pc = "commit"]
    OBVIOUS
  <2>3. /\ p.op = q.op /\ p.user = q.user /\ p.arg = q.arg /\ p.pc = "commit"
        /\ p.uses = q.uses
    BY <1>1, <2>2, PcOnly
  <2>4. q.uses < MaxUses => IsFresh(p, B)
    BY <1>1, <1>2, <1>3, <2>1, <2>3 DEF UsesAreFresh
  <2>5. Proceed(r, role[q.user] = "NONE" /\ q.uses < MaxUses, "commit")
    BY <1>5 DEF CheckUses
  <2> QED BY <2>2, <2>4, <2>5, ProceedIsFresh
<1> QED BY <1>4, <1>5

LEMMA ClosuresAreFresh ==
  ASSUME TypeOK, AllFresh, NEW r \in Req, OwnedWithOthers(r) \/ OwnedTrips(r)
  PROVE  NextFresh
<1> PICK q, B : q = req[r] /\ B = behind[r]
  OBVIOUS
<1>1. IsRequest(q) /\ IsFresh(q, B) /\ q.op = "delete_account"
  BY WasFresh DEF OwnedWithOthers, OwnedTrips
<1>2. "members" \notin B => ClosureIsFresh(q)
  BY <1>1, ReliesOnIs DEF IsFresh, MembersAreFresh
<1>3. ASSUME NEW p, p.op = "delete_account", "members" \notin B => ClosureIsFresh(p)
      PROVE  IsFresh(p, B)
  BY <1>3, ReliesOnIs DEF IsFresh, MembersAreFresh, ContentOps, Creations, Deletions
<1>4. CASE OwnedWithOthers(r)
  <2>1. PICK p : p = [q EXCEPT !.pc = "found"]
    OBVIOUS
  <2>2. p.op = q.op /\ p.user = q.user /\ p.pc = "found"
    BY <1>1, <2>1, PcOnly
  <2>3. role[q.user] # "OWNER" \/ Members = {q.user} => IsFresh(p, B)
    BY <1>1, <1>3, <2>2 DEF ClosureIsFresh
  <2> QED BY <1>4, <2>1, <2>3, ProceedIsFresh DEF OwnedWithOthers
<1>5. CASE OwnedTrips(r)
  <2>1. PICK p : p = [q EXCEPT !.solo = (role[q.user] = "OWNER"), !.pc = "commit"]
    OBVIOUS
  <2>2. /\ p.op = q.op /\ p.user = q.user /\ p.pc = "commit"
        /\ p.solo = (role[q.user] = "OWNER")
    BY <1>1, <2>1 DEF IsRequest, Idle
  <2>3. q.pc = "found"
    BY <1>5 DEF OwnedTrips, At
  <2>4. IsFresh(p, B)
    BY <1>1, <1>2, <1>3, <2>2, <2>3 DEF ClosureIsFresh
  <2> QED BY <1>5, <2>1, <2>4, PutIsFresh DEF OwnedTrips
<1> QED BY <1>4, <1>5

LEMMA TrackStep == TrackInv /\ [TrackedNext]_trackedVars => TrackInv'
<1> SUFFICES ASSUME TrackInv, [TrackedNext]_trackedVars PROVE TrackInv'
  OBVIOUS
<1>1. [Next]_vars /\ TypeOK
  BY DEF TrackInv, OwnerInv, TrackedNext, trackedVars
<1>2. OwnerInv' /\ MoneyInv' /\ TypeOK'
  BY <1>1, OwnerStep, MoneyStep DEF TrackInv, OwnerInv
<1>3. AllFresh /\ OwnerInv /\ MoneyInv
  BY DEF TrackInv
<1>4. CASE UNCHANGED trackedVars
  <2>1. UNCHANGED store /\ req' = req /\ behind' = behind
    BY <1>4 DEF trackedVars, vars
  <2>2. Written = {}
    BY <2>1, ReadersWriteNothing
  <2>3. \A r \in Req : req[r].op = "join" => req[r].arg \in Code
    BY <1>1, InputsAre DEF TypeOK, IsRequest
  <2>4. AllFresh'
    <3> SUFFICES ASSUME NEW r \in Req, NEW q, NEW B, q = req'[r], B = behind'[r]
                 PROVE  IsFresh(q, B)'
      BY DEF AllFresh
    <3> QED BY <1>3, <2>1, <2>2, <2>3, FreshStays DEF AllFresh
  <2> QED BY <1>2, <2>4 DEF TrackInv
<1>5. CASE TrackedNext
  <2>1. Track /\ Next
    BY <1>5 DEF TrackedNext
  <2>2. ASSUME NEW r \in Req, Dependencies(r) PROVE NextFresh
    BY <1>1, <1>3, <2>2, AuthorizeIsFresh, SignInIsFresh, EntriesAreFresh, AnswerIsFresh
       DEF Dependencies, Abort
  <2>3. ASSUME NEW r \in Req, ExpenseStep(r) PROVE NextFresh
    BY <1>1, <1>3, <2>3, EntriesAreFresh, AnswerIsFresh
       DEF ExpenseStep, CreateExpense, DeleteExpense, CreateSettlement, DeleteSettlement
  <2>4. ASSUME NEW r \in Req, MemberStep(r) PROVE NextFresh
    BY <1>1, <1>3, <2>4, DeparturesAreFresh, SwapIsFresh, AnswerIsFresh
       DEF MemberStep, RemoveMember, TransferOwnership
  <2>5. ASSUME NEW r \in Req, TripStep(r) PROVE NextFresh
    BY <1>1, <1>3, <2>5, TripStepsAreFresh, AnswerIsFresh
       DEF TripStep, UpdateTrip, DeleteTrip
  <2>6. ASSUME NEW r \in Req, InviteStep(r) PROVE NextFresh
    BY <1>1, <1>3, <2>6, TripStepsAreFresh, JoinsAreFresh, AnswerIsFresh
       DEF InviteStep, CreateInvite, RevokeInvite, JoinByCode
  <2>7. ASSUME NEW r \in Req, AccountStep(r) PROVE NextFresh
    BY <1>1, <1>3, <2>7, ClosuresAreFresh, AnswerIsFresh DEF AccountStep, DeleteAccount
  <2>8. ASSUME NEW c \in Code, ExpireInvite(c) PROVE NextFresh
    BY <1>3, <2>8 DEF ExpireInvite, NextFresh, AllFresh
  <2>9. NextFresh
    BY <2>1, <2>2, <2>3, <2>4, <2>5, <2>6, <2>7, <2>8 DEF Next
  <2> QED BY <1>2, <2>1, <2>9, FreshStep DEF TrackInv
<1> QED BY <1>4, <1>5

LEMMA TrackInit == TrackedInit => TrackInv
<1> SUFFICES ASSUME TrackedInit PROVE TrackInv
  OBVIOUS
<1>1. \A r \in Req : req[r] = Idle
  BY DEF TrackedInit, Init
<1> QED BY <1>1, OwnerInit, MoneyInit, IdleIsFresh DEF TrackedInit, TrackInv, AllFresh

-----------------------------------------------------------------------------
(***************************************************************************)
(* The commits.                                                            *)
(***************************************************************************)
\* A commit is overtaken, or what it relies on is fresh.
LEMMA OvertakenOrFresh ==
  ASSUME TrackInv, NEW r \in Req, NEW ops, NEW pc, At(r, ops, pc), Answer(r),
         "idle" \notin ops
  PROVE  /\ req[r] # Idle /\ req'[r] = Idle
         /\ IsRequest(req[r]) /\ req[r].op \in ops /\ req[r].pc = pc
         /\ "members" \in ReliesOn(req[r].op)
              => Overtaken("members") \/ MembersAreFresh(req[r])
         /\ "accounts" \in ReliesOn(req[r].op)
              => Overtaken("accounts") \/ AccountIsFresh(req[r])
         /\ "ledger" \in ReliesOn(req[r].op)
              => Overtaken("ledger") \/ LedgerIsFresh(req[r])
         /\ "trip" \in ReliesOn(req[r].op)
              => Overtaken("trip") \/ TripIsFresh(req[r])
         /\ "uses" \in ReliesOn(req[r].op)
              => Overtaken("uses") \/ UsesAreFresh(req[r])
<1>1. TypeOK /\ AllFresh /\ DOMAIN req = Req
  BY DEF TrackInv, OwnerInv, TypeOK
<1>2. IsRequest(req[r]) /\ IsFresh(req[r], behind[r]) /\ req[r].op \in ops /\ req[r].pc = pc
  BY <1>1, WasFresh
<1>3. req[r] # Idle /\ req'[r] = Idle
  BY <1>1, <1>2 DEF Answer, Become, Idle
<1>4. \A table : Overtaken(table) \/ table \notin behind[r]
  BY <1>3 DEF Overtaken
<1> QED BY <1>2, <1>3, <1>4 DEF IsFresh

\* What the commit of a departure finds.
LEMMA DepartureFinds ==
  ASSUME TrackInv, NEW r \in Req, RemoveMember(r)
  PROVE  LET u == Subject(req[r])
         IN  /\ u \in User
             /\ past' = past \/ past' = past \cup {u}
             /\ Overtaken("members") \/ (role[u] = "MEMBER" /\ req[r].target = row[u])
             /\ Overtaken("ledger") \/ Net(u, expenses, settlements) = 0
<1> PICK q, u : q = req[r] /\ u = Subject(q)
  OBVIOUS
<1>1. At(r, {"leave", "remove_member"}, "commit") /\ Answer(r)
  BY DEF RemoveMember
<1>2. /\ IsRequest(q) /\ q.op \in {"leave", "remove_member"} /\ q.pc = "commit"
      /\ "members" \in ReliesOn(q.op)
              => Overtaken("members") \/ MembersAreFresh(q)
      /\ "ledger" \in ReliesOn(q.op)
              => Overtaken("ledger") \/ LedgerIsFresh(q)
  BY <1>1, OvertakenOrFresh
<1>3. /\ Overtaken("members") \/ MembersAreFresh(q)
      /\ Overtaken("ledger") \/ LedgerIsFresh(q)
  BY <1>2, ReliesOnIs
<1>4. u \in User
  BY <1>2, InputsAre DEF Subject, IsRequest
<1>5. past' = past \/ past' = past \cup {u}
  BY DEF RemoveMember, RemoveRow
<1>6. Overtaken("members") \/ (role[u] = "MEMBER" /\ q.target = row[u])
  <2>1. MembersAreFresh(q) => DepartureIsFresh(q)
    BY <1>2 DEF MembersAreFresh
  <2>2. DepartureIsFresh(q) => role[u] = "MEMBER" /\ q.target = row[u]
    BY <1>2 DEF DepartureIsFresh
  <2> QED BY <1>3, <2>1, <2>2
<1>7. Overtaken("ledger") \/ Net(u, expenses, settlements) = 0
  BY <1>2, <1>3 DEF LedgerIsFresh
<1> QED BY <1>4, <1>5, <1>6, <1>7

\* What the commit of a closure finds.
LEMMA ClosureFinds ==
  ASSUME TrackInv, NEW r \in Req, DeleteAccount(r)
  PROVE  /\ req[r].user \in User /\ req[r] # Idle /\ req'[r] = Idle
         /\ \/ Overtaken("members")
            \/ /\ role[req[r].user] # "OWNER" \/ Members = {req[r].user}
               /\ req[r].solo = (role[req[r].user] = "OWNER")
<1> PICK q : q = req[r]
  OBVIOUS
<1>1. At(r, {"delete_account"}, "commit") /\ Answer(r)
  BY DEF DeleteAccount
<1>2. /\ IsRequest(q) /\ q.op = "delete_account" /\ q.pc = "commit"
      /\ q # Idle /\ req'[r] = Idle
      /\ "members" \in ReliesOn(q.op)
              => Overtaken("members") \/ MembersAreFresh(q)
  BY <1>1, OvertakenOrFresh
<1>3. Overtaken("members") \/ MembersAreFresh(q)
  BY <1>2, ReliesOnIs
<1> QED BY <1>2, <1>3 DEF IsRequest, MembersAreFresh, ClosureIsFresh

\* The owner is lost only by a commit the members of the trip have overtaken.
LEMMA OwnerStays ==
  ASSUME TrackInv, [TrackedNext]_trackedVars, Exists', Owners # {}, Owners' = {}
  PROVE  Overtaken("members")
<1>1. [Next]_vars /\ TypeOK /\ role \in [User -> Roles]
  BY DEF TrackInv, OwnerInv, TrackedNext, trackedVars, TypeOK, StoreTypeOK
<1>2. CASE UNCHANGED <<role, past, active>> /\ Exists' = Exists
  BY <1>2 DEF Owners
<1>3. ASSUME NEW r \in Req, RemoveMember(r) PROVE Overtaken("members")
  <2>1. role[Subject(req[r])] = "MEMBER" => Owners' = Owners
    BY <1>1, <1>3 DEF RemoveMember, RemoveRow, Owners
  <2> QED BY <1>3, <2>1, DepartureFinds
<1>4. ASSUME NEW r \in Req, TransferOwnership(r) PROVE Overtaken("members")
  <2> PICK q : q = req[r]
    OBVIOUS
  <2>1. At(r, {"transfer"}, "commit") /\ Answer(r)
    BY <1>4 DEF TransferOwnership
  <2>2. /\ IsRequest(q) /\ q.op = "transfer" /\ q.pc = "commit"
        /\ "members" \in ReliesOn(q.op)
              => Overtaken("members") \/ MembersAreFresh(q)
    BY <2>1, OvertakenOrFresh
  <2>3. Overtaken("members") \/ TransferIsFresh(q)
    BY <2>2, ReliesOnIs DEF MembersAreFresh
  <2>4. ~TransferIsFresh(q)
    <3> SUFFICES ASSUME TransferIsFresh(q) PROVE FALSE
      OBVIOUS
    <3>1. q.arg \in Members /\ q.target = row[q.arg]
      BY <2>2 DEF TransferIsFresh
    <3>2. q.arg \in User /\ LiveRow(q.arg, q.target)
      BY <3>1 DEF LiveRow, Members
    <3>3. role'[q.arg] = "OWNER"
      BY <1>4, <3>2 DEF TransferOwnership, HandOver
    <3> QED BY <3>2, <3>3 DEF Owners
  <2> QED BY <2>3, <2>4
<1>5. ASSUME NEW r \in Req, DeleteTrip(r) PROVE FALSE
  BY <1>5 DEF DeleteTrip, DropTrip, Exists
<1>6. ASSUME NEW r \in Req, JoinByCode(r) PROVE FALSE
  <2>1. req[r].user \in User
    BY <1>1 DEF TypeOK, IsRequest
  <2>2. Owners \subseteq Owners'
    BY <1>1, <1>6, <2>1 DEF JoinByCode, InsertMember, Owners
  <2> QED BY <2>2
<1>7. ASSUME NEW r \in Req, DeleteAccount(r) PROVE Overtaken("members")
  <2> PICK q : q = req[r]
    OBVIOUS
  <2>1. ~q.solo /\ role' = [role EXCEPT ![q.user] = "NONE"]
    <3>1. q.solo \in BOOLEAN
      BY <1>1 DEF TypeOK, IsRequest
    <3> QED BY <1>7, <3>1 DEF DeleteAccount, CloseAccount, DropTrip, Exists
  <2>2. role[q.user] # "OWNER" => Owners' = Owners
    BY <1>1, <2>1 DEF Owners
  <2> QED BY <1>7, <2>1, <2>2, ClosureFinds
<1> QED BY <1>1, <1>2, <1>3, <1>4, <1>5, <1>6, <1>7, OnlyTheseChangeRoles

\* Under any overlap, a trip that exists loses its owner only to a request that the
\* members of the trip have overtaken.
THEOREM OwnerIsNeverLost == TrackedSpec => OwnerIsKept
<1>1. TrackInv /\ [TrackedNext]_trackedVars
        => [Exists' /\ Owners # {} /\ Owners' = {} => Overtaken("members")]_trackedVars
  BY OwnerStays
<1> QED BY <1>1, TrackInit, TrackStep, PTL DEF TrackedSpec, OwnerIsKept

\* What the commit of a join finds.
LEMMA JoinFinds ==
  ASSUME TrackInv, NEW r \in Req, JoinByCode(r)
  PROVE  /\ req[r].user \in User /\ req[r].arg \in Code
         /\ Overtaken("accounts") \/ active[req[r].user]
         /\ Overtaken("uses") \/ invites[req[r].arg].uses < MaxUses
<1> PICK q : q = req[r]
  OBVIOUS
<1>1. At(r, {"join"}, "commit") /\ Answer(r)
  BY DEF JoinByCode
<1>2. /\ IsRequest(q) /\ q.op = "join" /\ q.pc = "commit"
      /\ "accounts" \in ReliesOn(q.op) => Overtaken("accounts") \/ AccountIsFresh(q)
      /\ "uses" \in ReliesOn(q.op) => Overtaken("uses") \/ UsesAreFresh(q)
  BY <1>1, OvertakenOrFresh
<1>3. /\ Overtaken("accounts") \/ AccountIsFresh(q)
      /\ Overtaken("uses") \/ UsesAreFresh(q)
  BY <1>2, ReliesOnIs
<1>4. q.user \in User /\ q.arg \in Code
  BY <1>2, InputsAre DEF IsRequest
<1>5. AccountIsFresh(q) => active[q.user]
  BY DEF AccountIsFresh
<1>6. UsesAreFresh(q) => invites[q.arg].uses < MaxUses
  BY <1>2 DEF UsesAreFresh
<1> QED BY <1>3, <1>4, <1>5, <1>6

LEMMA SeatsStay ==
  ASSUME TrackInv, [TrackedNext]_trackedVars
  PROVE  /\ Doubled' \subseteq Doubled \/ Overtaken("members")
         /\ Closed' \subseteq Closed \/ Overtaken("accounts")
<1> DEFINE Good == /\ Doubled' \subseteq Doubled \/ Overtaken("members")
                   /\ Closed' \subseteq Closed \/ Overtaken("accounts")
<1>1. /\ [Next]_vars /\ TypeOK /\ role \in [User -> Roles]
      /\ active \in [User -> BOOLEAN]
  BY DEF TrackInv, OwnerInv, TrackedNext, trackedVars, TypeOK, StoreTypeOK
<1>2. CASE UNCHANGED <<role, past, active>>
  BY <1>2 DEF Doubled, Closed, Members
<1>3. ASSUME NEW r \in Req, RemoveMember(r) PROVE Good
  <2> PICK u : u = Subject(req[r])
    OBVIOUS
  <2>1. active' = active /\ u \in User
    BY <1>3, DepartureFinds DEF RemoveMember, RemoveRow
  <2>2. Members' \subseteq Members
    BY <1>1, <1>3 DEF RemoveMember, RemoveRow, Members
  <2>3. ASSUME role[u] = "MEMBER", req[r].target = row[u]
        PROVE  Doubled' \subseteq Doubled
    <3>1. CASE trip = "deleted"
      BY <1>3, <3>1 DEF RemoveMember, RemoveRow, Doubled, Members
    <3>2. CASE trip # "deleted"
      <4>1. role' = [role EXCEPT ![u] = "NONE"] /\ past' = past \cup {u}
        BY <1>3, <2>3, <3>2 DEF RemoveMember, RemoveRow, LiveRow
      <4>2. u \notin Members'
        BY <1>1, <2>1, <4>1 DEF Members
      <4> QED BY <2>2, <4>1, <4>2 DEF Doubled
    <3> QED BY <3>1, <3>2
  <2> QED BY <1>3, <2>1, <2>2, <2>3, DepartureFinds DEF Closed
<1>4. ASSUME NEW r \in Req, TransferOwnership(r) PROVE Good
  <2>1. UNCHANGED <<past, active>>
    BY <1>4 DEF TransferOwnership, HandOver
  <2>2. role[req[r].user] = "OWNER"
    BY <1>4 DEF TrackInv, OwnerInv, TransferHoldsTheRole, TransferOwnership, Committing
  <2>3. Members' \subseteq Members
    BY <1>1, <1>4, <2>2 DEF TransferOwnership, HandOver, Members, LiveRow
  <2> QED BY <2>1, <2>3 DEF Doubled, Closed
<1>5. ASSUME NEW r \in Req, DeleteTrip(r) PROVE Good
  BY <1>5 DEF DeleteTrip, DropTrip, Doubled, Closed, Members
<1>6. ASSUME NEW r \in Req, JoinByCode(r) PROVE Good
  <2> PICK u : u = req[r].user
    OBVIOUS
  <2>1. CASE UNCHANGED <<role, past, active>>
    BY <1>2, <2>1
  <2>2. CASE /\ role' = [role EXCEPT ![u] = "MEMBER"] /\ past' = past \ {u}
             /\ active' = active
    <3>1. Members' \subseteq Members \cup {u}
      BY <1>1, <2>2 DEF Members
    <3>2. Doubled' \subseteq Doubled
      BY <2>2, <3>1 DEF Doubled
    <3>3. active[u] => Closed' \subseteq Closed
      BY <2>2, <3>1 DEF Closed
    <3>4. Overtaken("accounts") \/ active[u]
      BY <1>6, JoinFinds
    <3> QED BY <3>2, <3>3, <3>4
  <2> QED BY <1>6, <2>1, <2>2 DEF JoinByCode, InsertMember
<1>7. ASSUME NEW r \in Req, DeleteAccount(r) PROVE Good
  <2> PICK u : u = req[r].user
    OBVIOUS
  <2>1. u \in User
    BY <1>1 DEF TypeOK, IsRequest
  <2>2. /\ active' = [active EXCEPT ![u] = FALSE] /\ past' \subseteq past
        /\ \/ role' = [role EXCEPT ![u] = "NONE"]
           \/ role' = [v \in User |-> "NONE"]
    BY <1>7 DEF DeleteAccount, CloseAccount, DropTrip
  <2>3. Members' \subseteq Members \ {u}
    BY <1>1, <2>1, <2>2 DEF Members
  <2>4. Members \subseteq User
    BY DEF Members
  <2> QED BY <1>1, <2>2, <2>3, <2>4 DEF Doubled, Closed
<1> QED BY <1>1, <1>2, <1>3, <1>4, <1>5, <1>6, <1>7, OnlyTheseChangeRoles

\* Under any overlap, members, former members and closed accounts are confused only by
\* a departure whose subject's seat, or a join whose account, was overtaken.
THEOREM SeatsAndRecordsMatch == TrackedSpec => SeatsMatchRecords
<1>1. TrackInv /\ [TrackedNext]_trackedVars
        => [/\ Doubled' \subseteq Doubled \/ Overtaken("members")
            /\ Closed' \subseteq Closed \/ Overtaken("accounts")]_trackedVars
  BY SeatsStay
<1> QED BY <1>1, TrackInit, TrackStep, PTL DEF TrackedSpec, SeatsMatchRecords

LEMMA LimitStays ==
  ASSUME TrackInv, [TrackedNext]_trackedVars, NEW c \in Code, invites'[c].uses > MaxUses
  PROVE  invites'[c].uses = invites[c].uses \/ Overtaken("uses")
<1>1. [Next]_vars /\ TypeOK /\ invites \in [Code -> Invite] /\ MaxUses \in Nat
  BY StoreAssumption
     DEF TrackInv, OwnerInv, TrackedNext, trackedVars, TypeOK, StoreTypeOK
<1>2. CASE UsesOf' = UsesOf
  BY <1>1, <1>2, UsesTypes DEF UsesOf
<1>3. ASSUME NEW r \in Req, JoinByCode(r)
      PROVE  invites'[c].uses = invites[c].uses \/ Overtaken("uses")
  <2> PICK d : d = req[r].arg
    OBVIOUS
  <2>1. invites' = invites \/ invites' = [invites EXCEPT ![d].uses = @ + 1]
    BY <1>3 DEF JoinByCode, InsertMember
  <2>2. d \in Code /\ (Overtaken("uses") \/ invites[d].uses < MaxUses)
    BY <1>3, JoinFinds
  <2>3. invites[d].uses \in Nat /\ invites[c] \in Invite
    BY <1>1, <2>2 DEF Invite
  <2>4. CASE invites' = [invites EXCEPT ![d].uses = @ + 1]
    <3>1. c # d => invites'[c] = invites[c]
      BY <1>1, <2>4
    <3>2. invites'[d].uses = invites[d].uses + 1
      BY <1>1, <2>2, <2>4 DEF Invite
    <3>3. c = d => ~(invites[d].uses < MaxUses)
      BY <1>1, <2>3, <3>2
    <3> QED BY <2>2, <3>1, <3>3
  <2> QED BY <2>1, <2>4
<1>4. CASE \A d \in Code : invites'[d].uses = 0
  BY <1>1, <1>4
<1> QED BY <1>1, <1>2, <1>3, <1>4, OnlyJoiningCounts

\* Under any overlap, a code lets in more people than its max_uses only by a
\* redemption that others of the same codes have overtaken.
THEOREM CodesAreLimited == TrackedSpec => LimitIsKept
<1>1. TrackInv /\ [TrackedNext]_trackedVars
        => [\A c \in Code : invites'[c].uses > MaxUses
              => invites'[c].uses = invites[c].uses \/ Overtaken("uses")]_trackedVars
  BY LimitStays
<1> QED BY <1>1, TrackInit, TrackStep, PTL DEF TrackedSpec, LimitIsKept

LEMMA LeaversAreSettled ==
  ASSUME TrackInv, [TrackedNext]_trackedVars, NEW u \in past' \ past
  PROVE  Net(u, expenses, settlements) = 0 \/ Overtaken("ledger")
<1>1. [Next]_vars
  BY DEF TrackedNext, trackedVars
<1>2. ASSUME NEW r \in Req,
             TransferOwnership(r) \/ DeleteTrip(r) \/ JoinByCode(r) \/ DeleteAccount(r)
      PROVE  past' \subseteq past
  BY <1>2 DEF TransferOwnership, HandOver, DeleteTrip, DropTrip, JoinByCode,
              InsertMember, DeleteAccount, CloseAccount
<1>3. ASSUME NEW r \in Req, RemoveMember(r)
      PROVE  Net(u, expenses, settlements) = 0 \/ Overtaken("ledger")
  <2> PICK v : v = Subject(req[r])
    OBVIOUS
  <2>1. past' = past \/ past' = past \cup {v}
    BY <1>3, DepartureFinds
  <2>2. u = v
    BY <2>1
  <2> QED BY <1>3, <2>2, DepartureFinds
<1> QED BY <1>1, <1>2, <1>3, OnlyTheseChangeRoles

\* Under any overlap, somebody leaves or is removed with an open balance only when
\* entries were committed between the check and the departure.
THEOREM NobodyLeavesInDebt == TrackedSpec => DepartureIsSettled
<1>1. TrackInv /\ [TrackedNext]_trackedVars
        => [\A u \in past' \ past : Net(u, expenses, settlements) = 0
                                      \/ Overtaken("ledger")]_trackedVars
  BY LeaversAreSettled
<1> QED BY <1>1, TrackInit, TrackStep, PTL DEF TrackedSpec, DepartureIsSettled

LEMMA NewEntriesAreAmongMembers ==
  ASSUME TrackInv, [TrackedNext]_trackedVars
  PROVE  \/ Involved(expenses' \ expenses, settlements' \ settlements) \subseteq Members
         \/ Overtaken("members")
<1> DEFINE Among == Involved(expenses' \ expenses, settlements' \ settlements) \subseteq Members
<1>1. [Next]_vars
  BY DEF TrackedNext, trackedVars
<1>2. CASE Shrinks
  BY <1>2 DEF Shrinks, Involved
<1>3. ASSUME NEW r \in Req, Recording(r), Answer(r),
             \A e \in expenses' : e \in expenses \/ ExpenseNames(e) = NamedBy(req[r]),
             \A s \in settlements' :
               s \in settlements \/ SettlementNames(s) = NamedBy(req[r])
      PROVE  Among \/ Overtaken("members")
  <2>1. NamedBy(req[r]) \subseteq Members => Among
    BY <1>3 DEF Involved, ExpenseNames, SettlementNames
  <2>2. /\ req[r].op \in Creations /\ req[r].pc = "commit"
        /\ "members" \in ReliesOn(req[r].op)
              => Overtaken("members") \/ MembersAreFresh(req[r])
    <3>1. At(r, Creations, "commit") /\ "idle" \notin Creations
      BY <1>3 DEF Recording, Creations
    <3> QED BY <1>3, <3>1, OvertakenOrFresh
  <2>3. MembersAreFresh(req[r]) => NamedBy(req[r]) \subseteq Members
    BY <2>2 DEF MembersAreFresh
  <2> QED BY <2>1, <2>2, <2>3, ReliesOnIs
<1> QED BY <1>1, <1>2, <1>3, LedgerWrites

\* Under any overlap, an entry names somebody who is not a member at its commit only
\* when people came or went between its check and that commit.
THEOREM EntriesNameMembers == TrackedSpec => EntriesAmongMembers
<1>1. TrackInv /\ [TrackedNext]_trackedVars
        => [\/ Involved(expenses' \ expenses, settlements' \ settlements) \subseteq Members
            \/ Overtaken("members")]_trackedVars
  BY NewEntriesAreAmongMembers
<1> QED BY <1>1, TrackInit, TrackStep, PTL DEF TrackedSpec, EntriesAmongMembers

\* The four commits that write the ledger of a trip that stays.
LEMMA OnlyEntriesChange ==
  ASSUME [Next]_vars
  PROVE  \/ UNCHANGED <<expenses, settlements>> \/ trip' = "deleted"
         \/ \E r \in Req : At(r, ContentOps, "commit") /\ Answer(r)
<1> DEFINE Same == UNCHANGED <<expenses, settlements>>
<1>1. ASSUME NEW r \in Req, Dependencies(r) PROVE Same
  BY <1>1 DEF Dependencies, Authorize, SignIn, Accept, CheckWritable, Abort, store
<1>2. ASSUME NEW r \in Req, ExpenseStep(r) 
      PROVE  Same \/ (At(r, ContentOps, "commit") /\ Answer(r))
  BY <1>2 DEF ExpenseStep, CheckInsiders, CreateExpense, GetExpense, DeleteExpense,
              CheckParties, CreateSettlement, GetSettlement, DeleteSettlement, store,
              At, ContentOps, Creations, Deletions
<1>3. ASSUME NEW r \in Req, MemberStep(r) PROVE Same
  BY <1>3 DEF MemberStep, CountMembers, FindTarget, ReadExpenses, EnsureSettled,
              RemoveMember, RemoveRow, CompareAndSwap, TransferOwnership, HandOver, store
<1>4. ASSUME NEW r \in Req, TripStep(r) PROVE Same \/ trip' = "deleted"
  BY <1>4 DEF TripStep, ReadTrip, UpdateTrip, DeleteTrip, DropTrip, store
<1>5. ASSUME NEW r \in Req, InviteStep(r) PROVE Same
  BY <1>5 DEF InviteStep, DrawCode, CreateInvite, FindInvite, RevokeInvite, ReadInvite,
              CheckUses, JoinByCode, InsertMember, store
<1>6. ASSUME NEW r \in Req, AccountStep(r) PROVE Same \/ trip' = "deleted"
  BY <1>6 DEF AccountStep, OwnedWithOthers, OwnedTrips, DeleteAccount, CloseAccount,
              DropTrip, store
<1>7. ASSUME NEW c \in Code, ExpireInvite(c) PROVE Same
  BY <1>7 DEF ExpireInvite
<1>8. CASE UNCHANGED vars
  BY <1>8 DEF vars, store
<1> QED BY <1>1, <1>2, <1>3, <1>4, <1>5, <1>6, <1>7, <1>8 DEF Next

LEMMA ArchiveStays ==
  ASSUME TrackInv, [TrackedNext]_trackedVars, trip = "archived", trip' # "deleted"
  PROVE  UNCHANGED <<expenses, settlements>> \/ Overtaken("trip")
<1>1. [Next]_vars
  BY DEF TrackedNext, trackedVars
<1>2. ASSUME NEW r \in Req, At(r, ContentOps, "commit"), Answer(r)
      PROVE  Overtaken("trip")
  <2>1. "idle" \notin ContentOps
    BY DEF ContentOps, Creations, Deletions
  <2>2. /\ req[r].op \in ContentOps /\ req[r].pc = "commit"
        /\ "trip" \in ReliesOn(req[r].op) => Overtaken("trip") \/ TripIsFresh(req[r])
    BY <1>2, <2>1, OvertakenOrFresh
  <2>3. ~TripIsFresh(req[r])
    BY <2>2 DEF TripIsFresh
  <2> QED BY <2>2, <2>3, ReliesOnIs
<1> QED BY <1>1, <1>2, OnlyEntriesChange

\* Under any overlap, the ledger of an archived trip changes only by a request that was
\* let in before the archive.
THEOREM ArchiveIsFrozen == TrackedSpec => ArchivedIsReadOnly
<1>1. TrackInv /\ [TrackedNext]_trackedVars
        => [trip = "archived" /\ trip' # "deleted"
              => UNCHANGED <<expenses, settlements>> \/ Overtaken("trip")]_trackedVars
  BY ArchiveStays
<1> QED BY <1>1, TrackInit, TrackStep, PTL DEF TrackedSpec, ArchivedIsReadOnly

LEMMA EndersAreEntitled ==
  ASSUME TrackInv, [TrackedNext]_trackedVars, Exists, trip' = "deleted"
  PROVE  \/ Overtaken("members")
         \/ \E r \in Req : /\ req[r] # Idle /\ req'[r] = Idle
                           /\ Alone(req[r]) \/ ByOwner(req[r])
<1> DEFINE Ended(r) == /\ req[r] # Idle /\ req'[r] = Idle
                       /\ Alone(req[r]) \/ ByOwner(req[r])
<1>1. [Next]_vars
  BY DEF TrackedNext, trackedVars
<1>2. ASSUME NEW r \in Req, RemoveMember(r) \/ TransferOwnership(r) \/ JoinByCode(r)
      PROVE  FALSE
  BY <1>2 DEF RemoveMember, RemoveRow, TransferOwnership, HandOver, JoinByCode,
              InsertMember, Exists
<1>3. ASSUME NEW r \in Req, DeleteTrip(r) PROVE Overtaken("members") \/ Ended(r)
  <2> PICK q : q = req[r]
    OBVIOUS
  <2>1. At(r, {"delete_trip", "leave"}, "drop") /\ Answer(r)
    BY <1>3 DEF DeleteTrip
  <2>2. /\ q # Idle /\ req'[r] = Idle /\ q.op \in {"delete_trip", "leave"} /\ q.pc = "drop"
        /\ "members" \in ReliesOn(q.op) => Overtaken("members") \/ MembersAreFresh(q)
    BY <2>1, OvertakenOrFresh
  <2>3. Overtaken("members") \/ MembersAreFresh(q)
    BY <2>2, ReliesOnIs
  <2>4. MembersAreFresh(q) /\ q.op = "leave" => Alone(q)
    BY <2>2 DEF MembersAreFresh, DepartureIsFresh, Alone
  <2>5. MembersAreFresh(q) /\ q.op = "delete_trip" => ByOwner(q)
    BY DEF MembersAreFresh, SeatIsFresh, OwnerOps, ByOwner
  <2> QED BY <2>2, <2>3, <2>4, <2>5
<1>4. ASSUME NEW r \in Req, DeleteAccount(r) PROVE Overtaken("members") \/ Ended(r)
  <2>1. req[r].solo
    BY <1>4 DEF DeleteAccount, CloseAccount, Exists
  <2>2. Members = {req[r].user} => Alone(req[r])
    BY DEF Alone
  <2> QED BY <1>4, <2>1, <2>2, ClosureFinds
<1> QED BY <1>1, <1>2, <1>3, <1>4, OnlyTheseChangeRoles DEF Exists

\* Under any overlap, a trip disappears by its owner's DELETE or with the last person
\* in it, unless the members changed while the request that deletes it was under way.
THEOREM TripsEndWithTheirPeople == TrackedSpec => TripsGoWithTheirPeople
<1>1. TrackInv /\ [TrackedNext]_trackedVars
        => [Exists /\ trip' = "deleted"
              => \/ Overtaken("members")
                 \/ \E r \in Req : /\ req[r] # Idle /\ req'[r] = Idle
                                   /\ Alone(req[r]) \/ ByOwner(req[r])]_trackedVars
  BY EndersAreEntitled
<1> QED BY <1>1, TrackInit, TrackStep, PTL DEF TrackedSpec, TripsGoWithTheirPeople
=============================================================================
