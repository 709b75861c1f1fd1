---------------------------- MODULE TripRequests ----------------------------
(***************************************************************************)
(* The HTTP requests about one trip, each a sequence of database round     *)
(* trips that interleaves with every other request in flight.              *)
(*                                                                         *)
(* A request first passes its dependencies (dependencies.py: the account   *)
(* is active, the caller has a membership row, owns the trip, the trip is  *)
(* not archived), then its service function reads what it needs, and then  *)
(* commits one transaction.  What a step reads stays in the request's      *)
(* record, as it stays in the Python objects of the session, and may be    *)
(* stale by the time a later step relies on it.  An answer of any status   *)
(* frees the slot.                                                         *)
(***************************************************************************)
EXTENDS TripStore

VARIABLE req

vars == <<store, req>>

\* Endpoints behind Writable, behind Ownership, behind Membership, and the two
\* that only ask for a signed-in account.
Creations  == {"create_expense", "create_settlement"}
Deletions  == {"delete_expense", "delete_settlement"}
ContentOps == Creations \cup Deletions
OwnerOps   == {"remove_member", "transfer", "archive", "unarchive",
               "delete_trip", "create_invite", "revoke_invite"}
AccountOps == {"join", "delete_account"}
AllOps     == ContentOps \cup OwnerOps \cup AccountOps \cup {"leave"}

ASSUME OpsAssumption == Ops \subseteq AllOps

Steps == {"writable", "read", "found", "expenses", "settlements",
          "commit", "drop"}

None == 0
Inputs(op) ==
  CASE op = "create_expense" -> Bills
    [] op = "create_settlement" -> [to : User, amount : Amounts]
    [] op \in Deletions -> 1..MaxEntries
    [] op \in {"remove_member", "transfer"} -> User
    [] op \in {"join", "create_invite", "revoke_invite"} -> Code
    [] OTHER -> {None}

(***************************************************************************)
(*   role, row   the caller's membership as the dependency read it         *)
(*   target      id of the membership row the service is to change         *)
(*   uses        invites.uses_count as join_by_code read it                *)
(*   read        the expense rows the balance check has fetched            *)
(*   solo        delete_account's second query found this trip             *)
(***************************************************************************)
Idle == [op |-> "idle", pc |-> "idle", user |-> Founder, arg |-> None,
         role |-> "NONE", row |-> 0, target |-> 0, uses |-> 0, read |-> {},
         solo |-> FALSE]

IsRequest(q) ==
  /\ DOMAIN q = DOMAIN Idle
  /\ q.op \in Ops \cup {"idle"}
  /\ q.pc \in Steps \cup {"idle"}
  /\ q.user \in User
  /\ q.op # "idle" => q.arg \in Inputs(q.op)
  /\ q.role \in Roles
  /\ q.row \in Nat /\ q.target \in Nat /\ q.uses \in Nat
  /\ \A e \in q.read : IsExpense(e)
  /\ q.solo \in BOOLEAN

TypeOK ==
  /\ StoreTypeOK
  /\ DOMAIN req = Req
  /\ \A r \in Req : IsRequest(req[r])

At(r, ops, pc) == req[r].op \in ops /\ req[r].pc = pc
Become(r, q)   == req' = [req EXCEPT ![r] = q]
Goto(r, pc)    == Become(r, [req[r] EXCEPT !.pc = pc])
Answer(r)      == Become(r, Idle)
Proceed(r, condition, pc) == IF condition THEN Goto(r, pc) ELSE Answer(r)

\* The person whose membership a leave, a removal or a transfer is about.
Subject(q) == IF q.op = "leave" THEN q.user ELSE q.arg

\* Mutant of Locked: the compare-and-swap is a plain SELECT.
NeverLocked(u) == FALSE

\* transfer_ownership holds the caller's row locked between its two UPDATEs;
\* every other write to that row waits for the commit.
Locked(u) == \E r \in Req : At(r, {"transfer"}, "commit") /\ req[r].user = u

-----------------------------------------------------------------------------
(***************************************************************************)
(* A request arrives.  Its dependencies run before anything else and a     *)
(* caller they refuse leaves no trace, so arriving and being let in are    *)
(* one step: get_current_user, get_membership, get_ownership.              *)
(*                                                                         *)
(* Bounds: entries recorded (MaxEntries) and rows inserted per person      *)
(* (MaxRows).                                                              *)
(***************************************************************************)
InFlight(ops) == {q \in Req : req[q].op \in ops}

WithinBounds(q) ==
  /\ q.op \in Creations => issued + Cardinality(InFlight(Creations)) < MaxEntries
  /\ q.op \in Deletions => q.arg <= issued
  /\ q.op = "join"       => row[q.user] < MaxRows

Accept(r, q) ==
  /\ req[r] = Idle /\ q.op \in Ops
  /\ active[q.user] /\ WithinBounds(q)
  /\ Become(r, q)
  /\ UNCHANGED store

Arriving(op, u, arg, pc) ==
  [Idle EXCEPT !.op = op, !.user = u, !.arg = arg, !.pc = pc]
Seated(op, u, arg, pc) ==
  [Arriving(op, u, arg, pc) EXCEPT !.role = role[u], !.row = row[u]]

Authorize(r) ==
  \E u \in Members :
    \/ \E op \in ContentOps : \E arg \in Inputs(op) :
          Accept(r, Seated(op, u, arg, "writable"))
    \/ Accept(r, Seated("leave", u, None, "read"))
    \/ /\ role[u] = "OWNER"
       /\ \E op \in OwnerOps : \E arg \in Inputs(op) :
             Accept(r, Seated(op, u, arg, "read"))

SignIn(r) ==
  \E u \in User, op \in AccountOps : \E arg \in Inputs(op) :
    Accept(r, Arriving(op, u, arg, "read"))

(***************************************************************************)
(* The connection drops, the process restarts, or Postgres breaks a        *)
(* deadlock: the session rolls back and the request is over.               *)
(***************************************************************************)
Abort(r) ==
  /\ req[r] # Idle
  /\ Answer(r)
  /\ UNCHANGED store

\* Mutant of CheckWritable: the archive is not looked at.
CheckWritableForgetsArchive(r) ==
  /\ At(r, ContentOps, "writable")
  /\ Proceed(r, trip # "deleted", "read")
  /\ UNCHANGED store

\* get_writable_membership: the trip still exists and is not archived.
CheckWritable(r) ==
  /\ At(r, ContentOps, "writable")
  /\ Proceed(r, trip = "live", "read")
  /\ UNCHANGED store

-----------------------------------------------------------------------------
(***************************************************************************)
(* expense_service.                                                        *)
(***************************************************************************)
SharesFor(b) == IF b.shares # NoShares THEN b.shares
                ELSE SplitEvenly(b.amount, b.participants, b.paid_by)

\* Mutant of CheckInsiders: only the payer has to be a member.
CheckPayerOnly(r) ==
  LET b == req[r].arg IN
  /\ At(r, {"create_expense"}, "read")
  /\ Proceed(r, b.paid_by \in Members, "commit")
  /\ UNCHANGED store

CheckInsiders(r) ==
  LET b == req[r].arg IN
  /\ At(r, {"create_expense"}, "read")
  /\ Proceed(r, {b.paid_by} \cup DOMAIN SharesFor(b) \subseteq Members, "commit")
  /\ UNCHANGED store

CreateExpense(r) ==
  LET b == req[r].arg IN
  /\ At(r, {"create_expense"}, "commit")
  /\ InsertExpense([id |-> issued + 1, paid_by |-> b.paid_by,
                    amount |-> b.amount, shares |-> SharesFor(b)])
  /\ Answer(r)

GetExpense(r) ==
  /\ At(r, {"delete_expense"}, "read")
  /\ Proceed(r, \E e \in expenses : e.id = req[r].arg, "commit")
  /\ UNCHANGED store

\* Deleting a row that is already gone matches nothing and only warns.
DeleteExpense(r) ==
  /\ At(r, {"delete_expense"}, "commit")
  /\ expenses' = {e \in expenses : e.id # req[r].arg}
  /\ Answer(r)
  /\ UNCHANGED <<trip, role, row, past, active, settlements, issued, invites>>

CheckParties(r) ==
  LET q == req[r] IN
  /\ At(r, {"create_settlement"}, "read")
  /\ Proceed(r, q.user # q.arg.to /\ {q.user, q.arg.to} \subseteq Members, "commit")
  /\ UNCHANGED store

CreateSettlement(r) ==
  LET q == req[r] IN
  /\ At(r, {"create_settlement"}, "commit")
  /\ InsertSettlement([id |-> issued + 1, from |-> q.user,
                       to |-> q.arg.to, amount |-> q.arg.amount])
  /\ Answer(r)

\* get_settlement, and delete_settlement's check that the caller is the sender.
GetSettlement(r) ==
  LET q == req[r] IN
  /\ At(r, {"delete_settlement"}, "read")
  /\ Proceed(r, \E s \in settlements : s.id = q.arg /\ s.from = q.user, "commit")
  /\ UNCHANGED store

DeleteSettlement(r) ==
  /\ At(r, {"delete_settlement"}, "commit")
  /\ settlements' = {s \in settlements : s.id # req[r].arg}
  /\ Answer(r)
  /\ UNCHANGED <<trip, role, row, past, active, expenses, issued, invites>>

-----------------------------------------------------------------------------
(***************************************************************************)
(* member_service.                                                         *)
(***************************************************************************)
\* Mutant of CountMembers: an owner leaves like anybody else.
CountMembersLetsOwnersGo(r) ==
  LET q == req[r] IN
  /\ At(r, {"leave"}, "read")
  /\ IF Cardinality(Members) = 1 THEN Goto(r, "drop")
     ELSE Become(r, [q EXCEPT !.target = q.row, !.pc = "expenses"])
  /\ UNCHANGED store

\* leave_trip: being the last one is checked before anything else.
CountMembers(r) ==
  LET q == req[r] IN
  /\ At(r, {"leave"}, "read")
  /\ IF Cardinality(Members) = 1 THEN Goto(r, "drop")
     ELSE IF q.role = "OWNER" THEN Answer(r)
     ELSE Become(r, [q EXCEPT !.target = q.row, !.pc = "expenses"])
  /\ UNCHANGED store

\* The router's get_membership for the person named in the path; the owner may
\* not remove himself, and handing over to himself is a no-op.
FindTarget(r) ==
  LET q == req[r] IN
  /\ At(r, {"remove_member", "transfer"}, "read")
  /\ IF role[q.arg] # "NONE" /\ q.arg # q.user
     THEN Become(r, [q EXCEPT !.target = row[q.arg],
                              !.pc = IF q.op = "transfer" THEN "found"
                                     ELSE "expenses"])
     ELSE Answer(r)
  /\ UNCHANGED store

\* _ensure_settled reads the expenses, then the settlements, and nets them.
ReadExpenses(r) ==
  /\ At(r, {"leave", "remove_member"}, "expenses")
  /\ Become(r, [req[r] EXCEPT !.read = expenses, !.pc = "settlements"])
  /\ UNCHANGED store

\* Mutant of EnsureSettled: only a debt keeps somebody in.
EnsureNoDebt(r) ==
  LET q == req[r] IN
  /\ At(r, {"leave", "remove_member"}, "settlements")
  /\ Proceed(r, BalanceFor(Subject(q), Members, q.read, settlements) >= 0, "commit")
  /\ UNCHANGED store

EnsureSettled(r) ==
  LET q == req[r] IN
  /\ At(r, {"leave", "remove_member"}, "settlements")
  /\ Proceed(r, BalanceFor(Subject(q), Members, q.read, settlements) = 0, "commit")
  /\ UNCHANGED store

RemoveMember(r) ==
  LET q == req[r] IN
  /\ At(r, {"leave", "remove_member"}, "commit")
  /\ ~Locked(Subject(q))
  /\ RemoveRow(Subject(q), q.target)
  /\ Answer(r)

\* Mutant of StillOwner: the UPDATE's WHERE names the row but not the role.
StillThere(q) == LiveRow(q.user, q.row)

\* UPDATE ... WHERE id = owner.id AND role = OWNER; no row, no longer the owner.
StillOwner(q) == LiveRow(q.user, q.row) /\ role[q.user] = "OWNER"

CompareAndSwap(r) ==
  LET q == req[r] IN
  /\ At(r, {"transfer"}, "found")
  /\ ~Locked(q.user)
  /\ Proceed(r, StillOwner(q), "commit")
  /\ UNCHANGED store

TransferOwnership(r) ==
  LET q == req[r] IN
  /\ At(r, {"transfer"}, "commit")
  /\ ~Locked(q.arg)
  /\ HandOver(q.user, q.arg, q.target)
  /\ Answer(r)

-----------------------------------------------------------------------------
(***************************************************************************)
(* trip_service: archiving, reviving and deleting the trip.                *)
(***************************************************************************)
\* update_trip changes archived_at only when the row it read says otherwise.
ReadTrip(r) ==
  LET q == req[r] IN
  /\ At(r, {"archive", "unarchive", "delete_trip"}, "read")
  /\ CASE q.op = "archive"   -> Proceed(r, trip = "live", "commit")
       [] q.op = "unarchive" -> Proceed(r, trip = "archived", "commit")
       [] OTHER              -> Proceed(r, trip # "deleted", "drop")
  /\ UNCHANGED store

\* Updating a row that is gone fails and rolls back.
UpdateTrip(r) ==
  /\ At(r, {"archive", "unarchive"}, "commit")
  /\ trip' = IF trip = "deleted" THEN trip
             ELSE IF req[r].op = "archive" THEN "archived" ELSE "live"
  /\ Answer(r)
  /\ UNCHANGED <<role, row, past, active, expenses, settlements, issued, invites>>

\* Reached by the owner's DELETE and by the leave of the last member.
DeleteTrip(r) ==
  /\ At(r, {"delete_trip", "leave"}, "drop")
  /\ \A u \in User : ~Locked(u)
  /\ DropTrip
  /\ Answer(r)
  /\ UNCHANGED active

-----------------------------------------------------------------------------
(***************************************************************************)
(* invite_service.                                                         *)
(***************************************************************************)
\* create_invite draws codes until one is free.
DrawCode(r) ==
  /\ At(r, {"create_invite"}, "read")
  /\ Proceed(r, invites[req[r].arg] = Unminted, "commit")
  /\ UNCHANGED store

CreateInvite(r) ==
  LET c == req[r].arg IN
  /\ At(r, {"create_invite"}, "commit")
  /\ invites' = IF trip # "deleted" /\ invites[c] = Unminted
                THEN [invites EXCEPT ![c].status = "open"] ELSE invites
  /\ Answer(r)
  /\ UNCHANGED <<trip, role, row, past, active, expenses, settlements, issued>>

FindInvite(r) ==
  /\ At(r, {"revoke_invite"}, "read")
  /\ Proceed(r, invites[req[r].arg].status \in {"open", "expired"}, "commit")
  /\ UNCHANGED store

\* Mutant of RevokeInvite: revoking gives a use back, whether or not there was one.
RevokeInviteRefunds(r) ==
  LET c == req[r].arg IN
  /\ At(r, {"revoke_invite"}, "commit")
  /\ invites' = [invites EXCEPT ![c].status = "revoked", ![c].uses = @ - 1]
  /\ Answer(r)
  /\ UNCHANGED <<trip, role, row, past, active, expenses, settlements, issued>>

RevokeInvite(r) ==
  LET c == req[r].arg IN
  /\ At(r, {"revoke_invite"}, "commit")
  /\ invites' = IF invites[c] = Unminted THEN invites
                ELSE [invites EXCEPT ![c].status = "revoked"]
  /\ Answer(r)
  /\ UNCHANGED <<trip, role, row, past, active, expenses, settlements, issued>>

\* expires_at passes.
ExpireInvite(c) ==
  /\ c \in ExpiringCode /\ invites[c].status = "open"
  /\ invites' = [invites EXCEPT ![c].status = "expired"]
  /\ UNCHANGED <<trip, role, row, past, active, expenses, settlements, issued, req>>

\* join_by_code: the code is open; the caller is not a member yet and the count
\* read with the code is below the limit; then the insert.
ReadInvite(r) ==
  LET q == req[r]  invite == invites[q.arg] IN
  /\ At(r, {"join"}, "read")
  /\ IF invite.status = "open"
     THEN Become(r, [q EXCEPT !.uses = invite.uses, !.pc = "found"])
     ELSE Answer(r)
  /\ UNCHANGED store

\* Mutant of CheckUses: the limit is one too high.
CheckUsesOffByOne(r) ==
  /\ At(r, {"join"}, "found")
  /\ Proceed(r, role[req[r].user] = "NONE" /\ req[r].uses <= MaxUses, "commit")
  /\ UNCHANGED store

CheckUses(r) ==
  /\ At(r, {"join"}, "found")
  /\ Proceed(r, role[req[r].user] = "NONE" /\ req[r].uses < MaxUses, "commit")
  /\ UNCHANGED store

\* Mutant of JoinByCode: the count read with the code is written back plus one.
JoinByCodeLosesUpdates(r) ==
  LET u == req[r].user  c == req[r].arg IN
  /\ At(r, {"join"}, "commit")
  /\ IF trip = "deleted" \/ role[u] # "NONE"
     THEN UNCHANGED store
     ELSE /\ role' = [role EXCEPT ![u] = "MEMBER"]
          /\ row' = [row EXCEPT ![u] = @ + 1]
          /\ past' = past \ {u}
          /\ invites' = [invites EXCEPT ![c].uses = req[r].uses + 1]
          /\ UNCHANGED <<trip, active, expenses, settlements, issued>>
  /\ Answer(r)

JoinByCode(r) ==
  /\ At(r, {"join"}, "commit")
  /\ InsertMember(req[r].user, req[r].arg)
  /\ Answer(r)

-----------------------------------------------------------------------------
(***************************************************************************)
(* auth_service.delete_account, as far as this trip is concerned.          *)
(***************************************************************************)
\* Mutant of OwnedWithOthers: owning a trip with others in it is no obstacle.
OwnedWithOthersIgnored(r) ==
  /\ At(r, {"delete_account"}, "read")
  /\ Goto(r, "found")
  /\ UNCHANGED store

OwnedWithOthers(r) ==
  LET u == req[r].user IN
  /\ At(r, {"delete_account"}, "read")
  /\ Proceed(r, role[u] # "OWNER" \/ Members = {u}, "found")
  /\ UNCHANGED store

OwnedTrips(r) ==
  LET q == req[r] IN
  /\ At(r, {"delete_account"}, "found")
  /\ Become(r, [q EXCEPT !.solo = (role[q.user] = "OWNER"), !.pc = "commit"])
  /\ UNCHANGED store

DeleteAccount(r) ==
  LET q == req[r] IN
  /\ At(r, {"delete_account"}, "commit")
  /\ \A u \in User : Locked(u) => ~q.solo /\ u # q.user
  /\ CloseAccount(q.user, q.solo)
  /\ Answer(r)

-----------------------------------------------------------------------------
Init == StoreInit /\ req = [r \in Req |-> Idle]

Dependencies(r) == Authorize(r) \/ SignIn(r) \/ CheckWritable(r) \/ Abort(r)
ExpenseStep(r)  == \/ CheckInsiders(r) \/ CreateExpense(r)
                   \/ GetExpense(r) \/ DeleteExpense(r)
                   \/ CheckParties(r) \/ CreateSettlement(r)
                   \/ GetSettlement(r) \/ DeleteSettlement(r)
MemberStep(r)   == \/ CountMembers(r) \/ FindTarget(r) \/ ReadExpenses(r)
                   \/ EnsureSettled(r) \/ RemoveMember(r)
                   \/ CompareAndSwap(r) \/ TransferOwnership(r)
TripStep(r)     == ReadTrip(r) \/ UpdateTrip(r) \/ DeleteTrip(r)
InviteStep(r)   == \/ DrawCode(r) \/ CreateInvite(r) \/ FindInvite(r)
                   \/ RevokeInvite(r) \/ ReadInvite(r) \/ CheckUses(r)
                   \/ JoinByCode(r)
AccountStep(r)  == OwnedWithOthers(r) \/ OwnedTrips(r) \/ DeleteAccount(r)

Next ==
  \/ \E r \in Req : \/ Dependencies(r) \/ ExpenseStep(r)
                    \/ MemberStep(r) \/ TripStep(r)
                    \/ InviteStep(r) \/ AccountStep(r)
  \/ \E c \in Code : ExpireInvite(c)

Spec == Init /\ [][Next]_vars
=============================================================================
