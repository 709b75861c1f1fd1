------------------------------ MODULE TripStore ------------------------------
(***************************************************************************)
(* What the database holds about one trip, and the transactions that       *)
(* change it.  Postgres runs at READ COMMITTED, so a transaction becomes   *)
(* visible in one step, its commit: each operator below is the whole       *)
(* effect of one commit.  The reads that lead to it are separate steps, in *)
(* module TripRequests.                                                    *)
(*                                                                         *)
(* The partial unique index uq_trip_single_owner is deliberately NOT a     *)
(* guard here.  The service claims its compare-and-swap makes the index a  *)
(* mere backstop; AtMostOneOwner, checked and proved without it, is that   *)
(* claim.                                                                  *)
(***************************************************************************)
EXTENDS Balance

CONSTANTS
  User,          \* accounts
  Founder,       \* the account that created the trip
  Companion,     \* the accounts that are plain members initially
  Code,          \* invite codes that may be minted
  StandingCode,  \* the codes already minted initially
  ExpiringCode,  \* the codes minted with an expires_at
  MaxUses,       \* invites.max_uses of every code
  Req,           \* request slots: how many requests can be in flight
  Ops,           \* the kinds of requests clients send
  Bills,         \* ExpenseCreate payloads that pass the schema's validator
  Amounts,       \* settlement amounts clients send
  MaxEntries,    \* bound: expenses and settlements ever recorded
  MaxRows        \* bound: membership rows ever inserted for one person

IsShares(f) == DOMAIN f \subseteq User /\ f \in [DOMAIN f -> Nat]
NoShares == <<>> \* payload.shares is None: split evenly across participants

\* ExpenseCreate.check_split, and the repayment's amount_cents > 0.
ValidBill(b) ==
  /\ b.paid_by \in User /\ b.amount \in Nat \ {0}
  /\ b.participants \in Seq(User)
  /\ \/ b.shares = NoShares /\ Len(b.participants) > 0
     \/ b.shares # NoShares /\ IsShares(b.shares) /\ SharesTotal(b) = b.amount
  /\ \A i, j \in DOMAIN b.participants :
        b.participants[i] = b.participants[j] => i = j

ASSUME StoreAssumption ==
  /\ Founder \in User
  /\ Companion \subseteq User \ {Founder}
  /\ StandingCode \subseteq Code /\ ExpiringCode \subseteq Code
  /\ MaxUses \in Nat \ {0}
  /\ \A b \in Bills : ValidBill(b)
  /\ Amounts \subseteq Nat \ {0}
  /\ MaxEntries \in Nat /\ MaxRows \in Nat

\* Tables are finite.
ASSUME FiniteAssumption == IsFiniteSet(User) /\ IsFiniteSet(Code)

VARIABLES
  trip,         \* "live", "archived", or "deleted" once the row is gone
  role,         \* role of the trip_members row, "NONE" when there is no row
  row,          \* how many rows were ever inserted for a person: the last one's id
  past,         \* trip_past_members
  active,       \* users.is_active
  expenses,     \* expenses with their shares
  settlements,  \* settlements
  issued,       \* ids given to expenses and settlements (uuid4: never reused)
  invites       \* per code: status and uses_count

store == <<trip, role, row, past, active, expenses, settlements, issued, invites>>

Roles == {"NONE", "MEMBER", "OWNER"}
IsExpense(e) ==
  /\ DOMAIN e = {"id", "paid_by", "amount", "shares"}
  /\ e.id \in Nat /\ e.paid_by \in User /\ e.amount \in Nat /\ IsShares(e.shares)
Settlement == [id : Nat, from : User, to : User, amount : Nat]
Invite == [status : {"unminted", "open", "expired", "revoked"}, uses : Nat]
Unminted == [status |-> "unminted", uses |-> 0]

StoreTypeOK ==
  /\ trip \in {"live", "archived", "deleted"}
  /\ role \in [User -> Roles]
  /\ row \in [User -> Nat]
  /\ past \subseteq User
  /\ active \in [User -> BOOLEAN]
  /\ \A e \in expenses : IsExpense(e)
  /\ settlements \subseteq Settlement
  /\ issued \in Nat
  /\ invites \in [Code -> Invite]

Members == {u \in User : role[u] # "NONE"}
Owners  == {u \in User : role[u] = "OWNER"}
LiveRow(u, id) == role[u] # "NONE" /\ row[u] = id

(***************************************************************************)
(* create_trip commits the trip together with its owner; the companions    *)
(* and the standing codes are joins and mints that happened before.        *)
(***************************************************************************)
StoreInit ==
  /\ trip = "live"
  /\ role = [u \in User |-> IF u = Founder THEN "OWNER"
                            ELSE IF u \in Companion THEN "MEMBER" ELSE "NONE"]
  /\ row = [u \in User |-> IF u \in Companion \cup {Founder} THEN 1 ELSE 0]
  /\ past = {}
  /\ active = [u \in User |-> TRUE]
  /\ expenses = {} /\ settlements = {} /\ issued = 0
  /\ invites = [c \in Code |-> IF c \in StandingCode
                               THEN [status |-> "open", uses |-> 0] ELSE Unminted]

(***************************************************************************)
(* delete_trip: the row goes and ON DELETE CASCADE takes everything else.  *)
(***************************************************************************)
DropTrip ==
  /\ trip' = "deleted"
  /\ role' = [u \in User |-> "NONE"]
  /\ past' = {} /\ expenses' = {} /\ settlements' = {}
  /\ invites' = [c \in Code |-> Unminted]
  /\ UNCHANGED <<row, issued>>

\* Mutant of RemoveRow: no former-member row is left behind.
RemoveRowForgets(u, id) ==
  /\ role' = IF LiveRow(u, id) THEN [role EXCEPT ![u] = "NONE"] ELSE role
  /\ UNCHANGED <<trip, row, past, active, expenses, settlements, issued, invites>>

(***************************************************************************)
(* remove_member: the former row is replaced, the membership row deleted   *)
(* by id.  With the trip gone the insert's foreign key fails and nothing   *)
(* is written; with only the membership gone the DELETE matches no row and *)
(* the former row is written all the same.                                 *)
(***************************************************************************)
RemoveRow(u, id) ==
  /\ IF trip = "deleted"
     THEN UNCHANGED <<past, role>>
     ELSE /\ past' = past \cup {u}
          /\ role' = IF LiveRow(u, id) THEN [role EXCEPT ![u] = "NONE"] ELSE role
  /\ UNCHANGED <<trip, row, active, expenses, settlements, issued, invites>>

\* Mutant of HandOver: the promotion inserts the row it does not find.
HandOverUpserts(u, target, id) ==
  /\ role' = [v \in User |-> IF v = target THEN "OWNER"
                             ELSE IF v = u THEN "MEMBER" ELSE role[v]]
  /\ UNCHANGED <<trip, row, past, active, expenses, settlements, issued, invites>>

(***************************************************************************)
(* transfer_ownership's commit: the caller's row, matched and locked by    *)
(* the compare-and-swap, is demoted; the promotion matches the target's    *)
(* row by id, and nobody looks at how many rows it matched.                *)
(***************************************************************************)
HandOver(u, target, id) ==
  /\ role' = [v \in User |->
                IF v = target /\ LiveRow(target, id) THEN "OWNER"
                ELSE IF v = u THEN "MEMBER" ELSE role[v]]
  /\ UNCHANGED <<trip, row, past, active, expenses, settlements, issued, invites>>

\* Mutants of InsertMember: the former row is kept; the foreign key on the trip is
\* missing.
InsertMemberStaysFormer(u, c) ==
  /\ IF trip = "deleted" \/ role[u] # "NONE"
     THEN UNCHANGED <<role, row, invites>>
     ELSE /\ role' = [role EXCEPT ![u] = "MEMBER"]
          /\ row' = [row EXCEPT ![u] = @ + 1]
          /\ invites' = [invites EXCEPT ![c].uses = @ + 1]
  /\ UNCHANGED <<trip, past, active, expenses, settlements, issued>>

InsertMemberAnyway(u, c) ==
  /\ IF role[u] # "NONE"
     THEN UNCHANGED <<role, row, past, invites>>
     ELSE /\ role' = [role EXCEPT ![u] = "MEMBER"]
          /\ row' = [row EXCEPT ![u] = @ + 1]
          /\ past' = past \ {u}
          /\ invites' = [invites EXCEPT ![c].uses = @ + 1]
  /\ UNCHANGED <<trip, active, expenses, settlements, issued>>

(***************************************************************************)
(* join_by_code's commit.  The membership insert fails on its unique       *)
(* constraint when the person is already in, on its foreign key when the   *)
(* trip is gone; both roll the whole transaction back.                     *)
(***************************************************************************)
InsertMember(u, c) ==
  /\ IF trip = "deleted" \/ role[u] # "NONE"
     THEN UNCHANGED <<role, row, past, invites>>
     ELSE /\ role' = [role EXCEPT ![u] = "MEMBER"]
          /\ row' = [row EXCEPT ![u] = @ + 1]
          /\ past' = past \ {u}
          /\ invites' = [invites EXCEPT ![c].uses = @ + 1]
  /\ UNCHANGED <<trip, active, expenses, settlements, issued>>

\* Mutants of CloseAccount: the membership stays; what the account paid goes too.
CloseAccountKeepsSeat(u, solo) ==
  /\ IF solo /\ trip # "deleted"
     THEN DropTrip
     ELSE UNCHANGED <<trip, role, row, past, expenses, settlements, issued, invites>>
  /\ active' = [active EXCEPT ![u] = FALSE]

CloseAccountCascades(u, solo) ==
  /\ IF solo /\ trip # "deleted"
     THEN DropTrip
     ELSE /\ role' = [role EXCEPT ![u] = "NONE"]
          /\ expenses' = {e \in expenses : e.paid_by # u}
          /\ UNCHANGED <<trip, row, past, settlements, issued, invites>>
  /\ active' = [active EXCEPT ![u] = FALSE]

(***************************************************************************)
(* delete_account's commit.  solo is what the second query answered: the   *)
(* trip is deleted on the strength of it, whoever is in it by now.  No     *)
(* former-member row is written.                                           *)
(***************************************************************************)
CloseAccount(u, solo) ==
  /\ IF solo /\ trip # "deleted"
     THEN DropTrip
     ELSE /\ role' = [role EXCEPT ![u] = "NONE"]
          /\ UNCHANGED <<trip, row, past, expenses, settlements, issued, invites>>
  /\ active' = [active EXCEPT ![u] = FALSE]

InsertExpense(e) ==
  /\ IF trip = "deleted"
     THEN UNCHANGED <<expenses, issued>>
     ELSE expenses' = expenses \cup {e} /\ issued' = issued + 1
  /\ UNCHANGED <<trip, role, row, past, active, settlements, invites>>

InsertSettlement(s) ==
  /\ IF trip = "deleted"
     THEN UNCHANGED <<settlements, issued>>
     ELSE settlements' = settlements \cup {s} /\ issued' = issued + 1
  /\ UNCHANGED <<trip, role, row, past, active, expenses, invites>>
==============================================================================
