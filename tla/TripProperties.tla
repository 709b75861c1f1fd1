--------------------------- MODULE TripProperties ---------------------------
(***************************************************************************)
(* What should be true of one trip.  All of it holds however requests      *)
(* interleave but for two claims of the documentation, one the code breaks *)
(* by overlap and one it does not keep at all.  What a handler checks      *)
(* first and relies on later is in module TripOverlaps.                    *)
(***************************************************************************)
EXTENDS TripRequests

Exists == trip # "deleted"

-----------------------------------------------------------------------------
(***************************************************************************)
(* Under every interleaving.                                               *)
(***************************************************************************)

\* Two transfers, or a transfer and anything else, never leave two OWNER rows
\* (transfer_ownership's compare-and-swap), so the partial unique index
\* uq_trip_single_owner, which the model leaves out, never has to fire.
AtMostOneOwner == \A u, v \in Owners : u = v

\* From its compare-and-swap to its commit a transfer holds the one OWNER row:
\* no other transfer is between the two, and no departure, closing or deletion
\* takes the row away meanwhile (the row lock of transfer_ownership's UPDATE).
Committing(r) == At(r, {"transfer"}, "commit")
TransferHoldsTheRole ==
  /\ \A r \in Req : Committing(r) => role[req[r].user] = "OWNER"
  /\ \A r, s \in Req : Committing(r) /\ Committing(s) => r = s

\* A deleted trip has no members, and nothing puts one back: the joins, removals
\* and updates that were under way fail on the missing row.
DeletedIsEmpty == ~Exists => Members = {}

\* The role moves only from the sitting owner to a current member; see
\* TripOwnership.  Implemented by every handler that writes trip_members.
Ownership == INSTANCE TripOwnership
               WITH open <- Exists, owner <- Owners, members <- Members
OwnershipIsHandedOver == Ownership!Spec

\* Redeeming a code is counted once per membership row it created: concurrent
\* joins lose no count, a re-tap and a rolled back insert burn none
\* (join_by_code increments in SQL, inside the inserting transaction).
RowsInserted == MapThenSumSet(LAMBDA u : row[u], User) - Cardinality(Companion) - 1
UsesCounted  == MapThenSumSet(LAMBDA c : invites[c].uses, Code)
EveryUseIsCounted == Exists => UsesCounted = RowsInserted

\* Everybody an expense or a repayment names is a member, a former member, or a
\* closed account: the ledger never shows a person the app has lost track of
\* (remove_member's former row, join_by_code deleting it, delete_account's
\* anonymous marker).
NobodyIsForgotten ==
  \A u \in Involved(expenses, settlements) : u \in Members \cup past \/ ~active[u]

\* Joining, leaving, being removed and closing an account never change what
\* anybody owes: the money rows survive unless the trip itself is deleted.
LedgerOutlivesMembers ==
  [][<<role, past, active>>' # <<role, past, active>> /\ trip' # "deleted"
       => UNCHANGED <<expenses, settlements>>]_store

-----------------------------------------------------------------------------
(***************************************************************************)
(* Claims of the documentation that the code does not keep.                *)
(***************************************************************************)

\* trip_errors.OwnerMustTransfer: a trip always has exactly one owner.  Broken by
\* overlapping requests; OwnerIsKept in TripOverlaps says by which.
ExactlyOneOwner == Exists => Cardinality(Owners) = 1

\* export_service._people: everybody with a share in the file has a column.  Not so
\* for a closed account, even with one request at a time.
EveryShareHasAColumn ==
  \A e \in expenses : {e.paid_by} \cup DOMAIN e.shares \subseteq Members \cup past

-----------------------------------------------------------------------------
(***************************************************************************)
(* Money.                                                                  *)
(***************************************************************************)

\* No cent is lost or invented: the shares of every stored expense add up to its
\* amount, split evenly or not (split_evenly, check_split), and what some are owed is
\* exactly what others owe (compute_balances).
EveryCentIsSomebodys ==
  LET report == BalanceReport(Members, expenses, settlements)
  IN  /\ \A e \in expenses : SharesTotal(e) = e.amount
      /\ MapThenSumSet(LAMBDA u : report[u], DOMAIN report) = 0

\* The trips list and the balance report are two computations of one number
\* (balances_for_trips against get_balance_report).
SummaryAgreesWithReport ==
  \A u \in User :
    SummaryBalance(u, expenses, settlements)
      \subseteq {BalanceFor(u, Members, expenses, settlements)}
=============================================================================
