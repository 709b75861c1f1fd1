---------------------------- MODULE TripOverlaps ----------------------------
(***************************************************************************)
(* What is left, under any overlap of requests, of the promises a handler  *)
(* keeps by checking first and writing later.                              *)
(*                                                                         *)
(* The code takes no lock between the two, so none of these promises holds *)
(* of every behaviour.  Each holds of every commit that was not overtaken: *)
(* nobody else has committed to the tables the promise is about since the  *)
(* request was let in.  A history variable says who was; it restricts      *)
(* nothing.                                                                *)
(***************************************************************************)
EXTENDS TripProperties

VARIABLE behind  \* per request, the tables others have written while it was in flight

trackedVars == <<vars, behind>>

Tables == {"trip", "members", "accounts", "ledger", "uses"}

\* The tables an endpoint looks at before it writes.
ReliesOn(op) ==
  CASE op \in Creations -> {"trip", "members"}
    [] op \in Deletions -> {"trip"}
    [] op \in {"leave", "remove_member"} -> {"members", "ledger"}
    [] op \in {"transfer", "delete_trip", "delete_account"} -> {"members"}
    [] op = "join" -> {"accounts", "uses"}
    [] OTHER -> {}

\* What a step writes.  Of the invites only the counts matter here.
Written ==
  {t \in Tables :
     CASE t = "trip"     -> trip' # trip
       [] t = "members"  -> <<role, row>>' # <<role, row>>
       [] t = "accounts" -> active' # active
       [] t = "ledger"   -> <<expenses, settlements>>' # <<expenses, settlements>>
       [] t = "uses"     -> \E c \in Code : invites'[c].uses # invites[c].uses}

\* Whoever writes is answered in the same step, so only others fall behind.
Track == behind' = [r \in Req |-> IF req'[r] = Idle THEN {}
                                  ELSE behind[r] \cup (Written \cap ReliesOn(req'[r].op))]

TrackedInit == Init /\ behind = [r \in Req |-> {}]
TrackedNext == Next /\ Track
TrackedSpec == TrackedInit /\ [][TrackedNext]_trackedVars

\* This step answers a request that others' writes to a table have overtaken.
Overtaken(table) ==
  \E r \in Req : req[r] # Idle /\ req'[r] = Idle /\ table \in behind[r]

-----------------------------------------------------------------------------
\* A trip that exists keeps an owner (trip_errors.OwnerMustTransfer): it is lost only
\* to a transfer, a departure or a closure whose members have changed since it was let
\* in (the role trusted by leave_trip, the row id trusted by transfer_ownership).
OwnerIsKept ==
  [][Exists' /\ Owners # {} /\ Owners' = {} => Overtaken("members")]_trackedVars

\* Nobody becomes member and former member at once, nor a member with a closed account,
\* but through a departure whose subject's seat, or a join whose account, has changed
\* meanwhile (join_by_code, remove_member, delete_account).
Doubled == Members \cap past
Closed  == {u \in Members : ~active[u]}
SeatsMatchRecords ==
  [][/\ Doubled' \subseteq Doubled \/ Overtaken("members")
     /\ Closed' \subseteq Closed \/ Overtaken("accounts")]_trackedVars

\* invites.max_uses bounds the people a code lets in: only a redemption overtaken by
\* another one goes past it.
LimitIsKept ==
  [][\A c \in Code : invites'[c].uses > MaxUses
       => invites'[c].uses = invites[c].uses \/ Overtaken("uses")]_trackedVars

\* Whoever becomes a former member has a zero balance at that moment (_ensure_settled
\* before remove_member), or the ledger was written while the request was under way.
DepartureIsSettled ==
  [][\A u \in past' \ past :
       Net(u, expenses, settlements) = 0 \/ Overtaken("ledger")]_trackedVars

\* A new expense or repayment names members only (NotAllMembers), or people came or
\* went while it was under way.
EntriesAmongMembers ==
  [][\/ Involved(expenses' \ expenses, settlements' \ settlements) \subseteq Members
     \/ Overtaken("members")]_trackedVars

\* Nothing is added to or taken from the ledger of an archived trip (Writable) but by
\* a request that was let in before the trip was archived; deleting the trip as a whole
\* remains possible.
ArchivedIsReadOnly ==
  [][trip = "archived" /\ trip' # "deleted"
       => UNCHANGED <<expenses, settlements>> \/ Overtaken("trip")]_trackedVars

\* A trip disappears by its owner's DELETE or with the last person in it (leave_trip,
\* delete_account), unless the members, or who of them owns it, changed while the request
\* that deletes it was under way.
Alone(q)  == Members \subseteq {q.user}
ByOwner(q) == q.op = "delete_trip" /\ role[q.user] = "OWNER"
TripsGoWithTheirPeople ==
  [][Exists /\ trip' = "deleted"
       => \/ Overtaken("members")
          \/ \E r \in Req : /\ req[r] # Idle /\ req'[r] = Idle
                            /\ Alone(req[r]) \/ ByOwner(req[r])]_trackedVars
=============================================================================
