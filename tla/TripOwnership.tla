---------------------------- MODULE TripOwnership ----------------------------
(***************************************************************************)
(* What the membership code promises about owning a trip, whatever the     *)
(* requests in flight do to each other: the role only ever moves by being  *)
(* handed from the one owner to somebody who is in the trip at that        *)
(* moment, nobody else acquires it, and once it has lapsed it does not     *)
(* come back.                                                              *)
(*                                                                         *)
(* Lapse is part of the promise because the code allows it: a handover to  *)
(* somebody who has just left, or a departure decided before a promotion   *)
(* and committed after it.  Module TripRequests implements this            *)
(* specification; run trip_ownerless shows a Lapse happening.              *)
(***************************************************************************)
CONSTANTS User, Founder, Companion

VARIABLES open, owner, members

ownership == <<open, owner, members>>

Init ==
  /\ open = TRUE
  /\ owner = {Founder}
  /\ members = Companion \cup {Founder}

Hand(u, v) ==
  /\ owner = {u} /\ v \in members \ {u}
  /\ owner' = {v}
  /\ UNCHANGED <<open, members>>

Lapse(u) ==
  /\ owner = {u}
  /\ owner' = {}
  /\ members' \in {members, members \ {u}}
  /\ UNCHANGED open

Arrive(u) ==
  /\ open /\ u \notin members
  /\ members' = members \cup {u}
  /\ UNCHANGED <<open, owner>>

Depart(u) ==
  /\ u \in members \ owner
  /\ members' = members \ {u}
  /\ UNCHANGED <<open, owner>>

End ==
  /\ open
  /\ open' = FALSE /\ owner' = {} /\ members' = {}

Next ==
  \/ \E u, v \in User : Hand(u, v)
  \/ \E u \in User : Lapse(u) \/ Arrive(u) \/ Depart(u)
  \/ End

Spec == Init /\ [][Next]_ownership
==============================================================================
