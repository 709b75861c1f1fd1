---------------------------- MODULE SlidingWindow ----------------------------
(***************************************************************************)
(* What a rate limiter promises: in every bucket, a request is admitted if *)
(* and only if fewer than Limit were admitted in the window that ends now. *)
(* It remembers everything and drops nothing.                              *)
(***************************************************************************)
EXTENDS Integers, Sequences, FiniteSets

CONSTANTS
  Bucket,  \* what requests are counted against
  Limit,   \* requests per window, of each bucket; not 0
  Window   \* length of the window, of each bucket

VARIABLES
  now,     \* the monotonic clock
  log,     \* the times of all admissions, bucket by bucket
  verdict  \* the last decision: a bucket and whether it admitted

vars == <<now, log, verdict>>

Recent(b) == {i \in 1..Len(log[b]) : log[b][i] > now - Window[b]}

Init == /\ now \in Nat /\ log = [b \in Bucket |-> <<>>] /\ verdict = <<>>

Admit(b) ==
  /\ Cardinality(Recent(b)) < Limit[b]
  /\ log' = [log EXCEPT ![b] = Append(@, now)]
  /\ verdict' = <<b, TRUE>>
  /\ UNCHANGED now

Refuse(b) ==
  /\ Cardinality(Recent(b)) >= Limit[b]
  /\ verdict' = <<b, FALSE>>
  /\ UNCHANGED <<now, log>>

Pass == now' \in Nat /\ now' > now /\ UNCHANGED <<log, verdict>>

Next == Pass \/ \E b \in Bucket : Admit(b) \/ Refuse(b)

Spec == Init /\ [][Next]_vars

\* No stretch of time as long as the window sees more than Limit admissions.
NeverTooMany ==
  \A b \in Bucket : \A i \in 1..Len(log[b]) :
    i + Limit[b] <= Len(log[b]) => log[b][i + Limit[b]] >= log[b][i] + Window[b]
=============================================================================
