------------------------------ MODULE RateLimit ------------------------------
(***************************************************************************)
(* Request throttling (core/rate_limit.py) and where it is attached: a     *)
(* request passes the limiters of its router and of its endpoint one after *)
(* the other, and each check is one uninterrupted step.  A limiter keeps a *)
(* deque of admission times per key, drops those that have aged only when  *)
(* the key is asked for again, and forgets idle keys when it has too many. *)
(* One process, and time in whole units.                                   *)
(***************************************************************************)
EXTENDS Integers, Sequences, FiniteSets, SequencesExt

CONSTANTS
  Caller,        \* records: account, peer, forwarded (the trusted header's entries)
  TrustsHeader,  \* trusted_proxy_header is set
  Limiter,       \* the limiters there are
  Limit, Window, \* their settings
  Endpoint,      \* the endpoints called
  MaxKeys,       \* _MAX_KEYS
  Req,           \* request slots
  MaxNow         \* bound: the clock

\* The limiters of an endpoint in the order FastAPI resolves them: the router's first.
Chain ==
  [read      |-> <<>>,          write |-> <<"writes">>,
   invite    |-> <<"writes", "expensive">>,
   export    |-> <<"expensive">>,
   join      |-> <<"writes", "join">>,
   login     |-> <<"login">>,   change_password |-> <<"login">>,
   register  |-> <<"register">>, refresh |-> <<"refresh">>]

\* Those of signed-in callers count accounts, the others addresses.
ByAccount == {"writes", "expensive"}

ClientAddress(c) ==
  IF TrustsHeader /\ c.forwarded # <<>> THEN Last(c.forwarded) ELSE c.peer

Key(l, c) == IF l \in ByAccount THEN c.account ELSE ClientAddress(c)

Keys   == {Key(l, c) : l \in Limiter, c \in Caller}
Bucket == Limiter \X Keys

ASSUME LimiterAssumption ==
  /\ Limit \in [Limiter -> Nat \ {0}] /\ Window \in [Limiter -> Nat \ {0}]
  /\ MaxKeys \in Nat /\ MaxNow \in Nat
  /\ Endpoint \subseteq DOMAIN Chain
  /\ \A e \in Endpoint : Chain[e] \in Seq(Limiter)

VARIABLES
  now,      \* the monotonic clock
  hits,     \* the deques of all limiters, by limiter and key; a key may have none
  req,      \* requests on their way through their chain
  log,      \* ghost: the times of all admissions
  verdict   \* ghost: the last decision

vars == <<now, hits, req, log, verdict>>

Idle == [caller |-> <<>>, chain |-> <<>>]

Init ==
  /\ now = 0 /\ hits = <<>> /\ req = [r \in Req |-> Idle]
  /\ log = [b \in Bucket |-> <<>>] /\ verdict = <<>>

Arrive(r, c, e) ==
  /\ req[r] = Idle /\ Chain[e] # <<>>
  /\ req' = [req EXCEPT ![r] = [caller |-> c, chain |-> Chain[e]]]
  /\ UNCHANGED <<now, hits, log, verdict>>

-----------------------------------------------------------------------------
Deque(b) == IF b \in DOMAIN hits THEN hits[b] ELSE <<>>

\* The leading entries that are no younger than the cutoff, and what is left.
Aged(h, cutoff)    == {i \in 1..Len(h) : \A j \in 1..i : h[j] <= cutoff}
DropAged(h, cutoff) == SubSeq(h, Cardinality(Aged(h, cutoff)) + 1, Len(h))

Put(h, b, deque) == [k \in DOMAIN h \cup {b} |-> IF k = b THEN deque ELSE h[k]]

\* Mutant of IdleKey: any key whose oldest entry has aged is dropped.
OldKey(deque, cutoff) == deque = <<>> \/ deque[1] <= cutoff

IdleKey(deque, cutoff) == deque = <<>> \/ deque[Len(deque)] <= cutoff

\* _prune, of the limiter that has too many keys.
Prune(h, l, cutoff) ==
  LET gone == {b \in DOMAIN h : b[1] = l /\ IdleKey(h[b], cutoff)}
  IN [b \in DOMAIN h \ gone |-> h[b]]

Pruned(h, l, cutoff) ==
  IF Cardinality({b \in DOMAIN h : b[1] = l}) > MaxKeys THEN Prune(h, l, cutoff) ELSE h

(***************************************************************************)
(* RateLimiter.check, for the first limiter left in the chain of r.  A     *)
(* refusal ends the request; what earlier limiters counted stays counted.  *)
(***************************************************************************)
Check(r) ==
  LET l      == Head(req[r].chain)
      b      == <<l, Key(l, req[r].caller)>>
      cutoff == now - Window[l]
      left   == DropAged(Deque(b), cutoff)
  IN
  /\ req[r].chain # <<>>
  /\ \/ /\ Len(left) >= Limit[l]
        /\ hits' = Put(hits, b, left)
        /\ req' = [req EXCEPT ![r] = Idle]
        /\ verdict' = <<b, FALSE>>
        /\ UNCHANGED log
     \/ /\ Len(left) < Limit[l]
        /\ hits' = Pruned(Put(hits, b, Append(left, now)), l, cutoff)
        /\ req' = [req EXCEPT ![r].chain = Tail(@)]
        /\ verdict' = <<b, TRUE>>
        /\ log' = [log EXCEPT ![b] = Append(@, now)]
  /\ UNCHANGED now

\* Past its last limiter, a request is handled.
Handle(r) ==
  /\ req[r] # Idle /\ req[r].chain = <<>>
  /\ req' = [req EXCEPT ![r] = Idle]
  /\ UNCHANGED <<now, hits, log, verdict>>

Pass ==
  /\ now < MaxNow /\ now' = now + 1
  /\ UNCHANGED <<hits, req, log, verdict>>

Next ==
  \/ Pass
  \/ \E r \in Req : Check(r) \/ Handle(r) \/ \E c \in Caller, e \in Endpoint : Arrive(r, c, e)

Spec == Init /\ [][Next]_vars

-----------------------------------------------------------------------------
Ideal == INSTANCE SlidingWindow
  WITH Bucket <- Bucket,
       Limit  <- [b \in Bucket |-> Limit[b[1]]],
       Window <- [b \in Bucket |-> Window[b[1]]]

\* Every decision is the one a limiter that remembers everything would take: neither
\* ageing lazily nor dropping keys forgives a request or holds a forgotten one
\* against anybody, whichever limiters the other requests of a caller go through.
ImplementsWindow == Ideal!Spec

\* No stretch of time as long as a window sees more than Limit admissions.
NeverTooMany == Ideal!NeverTooMany
=============================================================================
