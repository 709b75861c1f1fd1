--------------------------- MODULE RealtimeProofs ---------------------------
(***************************************************************************)
(* The safety properties of Realtime, for any accounts, connections and    *)
(* requests.  All three rest on one fact about the handler: a socket is    *)
(* registered once, so what a request saw registered can only shrink.      *)
(***************************************************************************)
EXTENDS Realtime, TLAPS

(* Sockets whose handler has registered them, or has ended without.        *)
Entered ==
  {s \in Socket :
     phase[s] \in Listening \cup {"ack", "reject", "ending", "over"}}

(* What is registered entered, and its line is closed by us only on the    *)
(* way out.                                                                *)
Steady ==
  /\ registered \subseteq Entered
  /\ \A s \in Socket :
       phase[s] \in {"auth", "member", "register"} => line[s] \in {"up", "gone"}
  /\ \A s \in registered :
       /\ phase[s] \in Listening \cup {"ack"} => line[s] \in {"up", "gone"}
       /\ phase[s] = "over" => line[s] = "gone"

(* What a request still has to do covers what it owes, at every stage.     *)
Tracked(q) ==
  /\ q.left \cup q.owed \cup q.doomed \subseteq Entered
  /\ q.stage \in {"announce", "send"} =>
       q.doomed \cap registered \subseteq ToClose(q, registered)
  /\ q.stage = "announce" => q.owed \cap registered \subseteq Owed(q)
  /\ q.stage = "send"     => q.owed \cap registered \subseteq q.told \cup q.left
  /\ q.stage = "hangup"   => /\ q.doomed \cap registered \subseteq q.left
                             /\ q.owed \cap (registered \cup q.left) \subseteq q.told
  /\ q.stage = "answer"   => /\ q.left = {}
                             /\ q.owed \cap registered \subseteq q.told
  /\ q.stage \in {"answer", "done"} => q.doomed \cap registered = {}

RealtimeInv == TypeOK /\ Steady /\ \A c \in Call : Tracked(call[c])

(* A step that registers at most a newcomer, and leaves the users of what  *)
(* stays registered alone.                                                 *)
Calm ==
  /\ Entered \subseteq Entered'
  /\ registered' \cap Entered \subseteq registered
  /\ \A s \in registered \cap registered' : who'[s] = who[s]

-----------------------------------------------------------------------------
LEMMA NobodyIsAUser == Nobody \in User
  BY UserAssumption DEF Nobody

LEMMA NoRequestIsOne == NoRequest \in Request
  BY NobodyIsAUser DEF NoRequest, Request, Kinds

(* A calm step leaves every request it does not serve on track.            *)
LEMMA CalmKeepsTrack ==
  ASSUME NEW q \in Request, Tracked(q), Steady, Calm
  PROVE  Tracked(q)'
  <1>1. q.left \cup q.owed \cup q.doomed \subseteq Entered'
    BY DEF Tracked, Calm
  <1>2. /\ q.doomed \cap registered' \subseteq q.doomed \cap registered
        /\ q.owed \cap registered' \subseteq q.owed \cap registered
        /\ q.left \cap registered' \subseteq registered
    BY DEF Tracked, Calm
  <1>3. ASSUME NEW s \in q.doomed \cap registered', s \in ToClose(q, registered)
        PROVE  s \in ToClose(q, registered)'
    BY <1>2, <1>3 DEF ToClose, Calm
  <1>4. ASSUME NEW s \in q.owed \cap registered', s \in Owed(q)
        PROVE  s \in Owed(q)'
    BY <1>2, <1>4 DEF Owed, Calm
  <1>5. q.stage \in {"announce", "send"} =>
          q.doomed \cap registered' \subseteq ToClose(q, registered)'
    BY <1>2, <1>3 DEF Tracked
  <1>6. q.stage = "announce" => q.owed \cap registered' \subseteq Owed(q)'
    BY <1>2, <1>4 DEF Tracked
  <1>7. /\ q.stage = "send" => q.owed \cap registered' \subseteq q.told \cup q.left
        /\ q.stage = "hangup" =>
             /\ q.doomed \cap registered' \subseteq q.left
             /\ q.owed \cap (registered' \cup q.left) \subseteq q.told
        /\ q.stage = "answer" =>
             q.left = {} /\ q.owed \cap registered' \subseteq q.told
        /\ q.stage \in {"answer", "done"} => q.doomed \cap registered' = {}
    BY <1>2 DEF Tracked
  <1> QED
    BY <1>1, <1>5, <1>6, <1>7 DEF Tracked

-----------------------------------------------------------------------------
(* The handlers' steps                                                     *)
Phases == {"away", "reject", "ending", "over"} \cup Handshake \cup Listening
Lines  == {"none", "up", "gone", "cut"}

LEMMA SocketsKeepTypes ==
  ASSUME TypeOK, NEW s \in Socket, OfSockets(s)
  PROVE  TypeOK'
  <1>1. UNCHANGED <<committed, call>>
    BY DEF OfSockets
  <1>2. /\ fresh' \subseteq Socket /\ who' \in [Socket -> User]
        /\ line' \in [Socket -> Lines] /\ phase' \in [Socket -> Phases]
        /\ registered' \subseteq Socket
    BY NobodyIsAUser
    DEF TypeOK, OfSockets, Handler, Connect, Authenticate, FindMembership,
        Register, Acknowledge, RecheckUser, RecheckMember, Reject, Unregister,
        ReaderEnds, WatchdogFails, Expire, Disconnect, Step, Refuse, Return,
        Goto, Close, Remove, Phases, Lines, Handshake, Listening
  <1> QED
    BY <1>1, <1>2 DEF TypeOK, committed, Phases, Lines

LEMMA SocketsAreCalm ==
  ASSUME TypeOK, Steady, NEW s \in Socket, OfSockets(s)
  PROVE  Steady' /\ Calm
  <1> USE DEF TypeOK, Steady, Calm, Entered, Listening, Handshake
  <1>1. ASSUME NEW p \in Phases, Step(s, p),
               \/ p = "member" /\ phase[s] = "auth"
               \/ p = "register" /\ phase[s] = "member"
               \/ /\ p \in {"listen", "recheck", "reject", "ending"}
                  /\ phase[s] \in Listening \cup {"ack"}
               \/ p = "over" /\ phase[s] = "ack" /\ line[s] # "up"
        PROVE  Steady' /\ Calm
    BY <1>1 DEF Step, Goto
  <1>2. ASSUME Refuse(s), phase[s] \in {"auth", "member"}
        PROVE  Steady' /\ Calm
    BY <1>2 DEF Refuse, Return, Goto, Close
  <1>3. CASE \E u \in User : Connect(s, u)
    BY <1>3 DEF Connect, Goto
  <1>4. CASE Authenticate(s)
    BY <1>1, <1>2, <1>4 DEF Authenticate, Phases
  <1>5. CASE FindMembership(s)
    BY <1>1, <1>2, <1>5 DEF FindMembership, Phases
  <1>6. CASE Register(s)
    BY <1>6 DEF Register, Goto
  <1>7. CASE Acknowledge(s)
    BY <1>1, <1>7 DEF Acknowledge, Phases
  <1>8. CASE RecheckUser(s) \/ RecheckMember(s)
    BY <1>1, <1>8 DEF RecheckUser, RecheckMember, Phases
  <1>9. CASE ReaderEnds(s) \/ WatchdogFails(s)
    BY <1>1, <1>9 DEF ReaderEnds, WatchdogFails, Phases
  <1>10. CASE Reject(s)
    BY <1>10 DEF Reject, Goto, Close
  <1>11. CASE Unregister(s)
    BY <1>11 DEF Unregister, Return, Goto, Close, Remove
  <1>12. CASE Expire(s) \/ Disconnect(s)
    BY <1>12 DEF Expire, Disconnect
  <1> QED
    BY <1>3, <1>4, <1>5, <1>6, <1>7, <1>8, <1>9, <1>10, <1>11, <1>12
    DEF OfSockets, Handler

-----------------------------------------------------------------------------
(* The requests' steps                                                     *)

(* A loop that runs out of sockets goes on to the next with the request on *)
(* track.                                                                  *)
LEMMA ClosingKeepsTrack ==
  ASSUME NEW q \in Request, NEW left \in SUBSET Socket, NEW n, n = Closing(q, left)
  PROVE  /\ n \in Request /\ n.left = left
         /\ n.owed = q.owed /\ n.doomed = q.doomed /\ n.told = q.told
         /\ n.stage \in {"hangup", "answer"}
         /\ n.stage = "answer" => left = {}
  BY DEF Closing, Request

LEMMA SendingKeepsTrack ==
  ASSUME NEW q \in Request, NEW left \in SUBSET Socket, NEW reg \in SUBSET Socket,
         NEW n, n = Sending(q, left, reg),
         q.left \cup left \cup reg \cup q.owed \cup q.doomed \subseteq Entered',
         reg = registered', who' = who,
         q.doomed \cap reg \subseteq ToClose(q, reg),
         q.owed \cap reg \subseteq q.told \cup left
  PROVE  n \in Request /\ Tracked(n)'
  <1>1. CASE left # {}
    <2>1. n = [q EXCEPT !.stage = "send", !.left = left]
      BY <1>1 DEF Sending
    <2>2. /\ n \in Request /\ n.stage = "send" /\ n.left = left
          /\ n.owed = q.owed /\ n.doomed = q.doomed /\ n.told = q.told
          /\ n.kind = q.kind /\ n.target = q.target
      BY <2>1 DEF Request
    <2>3. ToClose(n, registered)' = ToClose(q, reg)
      BY <2>2 DEF ToClose
    <2> QED
      BY <2>2, <2>3 DEF Tracked
  <1>2. CASE left = {}
    <2>1. n = Closing(q, ToClose(q, reg))
      BY <1>2 DEF Sending
    <2>2. ToClose(q, reg) \subseteq reg
      BY DEF ToClose
    <2>3. /\ n \in Request /\ n.left = ToClose(q, reg)
          /\ n.owed = q.owed /\ n.doomed = q.doomed /\ n.told = q.told
          /\ n.stage \in {"hangup", "answer"}
          /\ n.stage = "answer" => ToClose(q, reg) = {}
      BY <1>2, <2>1, <2>2, ClosingKeepsTrack
    <2> QED
      BY <1>2, <2>2, <2>3 DEF Tracked
  <1> QED
    BY <1>1, <1>2

(* It is enough to look at the request that took the step.                 *)
LEMMA OneRequestAtATime ==
  ASSUME RealtimeInv, Steady', Calm,
         NEW c \in Call, NEW q \in Request, Update(c, q), Tracked(q)'
  PROVE  /\ call' \in [Call -> Request]
         /\ \A d \in Call : Tracked(call[d])'
  <1>1. call' = [call EXCEPT ![c] = q] /\ call \in [Call -> Request]
    BY DEF Update, RealtimeInv, TypeOK
  <1>2. ASSUME NEW d \in Call, d # c
        PROVE  Tracked(call[d])'
    <2>1. call'[d] = call[d] /\ call[d] \in Request /\ Tracked(call[d])
      BY <1>1, <1>2 DEF RealtimeInv
    <2>2. ASSUME NEW m \in Request, m = call[d], m = call'[d]
          PROVE  Tracked(call[d])'
      <3>1. Tracked(m)'
        BY <2>1, <2>2, CalmKeepsTrack DEF RealtimeInv
      <3> QED
        BY <2>2, <3>1 DEF Tracked, ToClose, Owed
    <2> QED
      BY <2>1, <2>2
  <1>3. Tracked(call[c])'
    <2>1. call'[c] = q
      BY <1>1
    <2> QED
      BY <2>1 DEF Tracked, ToClose, Owed
  <1> QED
    BY <1>1, <1>2, <1>3

(* Requests move no handler, and register nobody.                          *)
LEMMA QuietIsCalm ==
  ASSUME Steady, UNCHANGED <<who, phase>>, registered' \subseteq registered,
         \A s \in registered' : line'[s] = line[s],
         \A s \in Socket : phase[s] \in {"auth", "member", "register"} =>
           line'[s] = line[s]
  PROVE  Steady' /\ Calm
  BY DEF Steady, Calm, Entered

LEMMA CommittedIsOnTrack ==
  ASSUME RealtimeInv, NEW c \in Call, Committed(c), UNCHANGED sockets,
         call[c].stage = "admitted"
  PROVE  /\ call' \in [Call -> Request]
         /\ \A d \in Call : Tracked(call[d])'
  <1>1. Steady' /\ Calm
    BY QuietIsCalm DEF RealtimeInv, sockets
  <1>2. PICK q : q = [call[c] EXCEPT !.stage = "announce", !.seat = 0,
                                     !.owed = Owed(call[c]),
                                     !.doomed = ToClose(call[c], registered)]
    OBVIOUS
  <1>3. call[c] \in Request /\ Tracked(call[c]) /\ registered \subseteq Entered
    BY DEF RealtimeInv, TypeOK, Steady
  <1>4. /\ Owed(call[c]) \subseteq registered
        /\ ToClose(call[c], registered) \subseteq registered
    BY DEF Owed, ToClose
  <1>5. /\ q \in Request /\ q.stage = "announce"
        /\ q.owed = Owed(call[c]) /\ q.doomed = ToClose(call[c], registered)
        /\ q.left = call[c].left /\ q.kind = call[c].kind
        /\ q.actor = call[c].actor /\ q.target = call[c].target
    BY <1>2, <1>3, <1>4 DEF Request, RealtimeInv, TypeOK
  <1>6. Tracked(q)
    BY <1>3, <1>4, <1>5 DEF Tracked, ToClose, Owed
  <1>7. Tracked(q)'
    BY <1>1, <1>5, <1>6, CalmKeepsTrack DEF RealtimeInv
  <1>8. Update(c, q)
    BY <1>2 DEF Committed
  <1> QED
    BY <1>1, <1>5, <1>7, <1>8, OneRequestAtATime

LEMMA DoneIsOnTrack ==
  ASSUME RealtimeInv, NEW doomed \in SUBSET Entered,
         doomed \cap registered = {}, UNCHANGED sockets
  PROVE  Done(doomed) \in Request /\ Tracked(Done(doomed))'
  <1>1. /\ Done(doomed) \in Request /\ Done(doomed).stage = "done"
        /\ Done(doomed).doomed = doomed
        /\ Done(doomed).left = {} /\ Done(doomed).owed = {}
    BY NoRequestIsOne, NobodyIsAUser DEF Done, NoRequest, Request, Entered
  <1> QED
    BY <1>1 DEF Tracked, sockets, Entered

LEMMA RequestsKeepTrack ==
  ASSUME RealtimeInv, NEW c \in Call,
         \/ \E k \in Kinds, a, u \in User : Admit(c, k, a, u)
         \/ Serve(c)
  PROVE  /\ Steady' /\ call' \in [Call -> Request]
         /\ \A d \in Call : Tracked(call[d])'
  <1> DEFINE q == call[c]
  <1>0. /\ q \in Request /\ Tracked(q) /\ Steady
        /\ registered \subseteq Entered /\ registered \subseteq Socket
    BY DEF RealtimeInv, TypeOK, Steady
  <1>1. ASSUME UNCHANGED sockets
        PROVE  Steady' /\ Calm
    BY <1>0, <1>1, QuietIsCalm DEF sockets
  <1>2. ASSUME NEW k \in Kinds, NEW a \in User, NEW u \in User, Admit(c, k, a, u)
        PROVE  /\ Steady' /\ call' \in [Call -> Request]
               /\ \A d \in Call : Tracked(call[d])'
    <2>1. PICK n : n = [q EXCEPT !.stage = "admitted", !.kind = k, !.actor = a,
                                 !.target = u, !.seat = seat[u]]
      OBVIOUS
    <2>2. seat[u] \in Nat
      BY DEF RealtimeInv, TypeOK
    <2>3. /\ n \in Request /\ n.stage = "admitted"
          /\ n.left = q.left /\ n.owed = q.owed /\ n.doomed = q.doomed
      BY <1>0, <2>1, <2>2 DEF Request
    <2>4. Tracked(n)
      BY <1>0, <2>3 DEF Tracked
    <2>5. UNCHANGED sockets /\ Update(c, n)
      BY <1>2, <2>1 DEF Admit
    <2>6. Tracked(n)'
      BY <1>0, <1>1, <2>3, <2>4, <2>5, CalmKeepsTrack
    <2> QED
      BY <1>1, <2>3, <2>5, <2>6, OneRequestAtATime
  <1>3. CASE Fail(c)
    <2>1. Update(c, Done({})) /\ UNCHANGED sockets
      BY <1>3 DEF Fail
    <2>2. Done({}) \in Request /\ Tracked(Done({}))'
      BY <2>1, DoneIsOnTrack
    <2> QED
      BY <1>1, <2>1, <2>2, OneRequestAtATime
  <1>4. CASE CommitChange(c) \/ CommitJoin(c) \/ CommitDeparture(c) \/ CommitDeletion(c)
    <2>1. Committed(c) /\ UNCHANGED sockets /\ call[c].stage = "admitted"
      BY <1>4 DEF CommitChange, CommitJoin, CommitDeparture, CommitDeletion
    <2> QED
      BY <1>1, <2>1, CommittedIsOnTrack
  <1>5. CASE Announce(c)
    <2>1. PICK n : n = Sending(q, Owed(q), registered)
      OBVIOUS
    <2>2. Update(c, n) /\ UNCHANGED sockets /\ q.stage = "announce"
      BY <1>5, <2>1 DEF Announce, Owed
    <2>3. Owed(q) \subseteq registered /\ registered' = registered /\ who' = who
      BY <2>2 DEF Owed, sockets
    <2>4. q.left \cup Owed(q) \cup registered \cup q.owed \cup q.doomed \subseteq Entered'
      BY <1>0, <1>1, <2>2, <2>3 DEF Tracked, Calm
    <2>5. /\ q.doomed \cap registered \subseteq ToClose(q, registered)
          /\ q.owed \cap registered \subseteq q.told \cup Owed(q)
      BY <1>0, <2>2 DEF Tracked
    <2>6. n \in Request /\ Tracked(n)'
      BY <1>0, <2>1, <2>3, <2>4, <2>5, SendingKeepsTrack
    <2> QED
      BY <1>1, <2>2, <2>6, OneRequestAtATime
  <1>6. ASSUME NEW s \in Socket, Send(c, s)
        PROVE  /\ Steady' /\ call' \in [Call -> Request]
               /\ \A d \in Call : Tracked(call[d])'
    <2>1. PICK m : /\ m = q \/ m = [q EXCEPT !.told = @ \cup {s}]
                   /\ Update(c, Sending(m, q.left \ {s}, registered'))
                   /\ \/ m # q /\ registered' = registered
                      \/ s \in m.told /\ registered' = registered
                      \/ registered' = registered \ {s}
      <3>1. CASE /\ Update(c, Sending([q EXCEPT !.told = @ \cup {s}],
                                      q.left \ {s}, registered))
                 /\ UNCHANGED registered
        <4>1. s \in [q EXCEPT !.told = @ \cup {s}].told
          BY <1>0 DEF Request
        <4> QED
          BY <3>1, <4>1
      <3>2. CASE /\ registered' = registered \ {s}
                 /\ Update(c, Sending(q, q.left \ {s}, registered'))
        BY <3>2
      <3> QED
        BY <1>6, <3>1, <3>2 DEF Send, Remove
    <2>2. /\ m \in Request /\ m.stage = q.stage /\ m.left = q.left
          /\ m.owed = q.owed /\ m.doomed = q.doomed
          /\ m.kind = q.kind /\ m.target = q.target
          /\ q.told \subseteq m.told /\ (s \in m.told \/ s \notin registered')
      BY <1>0, <2>1 DEF Request
    <2>3. PICK n : n = Sending(m, q.left \ {s}, registered')
      OBVIOUS
    <2>4. /\ registered' \subseteq registered /\ UNCHANGED <<who, phase, line>>
          /\ q.stage = "send"
      BY <1>6, <2>1 DEF Send
    <2>5. Steady' /\ Calm
      BY <1>0, <2>4, QuietIsCalm
    <2>6. m.left \cup (q.left \ {s}) \cup registered' \cup m.owed \cup m.doomed
            \subseteq Entered'
      BY <1>0, <2>2, <2>4, <2>5 DEF Tracked, Calm
    <2>7. /\ m.doomed \cap registered' \subseteq ToClose(m, registered')
          /\ m.owed \cap registered' \subseteq m.told \cup (q.left \ {s})
      BY <1>0, <2>2, <2>4 DEF Tracked, ToClose
    <2>8. n \in Request /\ Tracked(n)'
      <3>1. q.left \ {s} \in SUBSET Socket /\ registered' \in SUBSET Socket
        BY <1>0, <2>4 DEF Request
      <3>2. ASSUME NEW reg \in SUBSET Socket, reg = registered'
            PROVE  n \in Request /\ Tracked(n)'
        BY <2>2, <2>3, <2>4, <2>6, <2>7, <3>1, <3>2, SendingKeepsTrack
      <3> QED
        BY <3>1, <3>2
    <2> QED
      BY <2>1, <2>3, <2>5, <2>8, OneRequestAtATime
  <1>7. ASSUME NEW s \in Socket, HangUp(c, s)
        PROVE  /\ Steady' /\ call' \in [Call -> Request]
               /\ \A d \in Call : Tracked(call[d])'
    <2>1. PICK n : n = Closing(q, q.left \ {s})
      OBVIOUS
    <2>2. /\ Update(c, n) /\ UNCHANGED <<who, phase>> /\ q.stage = "hangup"
          /\ registered' = registered \ {s} /\ s \in q.left
          /\ \A r \in Socket \ {s} : line'[r] = line[r]
      BY <1>7, <2>1 DEF HangUp, Remove, Close, RealtimeInv, TypeOK
    <2>3. s \in Entered
      BY <1>0, <2>2 DEF Tracked
    <2>4. Steady' /\ Calm
      <3>1. phase[s] \notin {"auth", "member", "register"}
        BY <2>3 DEF Entered, Listening
      <3> QED
        BY <1>0, <2>2, <3>1, QuietIsCalm
    <2>5. /\ q.doomed \cap registered' \subseteq q.left \ {s}
          /\ q.owed \cap (registered' \cup (q.left \ {s})) \subseteq q.told
      BY <1>0, <2>2 DEF Tracked
    <2>6. /\ n \in Request /\ n.left = q.left \ {s}
          /\ n.owed = q.owed /\ n.doomed = q.doomed /\ n.told = q.told
          /\ n.stage \in {"hangup", "answer"}
          /\ n.stage = "answer" => q.left \ {s} = {}
      <3>1. q.left \ {s} \in SUBSET Socket
        BY <1>0 DEF Request
      <3> QED
        BY <1>0, <2>1, <3>1, ClosingKeepsTrack
    <2>7. Tracked(n)'
      <3>1. n.left \cup n.owed \cup n.doomed \subseteq Entered'
        BY <1>0, <2>4, <2>6 DEF Tracked, Calm
      <3> QED
        BY <2>5, <2>6, <3>1 DEF Tracked
    <2> QED
      BY <2>2, <2>4, <2>6, <2>7, OneRequestAtATime
  <1>8. CASE Answer(c)
    <2>1. Update(c, Done(q.doomed)) /\ UNCHANGED sockets /\ q.stage = "answer"
      BY <1>8 DEF Answer
    <2>2. q.doomed \in SUBSET Entered /\ q.doomed \cap registered = {}
      BY <1>0, <2>1 DEF Tracked
    <2>3. PICK d : d = q.doomed
      OBVIOUS
    <2>4. Done(d) \in Request /\ Tracked(Done(d))'
      BY <2>1, <2>2, <2>3, DoneIsOnTrack
    <2> QED
      BY <1>1, <2>1, <2>3, <2>4, OneRequestAtATime
  <1> QED
    BY <1>2, <1>3, <1>4, <1>5, <1>6, <1>7, <1>8 DEF Serve

LEMMA RequestsKeepTypes ==
  ASSUME RealtimeInv, call' \in [Call -> Request], NEW c \in Call,
         \/ \E k \in Kinds, a, u \in User : Admit(c, k, a, u)
         \/ Serve(c)
  PROVE  TypeOK'
  <1> USE DEF RealtimeInv, TypeOK
  <1>1. ASSUME UNCHANGED <<committed, sockets>>
        PROVE  TypeOK'
    BY <1>1 DEF committed, sockets
  <1>2. CASE \E k \in Kinds, a, u \in User : Admit(c, k, a, u)
    BY <1>1, <1>2 DEF Admit
  <1>3. CASE Fail(c) \/ CommitChange(c) \/ Announce(c) \/ Answer(c)
    BY <1>1, <1>3 DEF Fail, CommitChange, Announce, Answer
  <1>4. CASE CommitJoin(c)
    <2>1. call[c].actor \in User
      BY DEF Request
    <2>2. seats' \in Nat /\ seat' \in [User -> 0..seats']
      BY <1>4, <2>1 DEF CommitJoin
    <2> QED
      BY <1>4, <2>2 DEF CommitJoin, sockets
  <1>5. CASE CommitDeparture(c)
    <2>1. \A u \in User : 0 \in 0..seats /\ seat[u] \in 0..seats
      OBVIOUS
    <2>2. seat' \in [User -> 0..seats]
      BY <1>5, <2>1 DEF CommitDeparture
    <2> QED
      BY <1>5, <2>2 DEF CommitDeparture, sockets
  <1>6. CASE CommitDeletion(c)
    <2>1. 0 \in 0..seats
      OBVIOUS
    <2>2. trip' \in BOOLEAN /\ seat' \in [User -> 0..seats]
      BY <1>6, <2>1 DEF CommitDeletion
    <2> QED
      BY <1>6, <2>2 DEF CommitDeletion, sockets
  <1>7. CASE \E s \in Socket : Send(c, s)
    <2>1. /\ registered' \subseteq Socket
          /\ UNCHANGED <<trip, seat, seats, active, fresh, who, line, phase>>
      BY <1>7 DEF Send, Remove, committed
    <2> QED
      BY <2>1
  <1>8. CASE \E s \in Socket : HangUp(c, s)
    <2>1. /\ registered' \subseteq Socket
          /\ line' \in [Socket -> {"none", "up", "gone", "cut"}]
          /\ UNCHANGED <<trip, seat, seats, active, fresh, who, phase>>
      BY <1>8 DEF HangUp, Remove, Close, committed
    <2> QED
      BY <2>1
  <1> QED
    BY <1>2, <1>3, <1>4, <1>5, <1>6, <1>7, <1>8 DEF Serve

-----------------------------------------------------------------------------
LEMMA RealtimeInit == Init => RealtimeInv
  <1> SUFFICES ASSUME Init PROVE RealtimeInv
    OBVIOUS
  <1>1. TypeOK
    BY NobodyIsAUser, NoRequestIsOne DEF Init, TypeOK
  <1>2. Steady
    BY DEF Init, Steady, Entered, Listening
  <1>3. \A c \in Call : Tracked(call[c])
    BY DEF Init, Tracked, NoRequest
  <1> QED
    BY <1>1, <1>2, <1>3 DEF RealtimeInv

LEMMA RealtimeStep == RealtimeInv /\ [Next]_vars => RealtimeInv'
  <1> SUFFICES ASSUME RealtimeInv, [Next]_vars PROVE RealtimeInv'
    OBVIOUS
  <1>1. ASSUME UNCHANGED <<call, registered, who, phase>>
        PROVE  \A c \in Call : Tracked(call[c])'
    BY <1>1 DEF RealtimeInv, Tracked, Entered, ToClose, Owed
  <1>2. CASE \E s \in Socket : OfSockets(s)
    <2>1. TypeOK' /\ Steady' /\ Calm
      BY <1>2, SocketsKeepTypes, SocketsAreCalm DEF RealtimeInv
    <2>2. ASSUME NEW c \in Call
          PROVE  Tracked(call[c])'
      <3>1. call'[c] = call[c] /\ call[c] \in Request /\ Tracked(call[c])
        BY <1>2 DEF OfSockets, RealtimeInv, TypeOK
      <3>2. PICK q \in Request : q = call[c]
        BY <3>1
      <3>3. Tracked(q)
        BY <3>1, <3>2 DEF Tracked, ToClose, Owed
      <3>4. Tracked(q)'
        BY <2>1, <3>3, CalmKeepsTrack DEF RealtimeInv
      <3> QED
        BY <3>1, <3>2, <3>4 DEF Tracked, ToClose, Owed
    <2> QED
      BY <2>1, <2>2 DEF RealtimeInv
  <1>3. CASE \E c \in Call : \/ \E k \in Kinds, a, u \in User : Admit(c, k, a, u)
                             \/ Serve(c)
    BY <1>3, RequestsKeepTrack, RequestsKeepTypes DEF RealtimeInv
  <1>4. CASE \E u \in User : CloseAccount(u)
    <2>1. UNCHANGED <<seats, fresh, who, line, phase, registered, call>>
      BY <1>4 DEF CloseAccount, sockets
    <2>2. TypeOK'
      BY <1>4, <2>1 DEF CloseAccount, RealtimeInv, TypeOK, Member
    <2>3. Steady'
      BY <2>1 DEF RealtimeInv, Steady, Entered
    <2> QED
      BY <1>1, <2>1, <2>2, <2>3 DEF RealtimeInv
  <1>5. CASE UNCHANGED vars
    BY <1>1, <1>5 DEF vars, committed, sockets, RealtimeInv, TypeOK, Steady, Entered
  <1> QED
    BY <1>2, <1>3, <1>4, <1>5 DEF Next

LEMMA RealtimeIsSafe == Spec => []RealtimeInv
  BY RealtimeInit, RealtimeStep, PTL DEF Spec

(* Once a departure or a deletion has been served, none of the sockets it  *)
(* was aimed at is registered, for any number of handlers and requests.    *)
THEOREM HangUpsAreFinal == Spec => []HungUpForGood
  <1>1. RealtimeInv => HungUpForGood
    BY DEF RealtimeInv, Tracked, HungUpForGood
  <1> QED
    BY <1>1, RealtimeIsSafe, PTL

(* Whatever else is sent, dropped or hung up on meanwhile, everybody who   *)
(* was in the room and still is has the news when the sends are over.      *)
THEOREM NobodyMissesTheNews == Spec => []AnnouncedToAll
  <1>1. RealtimeInv => AnnouncedToAll
    BY DEF RealtimeInv, Tracked, AnnouncedToAll
  <1> QED
    BY <1>1, RealtimeIsSafe, PTL

(* No handler ends with its socket registered and the line still open.     *)
THEOREM NoOpenLineIsOrphaned == Spec => []LeftBehindIsDead
  <1>1. RealtimeInv => LeftBehindIsDead
    BY DEF RealtimeInv, Steady, LeftBehindIsDead
  <1> QED
    BY <1>1, RealtimeIsSafe, PTL

(* Sockets and requests keep their types.                                  *)
THEOREM RealtimeIsTyped == Spec => []TypeOK
  BY RealtimeIsSafe, PTL DEF RealtimeInv
=============================================================================
