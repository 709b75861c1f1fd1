------------------------------- MODULE Realtime -------------------------------
(***************************************************************************)
(* The realtime channel of one trip (core/events.py, routers/events.py):   *)
(* the sockets registered in the process's memory, one handler coroutine   *)
(* per socket, and the requests that commit a change and then ring the     *)
(* bell, kick somebody, or hang up on everybody.                           *)
(*                                                                         *)
(* The manager's lock is only held over code that never awaits, so each of *)
(* its methods is one step.  Every send and close awaits the network, and  *)
(* every query the database: other coroutines run in between.  A snapshot  *)
(* is served in any order, of which the dictionary's is one.               *)
(***************************************************************************)
EXTENDS Naturals, FiniteSets

CONSTANTS
  User,     \* the accounts; any of them are members at first
  Socket,   \* bound: connections ever made
  Call      \* bound: requests ever made that announce something

ASSUME UserAssumption == User # {}

VARIABLES
  trip,        \* the trip's row exists
  seat,        \* trip_members: the id of each user's row, 0 for none
  seats,       \* ids given out so far
  active,      \* users whose account is_active
  fresh,       \* sockets whose access token has not expired
  who,         \* the user behind each socket
  line,        \* each connection: "up", left by the client, or closed by us
  phase,       \* where each socket's handler is
  registered,  \* _ConnectionManager._sockets
  call         \* the requests

committed == <<trip, seat, seats, active>>
sockets   == <<fresh, who, line, phase, registered>>
vars      == <<committed, sockets, call>>

Kinds == {"change", "join", "depart", "delete"}

Handshake == {"auth", "member", "register", "ack"}
Listening == {"listen", "recheck"}

(* left is what a loop still has to serve.  Ghosts: owed, the sockets in   *)
(* the room at the commit that ought to hear the news, and those of them   *)
(* told; doomed, the sockets that the call is to hang up on.               *)
Request ==
  [stage : {"idle", "admitted", "announce", "send", "hangup", "answer", "done"},
   kind : Kinds, actor : User, target : User, seat : Nat,
   left : SUBSET Socket,
   owed : SUBSET Socket, told : SUBSET Socket, doomed : SUBSET Socket]

TypeOK ==
  /\ trip \in BOOLEAN /\ seats \in Nat /\ seat \in [User -> 0..seats]
  /\ active \subseteq User /\ fresh \subseteq Socket
  /\ who \in [Socket -> User]
  /\ line \in [Socket -> {"none", "up", "gone", "cut"}]
  /\ phase \in [Socket ->
       {"away", "reject", "ending", "over"} \cup Handshake \cup Listening]
  /\ registered \subseteq Socket
  /\ call \in [Call -> Request]

Nobody == CHOOSE u \in User : TRUE

NoRequest ==
  [stage |-> "idle", kind |-> "change", actor |-> Nobody, target |-> Nobody,
   seat |-> 0, left |-> {}, owed |-> {}, told |-> {}, doomed |-> {}]

Member(u)   == seat[u] # 0
Entitled(s) == who[s] \in active /\ Member(who[s]) /\ s \in fresh

-----------------------------------------------------------------------------
(***************************************************************************)
(* The websocket's handler                                                 *)
(***************************************************************************)
Goto(s, p)  == phase' = [phase EXCEPT ![s] = p]
Close(s)    == line' = [line EXCEPT ![s] = IF @ = "up" THEN "cut" ELSE @]
Remove(s)   == registered' = registered \ {s}

Step(s, p) == Goto(s, p) /\ UNCHANGED <<fresh, who, line, registered>>

Connect(s, u) ==
  /\ phase[s] = "away"
  /\ who' = [who EXCEPT ![s] = u]
  /\ line' = [line EXCEPT ![s] = "up"]
  /\ Goto(s, "auth")
  /\ UNCHANGED <<fresh, registered>>

(* The handler is over and its user and token with it.                     *)
Return(s) ==
  /\ Goto(s, "over")
  /\ who' = [who EXCEPT ![s] = Nobody]
  /\ fresh' = fresh \ {s}

(* Turned away during the handshake, with a close code.                    *)
Refuse(s) == Close(s) /\ Return(s) /\ UNCHANGED registered

(* The first message must hold a valid token of an active account;         *)
(* silence, junk and a client that is gone already are all refused.        *)
Authenticate(s) ==
  /\ phase[s] = "auth"
  /\ \/ /\ s \in fresh /\ who[s] \in active /\ line[s] = "up"
        /\ Step(s, "member")
     \/ Refuse(s)

FindMembership(s) ==
  /\ phase[s] = "member"
  /\ IF Member(who[s])
     THEN Step(s, "register")
     ELSE Refuse(s)

Register(s) ==
  /\ phase[s] = "register"
  /\ registered' = registered \cup {s}
  /\ Goto(s, "ack")
  /\ UNCHANGED <<fresh, who, line>>

(* The acknowledgement is sent before the handler enters its try block: if *)
(* the client is gone and the send raises, nothing unregisters the socket. *)
Acknowledge(s) ==
  /\ phase[s] = "ack"
  /\ Step(s, "listen") \/ (line[s] # "up" /\ Step(s, "over"))

(* The watchdog, every _REVALIDATE_SECONDS: first the token and the        *)
(* account, then the membership.  A database error ends the handler.       *)
RecheckUser(s) ==
  /\ phase[s] = "listen"
  /\ Step(s, IF s \in fresh /\ who[s] \in active THEN "recheck" ELSE "reject")

\* Mutant of RecheckMember: the membership is not looked at again.
RecheckNobody(s) == phase[s] = "recheck" /\ Step(s, "listen")

RecheckMember(s) ==
  /\ phase[s] = "recheck"
  /\ Step(s, IF Member(who[s]) THEN "listen" ELSE "reject")

WatchdogFails(s) ==
  /\ phase[s] \in Listening
  /\ Step(s, "ending")

(* The reader notices that the line is dead and the watchdog is cancelled. *)
ReaderEnds(s) ==
  /\ phase[s] \in Listening /\ line[s] # "up"
  /\ Step(s, "ending")

Reject(s) ==
  /\ phase[s] = "reject"
  /\ Close(s) /\ Goto(s, "ending")
  /\ UNCHANGED <<fresh, who, registered>>

\* Mutant of Unregister: without the finally block.
ReturnOnly(s) ==
  phase[s] = "ending" /\ Close(s) /\ Return(s) /\ UNCHANGED registered

(* The finally block; the server closes whatever a handler leaves open.    *)
Unregister(s) ==
  /\ phase[s] = "ending"
  /\ Remove(s) /\ Close(s) /\ Return(s)

Handler(s) ==
  \/ Authenticate(s) \/ FindMembership(s) \/ Register(s)
  \/ Acknowledge(s) \/ RecheckUser(s) \/ RecheckMember(s)
  \/ Reject(s) \/ Unregister(s)

(* What happens to a connection from outside.                              *)
Expire(s) ==
  /\ s \in fresh /\ line[s] = "up"
  /\ fresh' = fresh \ {s}
  /\ UNCHANGED <<who, line, phase, registered>>

Disconnect(s) ==
  /\ line[s] = "up"
  /\ line' = [line EXCEPT ![s] = "gone"]
  /\ UNCHANGED <<fresh, who, phase, registered>>

-----------------------------------------------------------------------------
(***************************************************************************)
(* The requests: admitted by the dependencies, committed, announced to     *)
(* everybody but the actor, and then, for a departure or a deletion, the   *)
(* lines closed.                                                           *)
(***************************************************************************)
Update(c, q) == call' = [call EXCEPT ![c] = q]

(* Each loop runs to its next await: with nothing left it falls through.   *)
Closing(q, left) == [q EXCEPT !.stage = IF left = {} THEN "answer" ELSE "hangup",
                              !.left = left]

(* kick and close_trip snapshot what is registered after the last send.    *)
ToClose(q, reg) ==
  CASE q.kind = "depart" -> {s \in reg : who[s] = q.target}
    [] q.kind = "delete" -> reg
    [] OTHER             -> {}

Sending(q, left, reg) ==
  IF left = {} THEN Closing(q, ToClose(q, reg))
               ELSE [q EXCEPT !.stage = "send", !.left = left]

Admit(c, kind, a, u) ==
  /\ call[c].stage = "idle" /\ trip /\ a \in active
  /\ Member(a) <=> (kind # "join")
  /\ IF kind = "depart" THEN Member(u) ELSE u = a
  /\ Update(c, [call[c] EXCEPT !.stage = "admitted", !.kind = kind,
                               !.actor = a, !.target = u, !.seat = seat[u]])
  /\ UNCHANGED <<committed, sockets>>

Owed(q) == {s \in registered : who[s] # q.actor}

Committed(c) ==
  Update(c, [call[c] EXCEPT !.stage = "announce", !.seat = 0,
                            !.owed = Owed(call[c]),
                            !.doomed = ToClose(call[c], registered)])

(* A request that is done is only remembered for the sockets it was to     *)
(* hang up on.                                                             *)
Done(doomed) == [NoRequest EXCEPT !.stage = "done", !.doomed = doomed]

(* A row that refers to a deleted trip, or a second seat for one person,   *)
(* is refused by the database.                                             *)
Fail(c) ==
  /\ call[c].stage = "admitted"
  /\ \/ ~trip /\ call[c].kind # "delete"
     \/ call[c].kind = "join" /\ Member(call[c].actor)
  /\ Update(c, Done({}))
  /\ UNCHANGED <<committed, sockets>>

CommitChange(c) ==
  /\ call[c].stage = "admitted" /\ call[c].kind = "change" /\ trip
  /\ Committed(c)
  /\ UNCHANGED <<committed, sockets>>

\* Mutant of CommitJoin: the sequence behind the ids is not advanced.
CommitJoinTwice(c) ==
  LET a == call[c].actor
  IN  /\ call[c].stage = "admitted" /\ call[c].kind = "join"
      /\ trip /\ ~Member(a)
      /\ seat' = [seat EXCEPT ![a] = seats + 1]
      /\ Committed(c)
      /\ UNCHANGED <<trip, seats, active, sockets>>

CommitJoin(c) ==
  LET a == call[c].actor
  IN  /\ call[c].stage = "admitted" /\ call[c].kind = "join"
      /\ trip /\ ~Member(a)
      /\ seats' = seats + 1
      /\ seat' = [seat EXCEPT ![a] = seats + 1]
      /\ Committed(c)
      /\ UNCHANGED <<trip, active, sockets>>

(* The row read at the start is deleted by its id: somebody who left and   *)
(* joined again meanwhile keeps the new one, and is kicked all the same.   *)
CommitDeparture(c) ==
  LET u == call[c].target
  IN  /\ call[c].stage = "admitted" /\ call[c].kind = "depart" /\ trip
      /\ seat' = [seat EXCEPT ![u] = IF @ = call[c].seat THEN 0 ELSE @]
      /\ Committed(c)
      /\ UNCHANGED <<trip, seats, active, sockets>>

(* By the owner, or by the last member leaving; memberships cascade.       *)
CommitDeletion(c) ==
  /\ call[c].stage = "admitted" /\ call[c].kind = "delete"
  /\ trip' = FALSE /\ seat' = [u \in User |-> 0]
  /\ Committed(c)
  /\ UNCHANGED <<seats, active, sockets>>

Announce(c) ==
  /\ call[c].stage = "announce"
  /\ Update(c, Sending(call[c], Owed(call[c]), registered))
  /\ UNCHANGED <<committed, sockets>>

\* Mutant of Send: a send that raises leaves the socket where it is.
SendKeepsTheDead(c, s) ==
  /\ call[c].stage = "send" /\ s \in call[c].left
  /\ \/ /\ line[s] # "cut"
        /\ Update(c, Sending([call[c] EXCEPT !.told = @ \cup {s}],
                             call[c].left \ {s}, registered))
     \/ /\ line[s] # "up"
        /\ Update(c, Sending(call[c], call[c].left \ {s}, registered))
  /\ UNCHANGED <<committed, sockets>>

\* Mutant of Send: a closed socket is waited for.
SendWaits(c, s) ==
  /\ call[c].stage = "send" /\ s \in call[c].left /\ line[s] # "cut"
  /\ Update(c, Sending([call[c] EXCEPT !.told = @ \cup {s}],
                       call[c].left \ {s}, registered))
  /\ UNCHANGED <<committed, sockets>>

(* _send: a socket whose send raises is dropped.  One that the client left *)
(* may still swallow the message.                                          *)
Send(c, s) ==
  /\ call[c].stage = "send" /\ s \in call[c].left
  /\ \/ /\ line[s] # "cut"
        /\ Update(c, Sending([call[c] EXCEPT !.told = @ \cup {s}],
                             call[c].left \ {s}, registered))
        /\ UNCHANGED registered
     \/ /\ line[s] # "up"
        /\ Remove(s)
        /\ Update(c, Sending(call[c], call[c].left \ {s}, registered'))
  /\ UNCHANGED <<committed, fresh, who, line, phase>>

\* Mutant of HangUp: removing the socket is left to its handler.
HangUpOnly(c, s) ==
  /\ call[c].stage = "hangup" /\ s \in call[c].left
  /\ Close(s)
  /\ Update(c, Closing(call[c], call[c].left \ {s}))
  /\ UNCHANGED <<committed, fresh, who, phase, registered>>

(* _close: removed first, then closed.                                     *)
HangUp(c, s) ==
  /\ call[c].stage = "hangup" /\ s \in call[c].left
  /\ Remove(s) /\ Close(s)
  /\ Update(c, Closing(call[c], call[c].left \ {s}))
  /\ UNCHANGED <<committed, fresh, who, phase>>

Answer(c) ==
  /\ call[c].stage = "answer"
  /\ Update(c, Done(call[c].doomed))
  /\ UNCHANGED <<committed, sockets>>

Serve(c) ==
  \/ Fail(c)
  \/ CommitChange(c) \/ CommitJoin(c) \/ CommitDeparture(c) \/ CommitDeletion(c)
  \/ Announce(c)
  \/ \E s \in Socket : Send(c, s) \/ HangUp(c, s)
  \/ Answer(c)

(* Closing an account drops its seats, and the trips it was alone in, and  *)
(* tells the channel nothing.                                              *)
CloseAccount(u) ==
  /\ u \in active
  /\ active' = active \ {u}
  /\ seat' = [seat EXCEPT ![u] = 0]
  /\ trip' = (trip /\ (Member(u) => \E v \in User \ {u} : Member(v)))
  /\ UNCHANGED <<seats, sockets, call>>

-----------------------------------------------------------------------------
Init ==
  /\ trip = TRUE /\ seats = 1 /\ active = User
  /\ seat \in [User -> {0, 1}] /\ \E u \in User : Member(u)
  /\ fresh = Socket /\ registered = {}
  /\ who = [s \in Socket |-> Nobody]
  /\ line = [s \in Socket |-> "none"] /\ phase = [s \in Socket |-> "away"]
  /\ call = [c \in Call |-> NoRequest]

OfSockets(s) ==
  /\ \/ \E u \in User : Connect(s, u)
     \/ Handler(s) \/ ReaderEnds(s) \/ WatchdogFails(s)
     \/ Expire(s) \/ Disconnect(s)
  /\ UNCHANGED <<committed, call>>

Next ==
  \/ \E s \in Socket : OfSockets(s)
  \/ \E c \in Call : \/ \E k \in Kinds, a, u \in User : Admit(c, k, a, u)
                     \/ Serve(c)
  \/ \E u \in User : CloseAccount(u)

(* The event loop runs every coroutine that can run; the timeouts of the   *)
(* handshake and of the server's pings keep a silent client from blocking  *)
(* one for ever.  Nothing obliges clients, clocks or the database's faults.*)
Fairness ==
  /\ \A s \in Socket : /\ WF_vars(Handler(s) /\ UNCHANGED <<committed, call>>)
                       /\ WF_vars(ReaderEnds(s) /\ UNCHANGED <<committed, call>>)
  /\ \A c \in Call : WF_vars(Serve(c))

Spec == Init /\ [][Next]_vars
FairSpec == Spec /\ Fairness

-----------------------------------------------------------------------------
(* When the sends of a call are over, everybody who was in the room at its *)
(* commit and is still registered, or about to be hung up on, has been     *)
(* told, the actor apart: a dead or slow socket costs nobody else the      *)
(* news, and is not kept, and the news comes before the hang-up.           *)
AnnouncedToAll ==
  \A c \in Call : call[c].stage \in {"hangup", "answer"} =>
    call[c].owed \cap (registered \cup call[c].left) \subseteq call[c].told

(* A kick or a deletion that has finished leaves none of the sockets it    *)
(* was aimed at in the registry, whatever their handlers did meanwhile.    *)
HungUpForGood ==
  \A c \in Call : call[c].stage \in {"answer", "done"} =>
    call[c].doomed \cap registered = {}

(* A handler that is over leaves a socket registered only if the client    *)
(* was gone before the acknowledgement; no open line is ever orphaned, so  *)
(* the next bell finds out.                                                *)
LeftBehindIsDead ==
  \A s \in registered : phase[s] = "over" => line[s] = "gone"

(* Whoever loses the right to listen -- removed, left, account closed,     *)
(* token expired, even between the check and the registration, where the   *)
(* kick cannot see them -- eventually has the line closed.                 *)
RevokedIsHungUp ==
  \A s \in Socket :
    line[s] = "up" /\ ~Entitled(s) ~> line[s] # "up" \/ Entitled(s)

(* No socket keeps a request waiting for ever: every one is answered.      *)
EveryCallIsAnswered ==
  \A c \in Call : call[c].stage = "admitted" ~> call[c].stage = "done"

(* What the tests expect of a client that disconnects: it is forgotten.    *)
GoneIsForgotten ==
  \A s \in Socket : line[s] = "gone" ~> s \notin registered
=============================================================================
