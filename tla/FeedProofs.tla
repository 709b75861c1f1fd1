----------------------------- MODULE FeedProofs -----------------------------
(***************************************************************************)
(* ToldIsRight, for any number of requests that announce something while   *)
(* the reader comes and goes, and WalkIsFaithful, for any number of rows   *)
(* that come and go while the app turns the pages of the list.             *)
(*                                                                         *)
(* Every await is a chance for the reader to leave, to come back or to     *)
(* throw the switch; TellingInv says what a request knows at each of them. *)
(* Every page is chosen from the table as it is when the server answers,   *)
(* and applied to the list as it is when the answer arrives; WalkInv says  *)
(* what a page still promises by then.                                     *)
(***************************************************************************)
EXTENDS Feed, FiniteData, SequenceTheorems, TLAPS

Stages == {"idle", "committed", "ready", "addressed", "done", "failed"}

\* Requests and what the ghost keeps of them.
TellingTypeOK ==
  /\ DOMAIN req = Req /\ DOMAIN heard = Req
  /\ \A r \in Req : /\ DOMAIN req[r] = {"pc", "ask", "at"} /\ req[r].pc \in Stages
                    /\ req[r].ask \in Announcement
                    /\ DOMAIN heard[r] = {"all", "some"}

\* Until it asks for the recipients the ghost has followed the reader's seat; then
\* the recipients it has found are right.
OnTheWay(r) ==
  LET q == req[r] IN
  /\ q.pc \in {"committed", "ready"} =>
       (seat = "in" => heard[r].some) /\ (heard[r].all => seat = "in")
  /\ q.pc = "committed" => q.ask.kind # "deletion"
  /\ q.pc = "ready" => Notice(q.ask).worth
  /\ q.pc = "addressed" => ConcernsReader(q.ask) /\ heard[r].some

\* The inductive invariant.
TellingInv == TellingTypeOK /\ \A r \in Req : OnTheWay(r)

-----------------------------------------------------------------------------
\* What an announcement can be.
LEMMA KindIs ==
  ASSUME NEW ask \in Announcement
  PROVE  /\ ask.kind \in {"own", "expense", "event", "join", "deletion", "settlement", "task"}
         /\ ask.kind = "deletion" => ask.cents \in Nat
BY DEF Announcement

\* What is worth telling, and whom the routers name.
LEMMA NoticeIs ==
  ASSUME NEW ask
  PROVE  /\ ask.kind \in {"own", "expense", "event", "join"} =>
              Notice(ask).worth /\ Notice(ask).only = Person
         /\ ask.kind = "deletion" =>
              (Notice(ask).worth <=> ask.cents >= 2000) /\ Notice(ask).only = Person
         /\ ask.kind = "settlement" => Notice(ask).worth /\ Notice(ask).only = {ask.to}
         /\ ask.kind = "task" =>
              /\ Notice(ask).worth <=> ask.assignees # {}
              /\ Notice(ask).only = ask.assignees
<1>1. CASE ask.kind \in {"own", "expense", "event", "join"}
  BY <1>1 DEF Notice, ExpenseNotice, EventNotice, JoinNotice, Notify
<1>2. CASE ask.kind = "deletion"
  <2> DEFINE large == ask.cents >= 2000
  <2>1. Notice(ask) = [worth |-> large, only |-> Person]
    BY <1>2 DEF Notice, DeletionNotice, Notify, Threshold
  <2> HIDE DEF large
  <2>2. (Notice(ask).worth <=> large) /\ Notice(ask).only = Person
    BY <2>1
  <2> QED BY <1>2, <2>2 DEF large
<1>3. CASE ask.kind = "settlement"
  BY <1>3 DEF Notice, SettlementNotice, Notify
<1>4. CASE ask.kind = "task"
  <2> DEFINE some == ask.assignees # {}
  <2>1. Notice(ask) = [worth |-> some, only |-> ask.assignees]
    BY <1>4 DEF Notice, TaskNotice, Notify
  <2> HIDE DEF some
  <2>2. (Notice(ask).worth <=> some) /\ Notice(ask).only = ask.assignees
    BY <2>1
  <2> QED BY <1>4, <2>2 DEF some
<1> QED BY <1>1, <1>2, <1>3, <1>4

\* The routers name the reader exactly when the comments beside them say so.
LEMMA NamedIffConcerned ==
  ASSUME NEW ask \in Announcement, NEW q, q.ask = ask
  PROVE  /\ ConcernsReader(ask) =>
              Notice(ask).worth /\ "reader" \in Notice(ask).only \ {Actor(q)}
         /\ Notice(ask).worth /\ "reader" \in Notice(ask).only \ {Actor(q)} =>
              ConcernsReader(ask)
<1>1. ConcernsReader(ask) <=>
        \/ ask.kind \in {"expense", "event", "join"}
        \/ ask.kind = "deletion" /\ ask.cents >= 2000
        \/ ask.kind = "settlement" /\ ask.to = "reader"
        \/ ask.kind = "task" /\ "reader" \in ask.assignees
  BY DEF ConcernsReader
<1>2. Actor(q) = IF ask.kind = "own" THEN "reader" ELSE "friend"
  BY DEF Actor
<1>3. "reader" \in Person /\ "reader" # "friend"
  BY DEF Person
<1> HIDE DEF ConcernsReader, Actor, Notice
<1>4. CASE ask.kind = "own"
  BY <1>1, <1>2, <1>4
<1>5. CASE ask.kind \in {"expense", "event", "join"}
  BY <1>1, <1>2, <1>3, <1>5, NoticeIs
<1>6. CASE ask.kind = "deletion"
  BY <1>1, <1>2, <1>3, <1>6, NoticeIs
<1>7. CASE ask.kind = "settlement"
  BY <1>1, <1>2, <1>3, <1>7, NoticeIs
<1>8. CASE ask.kind = "task"
  BY <1>1, <1>2, <1>3, <1>8, NoticeIs
<1> QED BY <1>4, <1>5, <1>6, <1>7, <1>8, KindIs

\* Recipients, for a listening reader and for one who is not.
LEMMA RecipientsAre ==
  ASSUME NEW q, q.ask \in Announcement
  PROVE  /\ Recipients(q) # {} =>
              seat = "in" /\ "reader" \in Notice(q.ask).only \ {Actor(q)}
         /\ ConcernsReader(q.ask) /\ seat = "in" => Recipients(q) # {}
BY NamedIffConcerned DEF Recipients

-----------------------------------------------------------------------------
LEMMA TellingInit == Init => TellingInv
<1> SUFFICES ASSUME Init PROVE TellingInv
  OBVIOUS
<1>1. req \in [Req -> {[pc |-> "idle", ask |-> ask, at |-> 0] : ask \in scene.asks}]
  BY DEF Init
<1>2. \A r \in Req : \E ask \in Announcement :
        req[r] = [pc |-> "idle", ask |-> ask, at |-> 0]
  BY <1>1, FeedAssumption DEF Init
<1>3. \A r \in Req : heard[r] = [all |-> FALSE, some |-> FALSE]
  BY DEF Init, Listened
<1>4. DOMAIN req = Req /\ DOMAIN heard = Req
  BY <1>1 DEF Init
<1> QED BY <1>2, <1>3, <1>4 DEF TellingInv, TellingTypeOK, OnTheWay, Stages

\* A request moves from one stage to another and the rest stay.
Moves(r, pc) ==
  /\ DOMAIN req' = Req
  /\ \A s \in Req \ {r} : req'[s] = req[s]
  /\ DOMAIN req'[r] = {"pc", "ask", "at"} /\ req'[r].pc = pc /\ req'[r].ask = req[r].ask

LEMMA MovesIs ==
  ASSUME TellingTypeOK, NEW r \in Req, NEW pc, NEW at,
         \/ req' = [req EXCEPT ![r].pc = pc]
         \/ req' = [req EXCEPT ![r].pc = pc, ![r].at = at]
  PROVE  Moves(r, pc)
BY DEF Moves, TellingTypeOK

\* A request on the move keeps the invariant if it has learnt what its stage says.
LEMMA OneMoves ==
  ASSUME TellingInv, NEW r \in Req, NEW pc \in Stages, Moves(r, pc), UNCHANGED <<seat, heard>>,
         pc \in {"committed", "ready"} =>
           (seat = "in" => heard[r].some) /\ (heard[r].all => seat = "in"),
         pc = "committed" => req[r].ask.kind # "deletion",
         pc = "ready" => Notice(req[r].ask).worth,
         pc = "addressed" => ConcernsReader(req[r].ask) /\ heard[r].some
  PROVE  TellingInv'
<1>1. TellingTypeOK'
  BY DEF TellingInv, TellingTypeOK, Moves
<1>2. ASSUME NEW s \in Req PROVE OnTheWay(s)'
  BY DEF TellingInv, OnTheWay, Moves
<1> QED BY <1>1, <1>2 DEF TellingInv

\* Everything that is not a request's step or a change of seat.
LEMMA OnlyTheseTell ==
  ASSUME [Next]_vars
  PROVE  \/ UNCHANGED <<req, heard, seat, used>>
         \/ \E r \in Req : Announce(r)
         \/ \E s \in {"in", "muted", "out"} : TakeSeat(s)
<1> DEFINE Same == UNCHANGED <<req, heard, seat, used>>
<1>1. CASE UNCHANGED vars
  BY <1>1 DEF vars, tripVars
<1>2. CASE DeleteTrip
  BY <1>2 DEF DeleteTrip
<1>3. CASE MarkRead \/ RemoveShown \/ ClearShown \/ Delete \/ DeleteIsLost
  BY <1>3 DEF MarkRead, RemoveShown, ClearShown, Delete, DeleteIsLost, tripVars
<1>4. CASE Purge \/ NextDay \/ List
  BY <1>4 DEF Purge, NextDay, List, tripVars
<1> QED BY <1>1, <1>2, <1>3, <1>4 DEF Next, Leave, Join, SetMuted

\* At the commit the ghost starts from the seat as it is.
LEMMA CommitTells ==
  ASSUME TellingInv, NEW r \in Req, Commit(r)
  PROVE  TellingInv'
<1>1. PICK pc \in {"committed", "ready", "done"} :
        /\ req' = [req EXCEPT ![r].pc = pc]
        /\ pc = "committed" => req[r].ask.kind # "deletion"
        /\ pc = "ready" => Notice(req[r].ask).worth
  BY DEF Commit
<1>2. Moves(r, pc)
  BY <1>1, MovesIs DEF TellingInv
<1>3. /\ DOMAIN heard' = Req /\ heard'[r] = [all |-> seat = "in", some |-> seat = "in"]
      /\ \A s \in Req \ {r} : heard'[s] = heard[s]
      /\ seat' = seat
  BY DEF Commit, Listened, TellingInv, TellingTypeOK
<1>4. TellingTypeOK'
  BY <1>2, <1>3 DEF TellingInv, TellingTypeOK, Moves, Stages
<1>5. ASSUME NEW s \in Req \ {r} PROVE OnTheWay(s)'
  BY <1>2, <1>3 DEF TellingInv, OnTheWay, Moves
<1>6. OnTheWay(r)'
  <2> DEFINE in == seat = "in"
  <2>0. heard'[r] = [all |-> in, some |-> in]
    BY <1>3
  <2> HIDE DEF in
  <2>1. (heard'[r].all <=> in) /\ (heard'[r].some <=> in)
    BY <2>0
  <2> USE DEF in
  <2> QED BY <1>1, <1>2, <1>3, <2>1 DEF OnTheWay, Moves
<1> QED BY <1>4, <1>5, <1>6 DEF TellingInv

\* The ghost follows the seat.
LEMMA SeatTells ==
  ASSUME TellingInv, NEW s \in {"in", "muted", "out"}, TakeSeat(s)
  PROVE  TellingInv'
<1>1. req' = req /\ seat' = s /\ DOMAIN heard' = Req
  BY DEF TakeSeat
<1>2. ASSUME NEW r \in Req
      PROVE  DOMAIN heard'[r] = {"all", "some"} /\ OnTheWay(r)'
  <2>1. CASE req[r].pc \in {"committed", "ready"}
    <3> DEFINE all  == heard[r].all /\ s = "in"
               some == heard[r].some \/ s = "in"
    <3>1. heard'[r] = [all |-> all, some |-> some]
      BY <2>1 DEF TakeSeat, Listened
    <3> HIDE DEF all, some
    <3>2. /\ (heard'[r].all <=> all) /\ (heard'[r].some <=> some)
          /\ DOMAIN heard'[r] = {"all", "some"}
      BY <3>1
    <3> USE DEF all, some
    <3> QED BY <1>1, <2>1, <3>2 DEF TellingInv, OnTheWay
  <2>2. CASE req[r].pc \notin {"committed", "ready"}
    <3>1. heard'[r] = heard[r]
      BY <2>2 DEF TakeSeat
    <3> QED BY <1>1, <2>2, <3>1 DEF TellingInv, TellingTypeOK, OnTheWay
  <2> QED BY <2>1, <2>2
<1> QED BY <1>1, <1>2 DEF TellingInv, TellingTypeOK

LEMMA TellingStep == TellingInv /\ [Next]_vars => TellingInv'
<1> SUFFICES ASSUME TellingInv, [Next]_vars PROVE TellingInv'
  OBVIOUS
<1>1. CASE UNCHANGED <<req, heard, seat, used>>
  BY <1>1 DEF TellingInv, TellingTypeOK, OnTheWay
<1>2. ASSUME NEW s \in {"in", "muted", "out"}, TakeSeat(s) PROVE TellingInv'
  BY <1>2, SeatTells
<1>3. ASSUME NEW r \in Req, Commit(r) PROVE TellingInv'
  BY <1>3, CommitTells
<1> USE DEF Stages
<1>4. ASSUME NEW r \in Req, Payload(r) PROVE TellingInv'
  <2>1. PICK pc \in {"ready", "done", "failed"} :
          /\ \/ req' = [req EXCEPT ![r].pc = pc]
             \/ req' = [req EXCEPT ![r].pc = pc, ![r].at = today]
          /\ pc = "ready" => Notice(req[r].ask).worth
    BY <1>4 DEF Payload
  <2>2. Moves(r, pc) /\ UNCHANGED <<seat, heard>> /\ req[r].pc = "committed"
    BY <1>4, <2>1, MovesIs DEF TellingInv, Payload
  <2>3. (seat = "in" => heard[r].some) /\ (heard[r].all => seat = "in")
    BY <2>2 DEF TellingInv, OnTheWay
  <2> QED BY <2>1, <2>2, <2>3, OneMoves
<1>5. ASSUME NEW r \in Req, AskRecipients(r) PROVE TellingInv'
  <2> DEFINE pc == IF Recipients(req[r]) = {} THEN "done" ELSE "addressed"
  <2>1. Moves(r, pc) /\ UNCHANGED <<seat, heard>> /\ req[r].pc = "ready"
    BY <1>5, MovesIs DEF TellingInv, AskRecipients
  <2>2. ASSUME pc = "addressed" PROVE ConcernsReader(req[r].ask) /\ heard[r].some
    <3>1. req[r].ask \in Announcement /\ Notice(req[r].ask).worth
      BY <2>1 DEF TellingInv, TellingTypeOK, OnTheWay
    <3>2. seat = "in" /\ "reader" \in Notice(req[r].ask).only \ {Actor(req[r])}
      BY <2>2, <3>1, RecipientsAre
    <3> QED BY <2>1, <3>1, <3>2, NamedIffConcerned DEF TellingInv, OnTheWay
  <2> QED BY <2>1, <2>2, OneMoves
<1>6. ASSUME NEW r \in Req, Record(r) PROVE TellingInv'
  <2>1. Moves(r, "done") /\ UNCHANGED <<seat, heard>>
    BY <1>6, MovesIs DEF TellingInv, Record
  <2> QED BY <2>1, OneMoves
<1>7. ASSUME NEW r \in Req, RecordFails(r) PROVE TellingInv'
  <2>1. Moves(r, "failed") /\ UNCHANGED <<seat, heard>>
    BY <1>7, MovesIs DEF TellingInv, RecordFails
  <2> QED BY <2>1, OneMoves
<1> QED BY <1>1, <1>2, <1>3, <1>4, <1>5, <1>6, <1>7, OnlyTheseTell DEF Announce

\* A request that ends has told the reader if it had to, and only then.
LEMMA ToldIsRightStep ==
  ASSUME TellingInv, [Next]_vars, NEW r \in Req,
         req[r].pc \notin {"done", "failed"}, req'[r].pc = "done"
  PROVE  LET told == used' # used
         IN /\ told => ConcernsReader(req[r].ask) /\ heard[r].some
            /\ ConcernsReader(req[r].ask) /\ heard[r].all => told
<1>0. req[r].ask \in Announcement
  BY DEF TellingInv, TellingTypeOK
<1>1. PICK s \in Req : Announce(s)
  BY OnlyTheseTell DEF TakeSeat
<1>2. s = r
  BY <1>1 DEF Announce, Commit, Payload, AskRecipients, Record, RecordFails, TellingInv,
              TellingTypeOK
<1>3. ASSUME NEW pc, NEW at, pc # "done",
             \/ req' = [req EXCEPT ![r].pc = pc]
             \/ req' = [req EXCEPT ![r].pc = pc, ![r].at = at]
      PROVE  FALSE
  BY <1>3, MovesIs DEF Moves, TellingInv
<1>4. CASE Commit(r)
  <2>1. req[r].ask.kind = "deletion" /\ ~Notice(req[r].ask).worth /\ used' = used
    BY <1>3, <1>4 DEF Commit
  <2> QED BY <1>0, <2>1, NamedIffConcerned
<1>5. CASE Payload(r)
  <2>1. used' = used
    BY <1>5 DEF Payload
  <2>2. ASSUME Notice(req[r].ask).worth PROVE FALSE
    <3>1. \/ req' = [req EXCEPT ![r].pc = "ready", ![r].at = today]
          \/ req' = [req EXCEPT ![r].pc = "failed"]
      BY <1>5, <2>2 DEF Payload
    <3> QED BY <1>3, <3>1
  <2> QED BY <1>0, <2>1, <2>2, NamedIffConcerned
<1>6. CASE AskRecipients(r)
  <2>1. Recipients(req[r]) = {} /\ used' = used /\ req[r].pc = "ready"
    BY <1>3, <1>6 DEF AskRecipients
  <2>2. heard[r].all => seat = "in"
    BY <2>1 DEF TellingInv, OnTheWay
  <2> QED BY <1>0, <2>1, <2>2, RecipientsAre
<1>7. CASE Record(r)
  <2>1. used' # used /\ req[r].pc = "addressed"
    BY <1>7 DEF Record
  <2> QED BY <2>1 DEF TellingInv, OnTheWay
<1>8. CASE RecordFails(r)
  BY <1>3, <1>8 DEF RecordFails
<1> QED BY <1>1, <1>2, <1>4, <1>5, <1>6, <1>7, <1>8 DEF Announce

\* ToldIsRight, whatever the reader and the trip do between the awaits.
THEOREM TheReaderIsToldRight == Spec => ToldIsRight
<1>1. TellingInv /\ [Next]_vars =>
        [\A r \in Req :
           req[r].pc \notin {"done", "failed"} /\ req'[r].pc = "done" =>
             LET told == used' # used
             IN /\ told => ConcernsReader(req[r].ask) /\ heard[r].some
                /\ ConcernsReader(req[r].ask) /\ heard[r].all => told]_vars
  BY ToldIsRightStep
<1> QED BY <1>1, TellingInit, TellingStep, PTL DEF Spec, ToldIsRight

-----------------------------------------------------------------------------
(***************************************************************************)
(* Lists: two of them joined, and one without an id.                       *)
(***************************************************************************)
\* The members of a list.
LEMMA Listed ==
  ASSUME NEW T, NEW s \in Seq(T)
  PROVE  /\ DOMAIN s = 1..Len(s) /\ Len(s) \in Nat
         /\ \A i \in 1..Len(s) : s[i] \in T /\ s[i] \in ToSet(s)
         /\ \A x \in ToSet(s) : \E i \in 1..Len(s) : x = s[i]
         /\ \A x \in ToSet(s) : x \in T
<1>1. DOMAIN s = 1..Len(s) /\ Len(s) \in Nat
  OBVIOUS
<1>2. ASSUME NEW i \in 1..Len(s) PROVE s[i] \in T /\ s[i] \in ToSet(s)
  <2>1. s[i] \in T
    BY ElementOfSeq
  <2>2. i \in DOMAIN s
    BY <1>1
  <2> QED BY <2>1, <2>2 DEF ToSet
<1>3. ASSUME NEW x \in ToSet(s) PROVE \E i \in 1..Len(s) : x = s[i]
  <2>1. PICK i \in DOMAIN s : x = s[i]
    BY DEF ToSet
  <2> QED BY <1>1, <2>1
<1>4. ASSUME NEW x \in ToSet(s) PROVE x \in T
  BY <1>2, <1>3
<1> QED BY <1>1, <1>2, <1>3, <1>4

\* The list with nothing on it.
LEMMA EmptyIs == <<>> \in Seq(Id) /\ ToSet(<<>>) = {} /\ IsInjective(<<>>)
BY DEF ToSet, IsInjective

\* Two lists, one after the other.
LEMMA Joined ==
  ASSUME NEW T, NEW s \in Seq(T), NEW t \in Seq(T)
  PROVE  /\ s \o t \in Seq(T)
         /\ \A x : x \in ToSet(s \o t) => x \in ToSet(s) \/ x \in ToSet(t)
         /\ \A x : x \in ToSet(s) \/ x \in ToSet(t) => x \in ToSet(s \o t)
         /\ IsInjective(s) /\ IsInjective(t) /\ ToSet(s) \cap ToSet(t) = {} =>
              IsInjective(s \o t)
<1> PICK u, m, n : u = s \o t /\ m = Len(s) /\ n = Len(t)
  OBVIOUS
<1>1. /\ u \in Seq(T) /\ m \in Nat /\ n \in Nat /\ Len(u) = m + n
      /\ \A i \in 1..(m + n) : u[i] = IF i <= m THEN s[i] ELSE t[i - m]
  BY ConcatProperties
<1>2. ASSUME NEW i \in 1..(m + n)
      PROVE  \/ i \in 1..m /\ u[i] = s[i]
             \/ i - m \in 1..n /\ u[i] = t[i - m]
  BY <1>1
<1>3. ASSUME NEW x \in ToSet(u) PROVE x \in ToSet(s) \/ x \in ToSet(t)
  <2>1. PICK i \in 1..Len(u) : x = u[i]
    BY <1>1, <1>3, Listed
  <2>2. \/ i \in 1..m /\ x = s[i]
        \/ i - m \in 1..n /\ x = t[i - m]
    BY <1>1, <1>2, <2>1
  <2> QED BY <2>2, Listed
<1>4. ASSUME NEW x \in ToSet(s) PROVE x \in ToSet(u)
  <2>1. PICK i \in 1..m : x = s[i]
    BY Listed
  <2>2. i \in 1..(m + n) /\ x = u[i]
    BY <1>1, <2>1
  <2>3. u[i] \in ToSet(u)
    BY <1>1, <2>2, Listed
  <2> QED BY <2>2, <2>3
<1>5. ASSUME NEW x \in ToSet(t) PROVE x \in ToSet(u)
  <2>1. PICK i \in 1..n : x = t[i]
    BY Listed
  <2>2. m + i \in 1..(m + n) /\ x = u[m + i]
    BY <1>1, <2>1
  <2>3. u[m + i] \in ToSet(u)
    BY <1>1, <2>2, Listed
  <2> QED BY <2>2, <2>3
<1>6. ASSUME IsInjective(s), IsInjective(t), ToSet(s) \cap ToSet(t) = {}
      PROVE  IsInjective(u)
  <2>1. /\ \A a, b \in 1..m : s[a] = s[b] => a = b
        /\ \A a, b \in 1..n : t[a] = t[b] => a = b
    <3>1. DOMAIN s = 1..m /\ DOMAIN t = 1..n
      BY Listed
    <3> QED BY <1>6, <3>1 DEF IsInjective
  <2>2. \A a \in 1..m, b \in 1..n : s[a] # t[b]
    BY <1>6, Listed
  <2>3. ASSUME NEW a \in 1..(m + n), NEW b \in 1..(m + n), u[a] = u[b] PROVE a = b
    <3>1. CASE a \in 1..m /\ u[a] = s[a]
      <4>1. b \in 1..m /\ u[b] = s[b]
        BY <1>2, <2>2, <2>3, <3>1
      <4> QED BY <2>1, <2>3, <3>1, <4>1
    <3>2. CASE a - m \in 1..n /\ u[a] = t[a - m]
      <4>1. b - m \in 1..n /\ u[b] = t[b - m]
        BY <1>2, <2>2, <2>3, <3>2
      <4>2. a - m = b - m
        BY <2>1, <2>3, <3>2, <4>1
      <4> QED BY <1>1, <4>2
    <3> QED BY <1>2, <3>1, <3>2
  <2>4. DOMAIN u = 1..(m + n)
    BY <1>1
  <2> QED BY <2>3, <2>4 DEF IsInjective
<1> QED BY <1>1, <1>3, <1>4, <1>5, <1>6

\* A list and one more.
LEMMA Appended ==
  ASSUME NEW T, NEW s \in Seq(T), NEW e \in T
  PROVE  /\ Append(s, e) \in Seq(T)
         /\ \A x : x \in ToSet(Append(s, e)) => x \in ToSet(s) \/ x = e
         /\ \A x : x \in ToSet(s) \/ x = e => x \in ToSet(Append(s, e))
         /\ IsInjective(s) /\ e \notin ToSet(s) => IsInjective(Append(s, e))
<1> PICK t : t = <<e>>
  OBVIOUS
<1>1. t \in Seq(T) /\ Append(s, e) = s \o t /\ Len(t) = 1 /\ t[1] = e
  BY AppendIsConcat
<1>2. \A x : x \in ToSet(t) => x = e
  <2>1. ASSUME NEW x \in ToSet(t) PROVE x = e
    <3>1. PICK i \in 1..Len(t) : x = t[i]
      BY <1>1, Listed
    <3>2. i = 1
      BY <1>1, <3>1
    <3> QED BY <1>1, <3>1, <3>2
  <2> QED BY <2>1
<1>3. e \in ToSet(t)
  <2>1. 1 \in 1..Len(t)
    BY <1>1
  <2>2. t[1] \in ToSet(t)
    BY <1>1, <2>1, Listed
  <2> QED BY <1>1, <2>2
<1>4. IsInjective(t)
  <2>1. \A a, b \in DOMAIN t : a = b
    BY <1>1
  <2> QED BY <2>1 DEF IsInjective
<1>5. PICK u : u = s \o t /\ u = Append(s, e)
  BY <1>1
<1>6. /\ u \in Seq(T)
      /\ \A x : x \in ToSet(u) => x \in ToSet(s) \/ x \in ToSet(t)
      /\ \A x : x \in ToSet(s) \/ x \in ToSet(t) => x \in ToSet(u)
      /\ IsInjective(s) /\ IsInjective(t) /\ ToSet(s) \cap ToSet(t) = {} => IsInjective(u)
  <2>1. /\ s \o t \in Seq(T)
        /\ \A x : x \in ToSet(s \o t) => x \in ToSet(s) \/ x \in ToSet(t)
        /\ \A x : x \in ToSet(s) \/ x \in ToSet(t) => x \in ToSet(s \o t)
        /\ IsInjective(s) /\ IsInjective(t) /\ ToSet(s) \cap ToSet(t) = {} =>
             IsInjective(s \o t)
    BY <1>1, Joined
  <2> QED BY <1>5, <2>1, Zenon
<1>7. e \notin ToSet(s) => ToSet(s) \cap ToSet(t) = {}
  BY <1>2
<1> QED BY <1>2, <1>3, <1>4, <1>5, <1>6, <1>7

\* What is kept of the first n of a list.
KeptSoFar(f, list, id, n) ==
  f = [m \in 0..n |-> IF m = 0 THEN <<>>
                      ELSE IF list[m] = id THEN f[m - 1] ELSE Append(f[m - 1], list[m])]

\* What is kept of a list of any length.
LEMMA KeptExists ==
  ASSUME NEW list, NEW id, NEW n \in Nat
  PROVE  \E f : KeptSoFar(f, list, id, n)
<1> DEFINE P == {k \in Nat : \E f : KeptSoFar(f, list, id, k)}
<1>1. 0 \in P
  <2>1. KeptSoFar([m \in 0..0 |-> <<>>], list, id, 0)
    BY DEF KeptSoFar
  <2> QED BY <2>1
<1>2. ASSUME NEW k \in 0..(n - 1), k \in P PROVE k + 1 \in P
  <2>1. PICK f : KeptSoFar(f, list, id, k)
    BY <1>2
  <2>2. PICK g : g = [m \in 0..(k + 1) |->
                        IF m # k + 1 THEN f[m]
                        ELSE IF list[m] = id THEN f[m - 1] ELSE Append(f[m - 1], list[m])]
    OBVIOUS
  <2>3. \A m \in 0..k : g[m] = f[m]
    BY <2>2
  <2>4. ASSUME NEW m \in 0..(k + 1)
        PROVE  g[m] = IF m = 0 THEN <<>>
                      ELSE IF list[m] = id THEN g[m - 1] ELSE Append(g[m - 1], list[m])
    <3>1. CASE m = k + 1
      <4>1. m - 1 \in 0..k /\ m # 0
        BY <3>1
      <4>2. g[m - 1] = f[m - 1]
        BY <2>3, <4>1
      <4> QED BY <2>2, <3>1, <4>1, <4>2
    <3>2. CASE m # k + 1
      <4>1. m \in 0..k /\ (m # 0 => m - 1 \in 0..k)
        BY <3>2
      <4>2. f[m] = IF m = 0 THEN <<>>
                   ELSE IF list[m] = id THEN f[m - 1] ELSE Append(f[m - 1], list[m])
        BY <2>1, <4>1 DEF KeptSoFar
      <4> QED BY <2>3, <4>1, <4>2
    <3> QED BY <3>1, <3>2
  <2>5. KeptSoFar(g, list, id, k + 1)
    BY <2>2, <2>4 DEF KeptSoFar
  <2> QED BY <2>5
<1> HIDE DEF P
<1>3. n \in P
  BY <1>1, <1>2, CountingInduction
<1> QED BY <1>3 DEF P

\* Dropping one id keeps all the others, in a list of their own.
LEMMA WithoutIs ==
  ASSUME NEW T, NEW list \in Seq(T), NEW id
  PROVE  /\ Without(list, id) \in Seq(T)
         /\ \A x : x \in ToSet(Without(list, id)) => x \in ToSet(list) /\ x # id
         /\ \A x : x \in ToSet(list) /\ x # id => x \in ToSet(Without(list, id))
         /\ IsInjective(list) => IsInjective(Without(list, id))
<1> PICK n : n = Len(list)
  OBVIOUS
<1>1. n \in Nat /\ \A i \in 1..n : list[i] \in T
  BY Listed
<1>2. PICK f : KeptSoFar(f, list, id, n) /\ Without(list, id) = f[n]
  <2>1. PICK f : f = CHOOSE g : KeptSoFar(g, list, id, n)
    OBVIOUS
  <2>2. KeptSoFar(f, list, id, n)
    BY <1>1, <2>1, KeptExists
  <2>3. Without(list, id) = f[n]
    BY <2>1 DEF Without, KeptSoFar
  <2> QED BY <2>2, <2>3
<1>3. f[0] = <<>>
  BY <1>1, <1>2 DEF KeptSoFar
<1>4. ASSUME NEW m \in 1..n
      PROVE  f[m] = IF list[m] = id THEN f[m - 1] ELSE Append(f[m - 1], list[m])
  <2>1. m \in 0..n /\ m # 0
    BY <1>1
  <2>2. \A k \in 0..n :
          f[k] = IF k = 0 THEN <<>>
                 ELSE IF list[k] = id THEN f[k - 1] ELSE Append(f[k - 1], list[k])
    BY <1>2 DEF KeptSoFar
  <2> QED BY <2>1, <2>2
<1> DEFINE Good(k) ==
             /\ f[k] \in Seq(T)
             /\ \A x \in ToSet(f[k]) : x # id /\ \E i \in 1..k : x = list[i]
             /\ \A i \in 1..k : list[i] # id => list[i] \in ToSet(f[k])
             /\ IsInjective(list) => IsInjective(f[k])
           P == {k \in 0..n : Good(k)}
<1>5. 0 \in P
  <2>1. <<>> \in Seq(T) /\ ToSet(<<>>) = {} /\ IsInjective(<<>>)
    BY DEF ToSet, IsInjective
  <2>2. f[0] \in Seq(T) /\ ToSet(f[0]) = {} /\ IsInjective(f[0])
    BY <1>3, <2>1
  <2>3. Good(0)
    BY <2>2
  <2> QED BY <1>1, <2>3
<1>6. ASSUME NEW k \in 0..(n - 1), k \in P PROVE k + 1 \in P
  <2>1. /\ k + 1 \in 1..n /\ (k + 1) - 1 = k /\ Good(k)
        /\ \A i \in 1..(k + 1) : i \in 1..k \/ i = k + 1
        /\ \A i \in 1..k : i \in 1..(k + 1) /\ i # k + 1 /\ i \in 1..n
    BY <1>1, <1>6
  <2>2. k + 1 \in 1..(k + 1) /\ k + 1 \in 0..n
    BY <1>1
  <2> HIDE DEF P
  <2>3. CASE list[k + 1] = id
    <3>1. f[k + 1] = f[k]
      BY <1>4, <2>1, <2>3
    <3>2. Good(k + 1)
      BY <2>1, <2>3, <3>1
    <3> QED BY <2>2, <3>2 DEF P
  <2>4. CASE list[k + 1] # id
    <3> PICK e : e = list[k + 1]
      OBVIOUS
    <3>1. f[k + 1] = Append(f[k], e) /\ e \in T
      BY <1>1, <1>4, <2>1, <2>4
    <3>2. f[k + 1] \in Seq(T)
      BY <2>1, <3>1, Appended
    <3>3. ASSUME NEW x \in ToSet(f[k + 1]) PROVE x # id /\ \E i \in 1..(k + 1) : x = list[i]
      <4>1. x \in ToSet(f[k]) \/ x = e
        BY <2>1, <3>1, <3>3, Appended
      <4> QED BY <2>1, <2>2, <2>4, <4>1
    <3>4. ASSUME NEW i \in 1..(k + 1), list[i] # id PROVE list[i] \in ToSet(f[k + 1])
      <4>1. list[i] \in ToSet(f[k]) \/ list[i] = e
        BY <2>1, <3>4
      <4> QED BY <2>1, <3>1, <4>1, Appended
    <3>5. ASSUME IsInjective(list) PROVE IsInjective(f[k + 1])
      <4>1. e \notin ToSet(f[k])
        <5>1. ASSUME NEW i \in 1..k, e = list[i] PROVE FALSE
          <6>1. i \in DOMAIN list /\ k + 1 \in DOMAIN list /\ i # k + 1
            BY <2>1, Listed
          <6> QED BY <3>5, <5>1, <6>1 DEF IsInjective
        <5> QED BY <2>1, <5>1
      <4> QED BY <2>1, <3>1, <3>5, <4>1, Appended
    <3>6. Good(k + 1)
      BY <3>2, <3>3, <3>4, <3>5
    <3> QED BY <2>2, <3>6 DEF P
  <2> QED BY <2>3, <2>4
<1>7. n \in P
  <2> HIDE DEF P
  <2> QED BY <1>1, <1>5, <1>6, CountingInduction
<1>8. ASSUME NEW x \in ToSet(list) PROVE \E i \in 1..n : x = list[i]
  BY Listed
<1>9. ASSUME NEW i \in 1..n PROVE list[i] \in ToSet(list)
  BY Listed
<1> QED BY <1>2, <1>7, <1>8, <1>9

-----------------------------------------------------------------------------
(***************************************************************************)
(* The walk through the list.  Keys are compared, never counted: a page is *)
(* the next rows below a key, whatever was inserted or deleted before.     *)
(***************************************************************************)

\* What the list holds of the table: rows are told apart by their ids, which are drawn
\* once, and a row keeps its time.
StoredRow == [at : Nat, id : Id, trip : {"here", "elsewhere"}, read : BOOLEAN]
RowsOK ==
  /\ IsFiniteSet(rows) /\ rows \subseteq StoredRow
  /\ \A row \in rows : row.id \in used
  /\ \A r, s \in rows : r.id = s.id => r = s

Keys == Nat \X Id
Cursors == Keys \cup {NoKey}

\* The key k lies below the key l.
Under(k, l) == l = NoKey \/ k[1] < l[1] \/ (k[1] = l[1] /\ k[2] < l[2])

\* Of the rows of a table with these ids none is below key.
Reached(table, ids, key) == key # NoKey => \A row \in table : row.id \in ids => ~Below(row, key)

\* Of these ids those with a row between two keys are listed.
Covered(table, ids, from, to, listed) ==
  \A row \in table :
    row.id \in ids /\ Below(row, from) /\ (to = NoKey \/ ~Below(row, to)) => row.id \in listed

\* A row of the table.
LEMMA RowIs ==
  ASSUME RowsOK, NEW row \in rows
  PROVE  row.at \in Nat /\ row.id \in Id /\ row.id \in Nat /\ row.id \in used
BY FeedAssumption DEF RowsOK, StoredRow

\* The key of a row: below it lie the rows that come after this one in the list.
LEMMA KeyIs ==
  ASSUME RowsOK, NEW row \in rows
  PROVE  Key(row) \in Keys /\ Key(row) # NoKey
                  /\ \A other \in rows : Below(other, Key(row)) <=> Newer(row, other)
<1>1. row.at \in Nat /\ row.id \in Id
  BY RowIs
<1>2. Key(row) \in Keys /\ Key(row) # NoKey /\ Key(row)[1] = row.at /\ Key(row)[2] = row.id
  BY <1>1 DEF Key, Keys, NoKey
<1>3. ASSUME NEW other \in rows PROVE Below(other, Key(row)) <=> Newer(row, other)
  <2>1. other.at \in Nat /\ other.id \in Nat /\ row.id \in Nat
    BY RowIs
  <2> QED BY <1>1, <1>2, <2>1 DEF Below, Newer
<1> QED BY <1>2, <1>3

\* The order of the query on a set of rows, as pairs.
Order(E) == {pair \in E \X E : Newer(pair[1], pair[2])}

\* Rows differ in their ids, so the order of the query decides between any two.
LEMMA NewerIsAnOrder ==
  ASSUME RowsOK, NEW E \in SUBSET rows
  PROVE  IsOrder(Order(E), E)
<1>1. \A p, q \in E : <<p, q>> \in Order(E) <=> Newer(p, q)
  BY DEF Order
<1>2. \A p \in E : p.at \in Nat /\ p.id \in Nat
  BY RowIs
<1>3. \A p \in E : ~Newer(p, p)
  BY <1>2 DEF Newer
<1>4. \A p, q \in E : p # q => Newer(p, q) \/ Newer(q, p)
  <2> SUFFICES ASSUME NEW p \in E, NEW q \in E, p # q PROVE Newer(p, q) \/ Newer(q, p)
    OBVIOUS
  <2>1. p.id # q.id
    BY DEF RowsOK
  <2> QED BY <1>2, <2>1 DEF Newer
<1>5. \A p, q, r \in E : Newer(p, q) /\ Newer(q, r) => Newer(p, r)
  BY <1>2 DEF Newer
<1> QED BY <1>1, <1>3, <1>4, <1>5 DEF IsOrder

\* The query finds the rows it selects, newest first.
LEMMA SortedIs ==
  ASSUME RowsOK, NEW E \in SUBSET rows
  PROVE  LET s == Sorted(E) n == Cardinality(E)
         IN /\ n \in Nat /\ s \in [1..n -> E] /\ Len(s) = n
            /\ \A a, b \in 1..n : a < b => Newer(s[a], s[b])
            /\ \A p \in E : \E a \in 1..n : s[a] = p
<1>0. IsFiniteSet(E)
  BY FS_Subset DEF RowsOK
<1>1. PICK s, R, n : s = Sorted(E) /\ R = Order(E) /\ n = Cardinality(E)
  OBVIOUS
<1>2. IsOrder(R, E)
  BY <1>1, NewerIsAnOrder
<1>3. \A t \in [1..n -> E] :
        (\A a, b \in DOMAIN t : a < b => Newer(t[a], t[b])) <=> InOrder(t, R)
  BY <1>1 DEF InOrder, Order
<1>4. Listing(E, R) # {}
  BY <1>0, <1>2, ListingExists
<1>5. s \in Listing(E, R)
  BY <1>1, <1>3, <1>4 DEF Listing, Sorted
<1>6. DOMAIN s = 1..n /\ n \in Nat /\ \A p \in E : \E a \in DOMAIN s : s[a] = p
  BY <1>0, <1>1, <1>2, <1>5, ListingIs
<1>7. s \in [1..n -> E] /\ InOrder(s, R)
  BY <1>1, <1>5 DEF Listing
<1>8. \A a, b \in 1..n : a < b => Newer(s[a], s[b])
  BY <1>3, <1>6, <1>7
<1>9. s \in Seq(E) /\ Len(s) = n
  BY <1>6, <1>7, SeqDef
<1> QED BY <1>1, <1>6, <1>7, <1>8, <1>9

\* A page holds at least one row.
LEMMA PageSizeIs == PageSize \in Nat \ {0}
<1>1. ASSUME NEW a \in Int, NEW b \in Int
      PROVE  /\ Min({a, b}) \in {a, b} /\ Max({a, b}) \in {a, b}
             /\ Max({a, b}) >= a
  <2>1. \E x \in {a, b} : \A y \in {a, b} : x <= y
    OBVIOUS
  <2>2. \E x \in {a, b} : \A y \in {a, b} : x >= y
    OBVIOUS
  <2>3. Min({a, b}) \in {a, b}
    BY <2>1 DEF Min
  <2>4. Max({a, b}) \in {a, b} /\ \A y \in {a, b} : Max({a, b}) >= y
    BY <2>2 DEF Max
  <2> QED BY <2>3, <2>4
<1>2. PICK m : m = Min({Asked, MaxPage})
  OBVIOUS
<1>3. m \in Int
  <2>1. Asked \in Int /\ MaxPage \in Int
    BY PageAssumption
  <2>2. m \in {Asked, MaxPage}
    BY <1>1, <1>2, <2>1
  <2> QED BY <2>1, <2>2
<1>4. PageSize \in {1, m} /\ PageSize >= 1
  BY <1>1, <1>2, <1>3 DEF PageSize
<1> QED BY <1>3, <1>4

\* A list as a function.
LEMMA FunctionIsList ==
  ASSUME NEW n \in Nat, NEW T, NEW f \in [1..n -> T]
  PROVE  f \in Seq(T) /\ Len(f) = n
BY SeqDef

\* No two positions alike.
LEMMA OnceEach ==
  ASSUME NEW f, NEW n, DOMAIN f = 1..n, \A a, b \in 1..n : f[a] = f[b] => a = b
  PROVE  IsInjective(f)
BY DEF IsInjective

\* What a page promises: the next rows below a key, each once, and where to go on.
LEMMA PageIs ==
  ASSUME RowsOK, NEW before \in Cursors, NEW ids, NEW to,
         Page(before) = [items |-> ids, next |-> to]
  PROVE  /\ ids \in Seq(Id) /\ to \in Cursors
         /\ ToSet(ids) \subseteq {row.id : row \in rows}
         /\ IsInjective(ids)
         /\ \A row \in rows : row.id \in ToSet(ids) => Below(row, before)
         /\ Reached(rows, ToSet(ids), to)
         /\ to # NoKey => Under(to, before)
         /\ Covered(rows, {row.id : row \in rows}, before, to, ToSet(ids))
<1> PICK E, s, n :
      E = {row \in rows : Below(row, before)} /\ s = Sorted(E) /\ n = Cardinality(E)
  OBVIOUS
<1>1. /\ n \in Nat /\ s \in [1..n -> E] /\ Len(s) = n
      /\ \A a, b \in 1..n : a < b => Newer(s[a], s[b])
      /\ \A p \in E : \E a \in 1..n : s[a] = p
  BY SortedIs
<1> PICK size, last : size = PageSize /\ last = Min({size, n})
  OBVIOUS
<1>2. /\ size \in Nat /\ size >= 1 /\ last \in 0..n /\ last <= size
      /\ last = n \/ (last = size /\ size < n)
  <2>1. size \in Nat /\ size >= 1
    BY PageSizeIs
  <2>2. \E x \in {size, n} : \A y \in {size, n} : x <= y
    BY <1>1, <2>1
  <2>3. last \in {size, n} /\ \A y \in {size, n} : last <= y
    BY <2>2 DEF Min
  <2> QED BY <1>1, <2>1, <2>3
<1>3. /\ ids = [i \in 1..last |-> s[i].id]
      /\ to = IF n > size THEN Key(s[size]) ELSE NoKey
  <2>1. PICK x, y : /\ x = [i \in 1..last |-> s[i].id]
                    /\ y = IF n > size THEN Key(s[size]) ELSE NoKey
    OBVIOUS
  <2>2. Page(before) = [items |-> x, next |-> y]
    BY <1>1, <2>1 DEF Page
  <2>3. ids = x /\ to = y
    BY <2>2
  <2> QED BY <2>1, <2>3
<1>4. \A i \in 1..last : i \in 1..n /\ s[i] \in rows /\ s[i] \in E
  BY <1>1, <1>2
<1>6. last \in Nat /\ ids \in [1..last -> Id] /\ \A i \in 1..last : ids[i] = s[i].id
  <2>1. \A i \in 1..last : s[i].id \in Id
    BY <1>4, RowIs
  <2>2. ids = [i \in 1..last |-> s[i].id] /\ last \in Nat
    BY <1>2, <1>3
  <2>3. \A i \in 1..last : ids[i] = s[i].id
    BY <2>2
  <2>4. ids \in [1..last -> Id]
    BY <2>1, <2>2
  <2> QED BY <2>2, <2>3, <2>4
<1>5. ids \in Seq(Id)
  BY <1>6, FunctionIsList
<1>16. ASSUME NEW i \in 1..last PROVE s[i].id \in ToSet(ids)
  <2>1. i \in DOMAIN ids /\ ids[i] = s[i].id
    BY <1>6
  <2> QED BY <2>1 DEF ToSet
<1>17. ASSUME NEW x \in ToSet(ids) PROVE \E i \in 1..last : x = s[i].id
  <2>1. PICK i \in DOMAIN ids : x = ids[i]
    BY DEF ToSet
  <2>2. i \in 1..last /\ ids[i] = s[i].id
    BY <1>6, <2>1
  <2> QED BY <2>1, <2>2
<1>7. to # NoKey => n > size /\ size = last /\ to = Key(s[last]) /\ last \in 1..last
  BY <1>1, <1>2, <1>3
<1>8. to \in Cursors
  BY <1>4, <1>7, KeyIs DEF Cursors
<1>9. ToSet(ids) \subseteq {row.id : row \in rows}
  BY <1>4, <1>17
<1>10. \A row \in rows : row.id \in ToSet(ids) <=> \E i \in 1..last : row = s[i]
  <2> TAKE row \in rows
  <2>1. ASSUME row.id \in ToSet(ids) PROVE \E i \in 1..last : row = s[i]
    <3>1. PICK i \in 1..last : row.id = s[i].id
      BY <1>17, <2>1
    <3> QED BY <1>4, <3>1 DEF RowsOK
  <2>2. ASSUME NEW i \in 1..last, row = s[i] PROVE row.id \in ToSet(ids)
    BY <1>16, <2>2
  <2> QED BY <2>1, <2>2
<1>11. IsInjective(ids)
  <2>1. ASSUME NEW a \in 1..last, NEW b \in 1..last, ids[a] = ids[b] PROVE a = b
    <3>5. s[a].id = s[b].id /\ s[a] \in rows /\ s[b] \in rows
      BY <1>4, <1>6, <2>1
    <3>1. s[a] = s[b]
      BY <3>5 DEF RowsOK
    <3>2. s[a].at \in Nat /\ s[a].id \in Nat /\ a \in 1..n /\ b \in 1..n
      BY <1>4, RowIs
    <3>3. ~Newer(s[a], s[a])
      BY <3>2 DEF Newer
    <3>4. ~(a < b) /\ ~(b < a)
      BY <1>1, <3>1, <3>2, <3>3
    <3> QED BY <1>2, <3>4
  <2>2. DOMAIN ids = 1..last
    BY <1>6
  <2> QED BY <2>1, <2>2, OnceEach
<1>12. \A row \in rows : row.id \in ToSet(ids) => Below(row, before)
  BY <1>4, <1>10
<1>13. Reached(rows, ToSet(ids), to)
  <2> SUFFICES ASSUME to # NoKey, NEW i \in 1..last PROVE ~Below(s[i], to)
    BY <1>10 DEF Reached
  <2>1. to = Key(s[last]) /\ last \in 1..last
    BY <1>7
  <2>2. Below(s[i], to) <=> Newer(s[last], s[i])
    BY <1>4, <2>1, KeyIs
  <2>3. i = last \/ Newer(s[i], s[last])
    BY <1>1, <1>2, <1>4, <2>1
  <2>4. /\ s[i].at \in Nat /\ s[i].id \in Nat
        /\ s[last].at \in Nat /\ s[last].id \in Nat
    BY <1>4, <2>1, RowIs
  <2>5. ~Newer(s[last], s[i])
    BY <2>3, <2>4 DEF Newer
  <2> QED BY <2>2, <2>5
<1>14. to # NoKey => Under(to, before)
  <2> SUFFICES ASSUME to # NoKey PROVE Under(to, before)
    OBVIOUS
  <2>1. to = Key(s[last]) /\ last \in 1..last
    BY <1>7
  <2>2. Below(s[last], before)
    BY <1>4, <2>1
  <2>3. to[1] = s[last].at /\ to[2] = s[last].id
    BY <2>1 DEF Key
  <2> QED BY <2>2, <2>3 DEF Under, Below
<1>15. Covered(rows, {row.id : row \in rows}, before, to, ToSet(ids))
  <2> SUFFICES ASSUME NEW row \in rows, Below(row, before),
                      to = NoKey \/ ~Below(row, to)
               PROVE  \E i \in 1..last : row = s[i]
    BY <1>10 DEF Covered
  <2>1. PICK k \in 1..n : s[k] = row
    BY <1>1
  <2>2. CASE last = n
    BY <2>1, <2>2
  <2>3. CASE last = size /\ size < n
    <3>1. to = Key(s[last]) /\ last \in 1..last /\ to # NoKey
      <4>1. last \in 1..last
        BY <1>2, <2>3
      <4>2. to = Key(s[last])
        BY <1>2, <1>3, <2>3
      <4> QED BY <1>4, <4>1, <4>2, KeyIs
    <3>2. ~Newer(s[last], s[k])
      BY <1>4, <2>1, <3>1, KeyIs
    <3>3. ~(last < k)
      <4>1. last \in 1..n /\ k \in 1..n
        BY <1>4, <3>1
      <4> QED BY <1>1, <3>2, <4>1
    <3>4. k \in 1..last
      BY <1>1, <1>2, <3>3
    <3> QED BY <2>1, <3>4
  <2> QED BY <1>2, <2>2, <2>3
<1> QED BY <1>5, <1>8, <1>9, <1>11, <1>12, <1>13, <1>14, <1>15

\* A page request, and its page.
Fetch ==
  [kind : {"first", "more"}, before : Cursors, current : BOOLEAN, done : BOOLEAN,
   page : [items : Seq(Id), next : Cursors], base : SUBSET Id]

WalkTypeOK ==
  /\ used \in SUBSET Id /\ today \in Nat /\ \A r \in Req : req[r].at \in Nat
  /\ shown \in Seq(Id) /\ cursor \in Cursors /\ clean \in BOOLEAN
  /\ \A f \in fetches : f \in Fetch

\* A list with these ids, whose next page starts below key, is right for a table of
\* which these ids were there from the start.
ListRight(table, start, list, key) ==
  /\ IsInjective(list) /\ Reached(table, ToSet(list), key)
  /\ Covered(table, start, NoKey, key, ToSet(list))

\* The page of a request that is answered holds the next rows of the table.
PageRight(table, f) ==
  /\ IsInjective(f.page.items) /\ Reached(table, ToSet(f.page.items), f.page.next)
  /\ f.page.next # NoKey => Under(f.page.next, f.before)
  /\ f.kind = "first" => Covered(table, f.base, NoKey, f.page.next, ToSet(f.page.items))

\* And it goes on where the list ends.
Continues(table, start, list, f) ==
  /\ \A id \in ToSet(f.page.items) : id \notin ToSet(list)
  /\ Covered(table, start, f.before, f.page.next, ToSet(f.page.items))

FetchRight(f) ==
  /\ f.kind = "first" <=> f.before = NoKey
  /\ ToSet(f.page.items) \subseteq used /\ f.base \subseteq used
  /\ f.done => PageRight(rows, f)
  /\ f.kind = "more" /\ f.current /\ clean =>
       f.before = cursor /\ (f.done => Continues(rows, base, shown, f))

\* The inductive invariant of the walk.
WalkInv ==
  /\ WalkTypeOK /\ RowsOK
  /\ ToSet(shown) \subseteq used /\ base \subseteq used
  /\ clean => ListRight(rows, base, shown, cursor)
  /\ \A f \in fetches : FetchRight(f)
  /\ \A f, g \in fetches : f.current /\ g.current => f = g

\* Whoever has an id of the drawn ones in the later table had it before, at that time.
Follows(table, later, drawn) ==
  \A row \in later : row.id \in drawn => \E old \in table : old.id = row.id /\ old.at = row.at

\* What the list has reached stays reached: a row that arrives has an id never drawn
\* before.
LEMMA StaysReached ==
  ASSUME NEW table, NEW later, NEW drawn, Follows(table, later, drawn),
         NEW ids \in SUBSET drawn, NEW key, Reached(table, ids, key)
  PROVE  Reached(later, ids, key)
<1> SUFFICES ASSUME key # NoKey, NEW row \in later, row.id \in ids PROVE ~Below(row, key)
  BY DEF Reached
<1>1. PICK old \in table : old.id = row.id /\ old.at = row.at
  BY DEF Follows
<1>2. ~Below(old, key)
  BY <1>1 DEF Reached
<1> QED BY <1>1, <1>2 DEF Below

\* The same of what the list covers.
LEMMA StaysCovered ==
  ASSUME NEW table, NEW later, NEW drawn, Follows(table, later, drawn),
         NEW ids \in SUBSET drawn, NEW from, NEW to, NEW listed,
         Covered(table, ids, from, to, listed)
  PROVE  Covered(later, ids, from, to, listed)
<1> SUFFICES ASSUME NEW row \in later, row.id \in ids, Below(row, from),
                    to = NoKey \/ ~Below(row, to)
             PROVE  row.id \in listed
  BY DEF Covered
<1>1. PICK old \in table : old.id = row.id /\ old.at = row.at
  BY DEF Follows
<1>2. Below(old, from) /\ (to = NoKey \/ ~Below(old, to))
  BY <1>1 DEF Below
<1> QED BY <1>1, <1>2 DEF Covered

\* What happens to the table leaves the list right.
LEMMA RowsChange ==
  ASSUME WalkInv, RowsOK', used \subseteq used', used' \subseteq Id,
         Follows(rows, rows', used), UNCHANGED listVars,
         today' \in Nat, \A r \in Req : req'[r].at \in Nat
  PROVE  WalkInv'
<1>1. /\ shown' = shown /\ cursor' = cursor /\ fetches' = fetches /\ base' = base
      /\ clean' = clean
  BY DEF listVars
<1>2. WalkTypeOK'
  BY <1>1 DEF WalkInv, WalkTypeOK
<1>3. ToSet(shown) \subseteq used' /\ base \subseteq used'
  BY DEF WalkInv
<1>4. clean => ListRight(rows', base, shown, cursor)
  <2> SUFFICES ASSUME clean PROVE ListRight(rows', base, shown, cursor)
    OBVIOUS
  <2>1. /\ ListRight(rows, base, shown, cursor)
        /\ ToSet(shown) \subseteq used /\ base \subseteq used
    BY DEF WalkInv
  <2>2. Reached(rows', ToSet(shown), cursor)
    BY <2>1, StaysReached DEF ListRight
  <2>3. Covered(rows', base, NoKey, cursor, ToSet(shown))
    BY <2>1, StaysCovered DEF ListRight
  <2> QED BY <2>1, <2>2, <2>3 DEF ListRight
<1>5. ASSUME NEW f \in fetches PROVE FetchRight(f)'
  <2> PICK ids : ids = ToSet(f.page.items)
    OBVIOUS
  <2>0. FetchRight(f) /\ base \subseteq used
    BY DEF WalkInv
  <2>1. ids \subseteq used /\ f.base \subseteq used
    BY <2>0 DEF FetchRight
  <2>2. ASSUME f.done PROVE PageRight(rows', f)
    <3>1. PageRight(rows, f)
      BY <2>0, <2>2 DEF FetchRight
    <3>2. Reached(rows', ids, f.page.next)
      BY <2>1, <3>1, StaysReached DEF PageRight
    <3>3. f.kind = "first" => Covered(rows', f.base, NoKey, f.page.next, ids)
      BY <2>1, <3>1, StaysCovered DEF PageRight
    <3> QED BY <3>1, <3>2, <3>3 DEF PageRight
  <2>3. ASSUME Continues(rows, base, shown, f) PROVE Continues(rows', base, shown, f)
    <3>1. Covered(rows', base, f.before, f.page.next, ids)
      BY <2>0, <2>3, StaysCovered DEF Continues
    <3> QED BY <2>3, <3>1 DEF Continues
  <2>4. f.base \subseteq used' /\ ids \subseteq used'
    BY <2>1
  <2> QED BY <1>1, <2>0, <2>2, <2>3, <2>4 DEF FetchRight
<1> QED BY <1>1, <1>2, <1>3, <1>4, <1>5 DEF WalkInv

\* The requests under way need no more than that the table stays.
LEMMA ListChanges ==
  ASSUME WalkInv, UNCHANGED <<rows, used, today, req>>, WalkTypeOK',
         ToSet(shown') \subseteq used, base' \subseteq used,
         clean' => ListRight(rows, base', shown', cursor'),
         \A f \in fetches' : FetchRight(f)',
         \A f, g \in fetches' : f.current /\ g.current => f = g
  PROVE  WalkInv'
BY DEF WalkInv, RowsOK

\* At the start nothing is shown and nothing is under way.
LEMMA WalkInit == Init => WalkInv
<1> SUFFICES ASSUME Init PROVE WalkInv
  OBVIOUS
<1>1. /\ shown = <<>> /\ cursor = NoKey /\ fetches = {} /\ base = {} /\ clean = TRUE
      /\ used = Old /\ today = 1
      /\ rows = {Row(1, id, "elsewhere") : id \in Old}
  BY DEF Init, ListInit
<1>2. req \in [Req -> {[pc |-> "idle", ask |-> ask, at |-> 0] : ask \in scene.asks}]
  BY DEF Init
<1>3. \A r \in Req : req[r].at = 0
  BY <1>2
<1>4. RowsOK
  <2>1. IsFiniteSet(rows)
    <3>1. PICK f : f = [id \in Old |-> Row(1, id, "elsewhere")]
      OBVIOUS
    <3>2. DOMAIN f = Old /\ rows = {f[id] : id \in Old}
      BY <1>1, <3>1
    <3>3. IsFiniteSet({f[id] : id \in Old})
      BY <3>2, FeedAssumption, ImageIsFinite
    <3> QED BY <3>2, <3>3
  <2>2. ASSUME NEW row \in rows
        PROVE  row \in StoredRow /\ row.id \in Old /\ row = Row(1, row.id, "elsewhere")
    <3>1. PICK id \in Old : row = Row(1, id, "elsewhere")
      BY <1>1
    <3>2. row.id = id /\ id \in Id
      BY <3>1, FeedAssumption DEF Row
    <3>3. row \in StoredRow
      BY <3>1, <3>2 DEF Row, StoredRow
    <3> QED BY <3>1, <3>2, <3>3
  <2> QED BY <1>1, <2>1, <2>2 DEF RowsOK
<1>5. <<>> \in Seq(Id) /\ ToSet(<<>>) = {} /\ IsInjective(<<>>)
  BY EmptyIs
<1>6. WalkTypeOK
  BY <1>1, <1>3, <1>5, FeedAssumption DEF WalkTypeOK, Cursors
<1>7. ListRight(rows, base, shown, cursor)
  BY <1>1, <1>5 DEF ListRight, Reached, Covered
<1> QED BY <1>1, <1>4, <1>5, <1>6, <1>7 DEF WalkInv

-----------------------------------------------------------------------------
\* What becomes of the table.  A part of it is all right.
LEMMA FewerRows ==
  ASSUME WalkInv, NEW T \in SUBSET rows, rows' = T, used' = used
  PROVE  RowsOK' /\ Follows(rows, rows', used)
<1>1. IsFiniteSet(T)
  BY FS_Subset DEF WalkInv, RowsOK
<1>2. RowsOK'
  BY <1>1 DEF WalkInv, RowsOK
<1> QED BY <1>2 DEF Follows

\* A row arrives with an id of its own.
LEMMA RowArrives ==
  ASSUME WalkInv, NEW r \in Req, Record(r)
  PROVE  RowsOK' /\ Follows(rows, rows', used) /\ used \subseteq used' /\ used' \subseteq Id
<1>0. PICK id \in Id \ used :
        rows' = rows \cup {Row(req[r].at, id, "here")} /\ used' = used \cup {id}
  BY DEF Record
<1>1. PICK row :
        /\ row = Row(req[r].at, id, "here")
        /\ rows' = rows \cup {row} /\ used' = used \cup {id}
  BY <1>0
<1>2. row.id = id /\ row \in StoredRow
  BY <1>1 DEF Row, StoredRow, WalkInv, WalkTypeOK
<1>3. IsFiniteSet(rows')
  BY <1>1, FS_AddElement DEF WalkInv, RowsOK
<1>4. \A old \in rows : old.id \in used /\ old.id # id
  BY DEF WalkInv, RowsOK
<1>5. \A p, q \in rows' : p.id = q.id => p = q
  BY <1>1, <1>2, <1>4 DEF WalkInv, RowsOK
<1>6. \A p \in rows' : p.id \in used' /\ p \in StoredRow
  BY <1>1, <1>2, <1>4 DEF WalkInv, RowsOK
<1>7. RowsOK'
  BY <1>3, <1>5, <1>6 DEF RowsOK
<1>8. Follows(rows, rows', used)
  BY <1>1, <1>2 DEF Follows
<1> QED BY <1>1, <1>7, <1>8 DEF WalkInv, WalkTypeOK

\* A mark changes neither time nor id.
LEMMA RowsAreRead ==
  ASSUME WalkInv, MarkRead
  PROVE  RowsOK' /\ Follows(rows, rows', used)
<1>1. PICK ids : rows' = {[row EXCEPT !.read = @ \/ row.id \in ids] : row \in rows}
  BY DEF MarkRead, SetRead
<1>2. PICK f : f = [row \in rows |-> [row EXCEPT !.read = @ \/ row.id \in ids]]
  OBVIOUS
<1>3. DOMAIN f = rows /\ rows' = {f[row] : row \in rows}
  BY <1>1, <1>2
<1>4. IsFiniteSet({f[row] : row \in rows})
  BY <1>3, ImageIsFinite DEF WalkInv, RowsOK
<1>5. ASSUME NEW row \in rows
      PROVE  f[row] \in StoredRow /\ f[row].id = row.id /\ f[row].at = row.at
  <2>1. row \in StoredRow
    BY DEF WalkInv, RowsOK
  <2>2. PICK mark \in BOOLEAN : mark = (row.read \/ row.id \in ids)
    OBVIOUS
  <2>3. f[row] = [row EXCEPT !.read = mark]
    BY <1>2, <2>1, <2>2
  <2> QED BY <2>1, <2>3 DEF StoredRow
<1>6. RowsOK'
  <2>1. used' = used
    BY DEF MarkRead
  <2>2. \A p \in rows' : \E row \in rows : p = f[row]
    BY <1>3
  <2>3. \A p \in rows' : p \in StoredRow /\ p.id \in used
    BY <1>5, <2>2 DEF WalkInv, RowsOK
  <2>4. \A p, q \in rows' : p.id = q.id => p = q
    BY <1>5, <2>2 DEF WalkInv, RowsOK
  <2> QED BY <1>3, <1>4, <2>1, <2>3, <2>4 DEF RowsOK
<1>7. Follows(rows, rows', used)
  BY <1>3, <1>5 DEF Follows
<1> QED BY <1>6, <1>7

\* All steps but those of the app's list.
LEMMA OthersKeepTheWalk ==
  ASSUME WalkInv, TellingInv, [Next]_vars
  PROVE  WalkInv' \/ List \/ RemoveShown \/ ClearShown
<1>0. /\ used \subseteq Id /\ today \in Nat /\ today + 1 \in Nat
      /\ \A r \in Req : req[r].at \in Nat
      /\ RowsOK
  BY DEF WalkInv, WalkTypeOK
<1>1. Follows(rows, rows, used)
  BY DEF Follows
<1>2. ASSUME UNCHANGED <<rows, used, listVars>>, today' \in Nat,
             \A r \in Req : req'[r].at \in Nat
      PROVE  WalkInv'
  <2>1. RowsOK'
    BY <1>0, <1>2 DEF RowsOK
  <2> QED BY <1>0, <1>1, <1>2, <2>1, RowsChange
<1>3. ASSUME NEW T \in SUBSET rows, rows' = T, UNCHANGED <<used, listVars, today, req>>
      PROVE  WalkInv'
  BY <1>0, <1>3, FewerRows, RowsChange
<1>4. ASSUME NEW r \in Req, NEW pc, NEW at \in Nat,
             \/ req' = [req EXCEPT ![r].pc = pc]
             \/ req' = [req EXCEPT ![r].pc = pc, ![r].at = at]
      PROVE  \A s \in Req : req'[s].at \in Nat
  BY <1>0, <1>4 DEF TellingInv, TellingTypeOK
<1>5. CASE UNCHANGED vars
  BY <1>0, <1>2, <1>5 DEF vars, tripVars
<1>6. ASSUME NEW r \in Req, Announce(r) PROVE WalkInv'
  <2>1. CASE Commit(r)
    <3>1. PICK pc : req' = [req EXCEPT ![r].pc = pc]
      BY <2>1 DEF Commit
    <3> QED BY <1>0, <1>2, <1>4, <2>1, <3>1 DEF Commit
  <2>2. CASE Payload(r)
    <3>1. PICK pc : pc = IF Notice(req[r].ask).worth THEN "ready" ELSE "done"
      OBVIOUS
    <3>2. \/ req' = [req EXCEPT ![r].pc = pc, ![r].at = today]
          \/ req' = [req EXCEPT ![r].pc = "failed"]
      BY <2>2, <3>1 DEF Payload
    <3>3. \A s \in Req : req'[s].at \in Nat
      BY <1>0, <1>4, <3>2
    <3> QED BY <1>0, <1>2, <2>2, <3>3 DEF Payload
  <2>3. CASE AskRecipients(r)
    <3>1. PICK pc, at : /\ at = IF req[r].at = 0 THEN today ELSE req[r].at
                        /\ req' = [req EXCEPT ![r].pc = pc, ![r].at = at]
      BY <2>3 DEF AskRecipients, TellingInv, TellingTypeOK
    <3> QED BY <1>0, <1>2, <1>4, <2>3, <3>1 DEF AskRecipients
  <2>4. CASE Record(r)
    <3>1. \A s \in Req : req'[s].at \in Nat
      BY <1>0, <1>4, <2>4 DEF Record
    <3> QED BY <1>0, <2>4, <3>1, RowArrives, RowsChange DEF Record
  <2>5. CASE RecordFails(r)
    BY <1>0, <1>2, <1>4, <2>5 DEF RecordFails
  <2> QED BY <1>6, <2>1, <2>2, <2>3, <2>4, <2>5 DEF Announce
<1>7. CASE Leave \/ Join \/ SetMuted
  BY <1>0, <1>2, <1>7 DEF Leave, Join, SetMuted, TakeSeat
<1>8. CASE DeleteTrip
  BY <1>3, <1>8 DEF DeleteTrip
<1>9. CASE MarkRead
  BY <1>0, <1>9, RowsAreRead, RowsChange DEF MarkRead, tripVars
<1>10. CASE Delete
  BY <1>3, <1>10 DEF Delete, RemoveRows, tripVars
<1>11. CASE DeleteIsLost \/ NextDay
  BY <1>0, <1>2, <1>11 DEF DeleteIsLost, NextDay, tripVars
<1>12. CASE Purge
  BY <1>3, <1>12 DEF Purge, tripVars
<1> QED BY <1>5, <1>6, <1>7, <1>8, <1>9, <1>10, <1>11, <1>12 DEF Next

-----------------------------------------------------------------------------
\* What a request is made of.
LEMMA FetchIs ==
  ASSUME NEW f \in Fetch
  PROVE  /\ f.kind \in {"first", "more"} /\ f.before \in Cursors /\ f.base \subseteq Id
         /\ f.current \in BOOLEAN /\ f.done \in BOOLEAN
         /\ f.page.items \in Seq(Id) /\ f.page.next \in Cursors
BY DEF Fetch

\* A refresh makes every page under way one of an older build.
LEMMA RefreshWalks ==
  ASSUME WalkInv, Refresh, UNCHANGED <<used, today, req>>
  PROVE  WalkInv'
<1>1. PICK new : new = Ask("first", NoKey, TRUE)
  OBVIOUS
<1>2. /\ new \in Fetch /\ new.kind = "first" /\ new.before = NoKey /\ new.current = TRUE
      /\ new.done = FALSE /\ ToSet(new.page.items) = {} /\ new.base = {}
  <2>1. new = [kind |-> "first", before |-> NoKey, current |-> TRUE, done |-> FALSE,
               page |-> [items |-> <<>>, next |-> NoKey], base |-> {}]
    BY <1>1 DEF Ask
  <2>2. new \in Fetch
    BY <2>1, EmptyIs DEF Fetch, Cursors
  <2> QED BY <2>1, <2>2, EmptyIs
<1>3. /\ fetches' = {[f EXCEPT !.current = FALSE] : f \in fetches} \cup {new}
      /\ UNCHANGED <<rows, shown, cursor, base, clean>>
  BY <1>1 DEF Refresh
<1>4. ASSUME NEW g \in fetches', g # new
      PROVE  g \in Fetch /\ g.current = FALSE /\ FetchRight(g)'
  <2>1. PICK f \in fetches : g = [f EXCEPT !.current = FALSE]
    BY <1>3, <1>4
  <2>2. f \in Fetch /\ FetchRight(f)
    BY DEF WalkInv, WalkTypeOK
  <2>3. /\ g \in Fetch /\ g.current = FALSE /\ g.kind = f.kind /\ g.before = f.before
        /\ g.done = f.done /\ g.page = f.page /\ g.base = f.base
    BY <2>1, <2>2 DEF Fetch
  <2>4. f.done => PageRight(rows, g)
    BY <2>2, <2>3 DEF FetchRight, PageRight
  <2> QED BY <1>3, <2>2, <2>3, <2>4 DEF FetchRight
<1>5. FetchRight(new)'
  BY <1>2 DEF FetchRight
<1>6. WalkTypeOK'
  BY <1>2, <1>3, <1>4 DEF WalkInv, WalkTypeOK
<1> QED BY <1>2, <1>3, <1>4, <1>5, <1>6, ListChanges DEF WalkInv

\* The app asks for what lies below the last row it shows, once at a time.
LEMMA LoadMoreWalks ==
  ASSUME WalkInv, LoadMore, UNCHANGED <<used, today, req>>
  PROVE  WalkInv'
<1>1. PICK current \in BOOLEAN : current = ~Building
  OBVIOUS
<1>2. PICK new : new = Ask("more", cursor, current)
  OBVIOUS
<1>3. /\ new \in Fetch /\ new.kind = "more" /\ new.before = cursor /\ new.current = current
      /\ new.done = FALSE /\ ToSet(new.page.items) = {} /\ new.base = {}
  <2>1. new = [kind |-> "more", before |-> cursor, current |-> current, done |-> FALSE,
               page |-> [items |-> <<>>, next |-> NoKey], base |-> {}]
    BY <1>2 DEF Ask
  <2>2. new \in Fetch
    BY <2>1, EmptyIs DEF Fetch, Cursors, WalkInv, WalkTypeOK
  <2> QED BY <2>1, <2>2, EmptyIs
<1>4. /\ fetches' = fetches \cup {new} /\ cursor # NoKey
      /\ UNCHANGED <<rows, shown, cursor, base, clean>>
  <2>1. fetches' = fetches \cup {Ask("more", cursor, ~Building)} /\ current = (~Building)
    BY <1>1 DEF LoadMore
  <2> QED BY <1>2, <2>1 DEF LoadMore
<1>5. ASSUME NEW f \in fetches PROVE f \in Fetch /\ FetchRight(f)'
  BY <1>4 DEF WalkInv, WalkTypeOK, FetchRight
<1>6. FetchRight(new)'
  BY <1>3, <1>4 DEF FetchRight
<1>7. ASSUME current = TRUE, NEW f \in fetches PROVE f.current = FALSE
  <2>1. f.kind \in {"first", "more"} /\ f.current \in BOOLEAN
    BY FetchIs DEF WalkInv, WalkTypeOK
  <2>2. ~Building /\ ~LoadingMore
    BY <1>1, <1>7 DEF LoadMore
  <2> QED BY <2>1, <2>2 DEF Building, LoadingMore
<1>8. WalkTypeOK'
  BY <1>3, <1>4, <1>5 DEF WalkInv, WalkTypeOK
<1>9. \A f, g \in fetches' : f.current /\ g.current => f = g
  BY <1>3, <1>4, <1>7 DEF WalkInv
<1> QED BY <1>4, <1>5, <1>6, <1>8, <1>9, ListChanges DEF WalkInv

\* The server answers.
LEMMA AnswerWalks ==
  ASSUME WalkInv, AnswerPage, UNCHANGED <<used, today, req>>
  PROVE  WalkInv'
<1>1. PICK f \in fetches :
        /\ ~f.done
        /\ fetches' = (fetches \ {f}) \cup
             {[f EXCEPT !.done = TRUE, !.page = Page(f.before),
                !.base = IF f.kind = "first" THEN {row.id : row \in rows} ELSE {}]}
        /\ UNCHANGED <<rows, shown, cursor, base, clean>>
  BY DEF AnswerPage
<1>2. PICK start : start = IF f.kind = "first" THEN {row.id : row \in rows} ELSE {}
  OBVIOUS
<1>3. PICK ids, to : Page(f.before) = [items |-> ids, next |-> to]
  BY DEF Page
<1>4. PICK g : g = [f EXCEPT !.done = TRUE, !.page = [items |-> ids, next |-> to],
                             !.base = start]
  OBVIOUS
<1>5. fetches' = (fetches \ {f}) \cup {g}
  BY <1>1, <1>2, <1>3, <1>4
<1>6. f \in Fetch /\ FetchRight(f) /\ RowsOK
  BY DEF WalkInv, WalkTypeOK
<1>7. f.before \in Cursors
  BY <1>6, FetchIs
<1>8. /\ ids \in Seq(Id) /\ to \in Cursors
      /\ ToSet(ids) \subseteq {row.id : row \in rows}
      /\ IsInjective(ids)
      /\ \A row \in rows : row.id \in ToSet(ids) => Below(row, f.before)
      /\ Reached(rows, ToSet(ids), to)
      /\ to # NoKey => Under(to, f.before)
      /\ Covered(rows, {row.id : row \in rows}, f.before, to, ToSet(ids))
  BY <1>3, <1>6, <1>7, PageIs
<1>9. {row.id : row \in rows} \subseteq used /\ used \subseteq Id
  BY <1>6 DEF RowsOK, WalkInv, WalkTypeOK
<1>10. start \subseteq used /\ start \subseteq Id
  BY <1>2, <1>9
<1>11. /\ g \in Fetch /\ g.kind = f.kind /\ g.before = f.before /\ g.current = f.current
       /\ g.done = TRUE /\ g.page.items = ids /\ g.page.next = to /\ g.base = start
  BY <1>4, <1>6, <1>8, <1>10 DEF Fetch
<1>12. PageRight(rows, g)
  <2>1. ASSUME g.kind = "first" PROVE Covered(rows, start, NoKey, to, ToSet(ids))
    <3>1. f.before = NoKey /\ start = {row.id : row \in rows}
      BY <1>2, <1>6, <1>11, <2>1 DEF FetchRight
    <3> QED BY <1>8, <3>1
  <2> QED BY <1>8, <1>11, <2>1 DEF PageRight
<1>13. ASSUME g.kind = "more", g.current, clean
       PROVE  g.before = cursor /\ Continues(rows, base, shown, g)
  <2>1. f.before = cursor /\ f.before # NoKey
    BY <1>6, <1>11, <1>13 DEF FetchRight
  <2>2. Reached(rows, ToSet(shown), cursor)
    BY <1>13 DEF WalkInv, ListRight
  <2>3. ASSUME NEW id \in ToSet(ids) PROVE id \notin ToSet(shown)
    <3>1. PICK row \in rows : id = row.id
      BY <1>8, <2>3
    <3> QED BY <1>8, <2>1, <2>2, <2>3, <3>1 DEF Reached
  <2>4. Covered(rows, base, f.before, to, ToSet(ids))
    BY <1>8 DEF Covered
  <2> QED BY <1>11, <2>1, <2>3, <2>4 DEF Continues
<1>14. FetchRight(g)'
  <2>1. ToSet(g.page.items) \subseteq used /\ g.base \subseteq used
    BY <1>8, <1>9, <1>10, <1>11
  <2> QED BY <1>1, <1>6, <1>11, <1>12, <1>13, <2>1 DEF FetchRight
<1>15. ASSUME NEW h \in fetches PROVE h \in Fetch /\ FetchRight(h)'
  BY <1>1 DEF WalkInv, WalkTypeOK, FetchRight
<1>16. WalkTypeOK'
  BY <1>1, <1>5, <1>11, <1>15 DEF WalkInv, WalkTypeOK
<1>17. \A p, q \in fetches' : p.current /\ q.current => p = q
  BY <1>5, <1>11 DEF WalkInv
<1> QED BY <1>1, <1>5, <1>14, <1>15, <1>16, <1>17, ListChanges DEF WalkInv

\* An answer that nobody waits for any more, or that never comes.
LEMMA OneFetchLess ==
  ASSUME WalkInv, NEW f \in fetches, fetches' = fetches \ {f},
         UNCHANGED <<rows, used, today, req>>,
         shown' \in Seq(Id), ToSet(shown') \subseteq used, cursor' \in Cursors,
         base' \subseteq used, clean' \in BOOLEAN,
         clean' => ListRight(rows, base', shown', cursor'),
         clean' => f.current \/ UNCHANGED <<shown, cursor, base, clean>>
  PROVE  WalkInv'
<1>1. WalkTypeOK'
  BY DEF WalkInv, WalkTypeOK
<1>2. ASSUME NEW g \in fetches' PROVE FetchRight(g)'
  <2>1. FetchRight(g) /\ (f.current => ~g.current)
    BY DEF WalkInv
  <2> QED BY <2>1 DEF FetchRight
<1> QED BY <1>1, <1>2, ListChanges DEF WalkInv

\* No answer: nothing changes.
LEMMA LoseWalks ==
  ASSUME WalkInv, LosePage, UNCHANGED <<used, today, req>>
  PROVE  WalkInv'
<1>1. PICK f \in fetches :
        fetches' = fetches \ {f} /\ UNCHANGED <<rows, shown, cursor, base, clean>>
  BY DEF LosePage
<1> QED BY <1>1, OneFetchLess DEF WalkInv, WalkTypeOK

\* What an overtaken request still does to the list makes no claim until the refresh.
LEMMA OvertakenWalks ==
  ASSUME WalkInv, ApplyOvertaken, UNCHANGED <<used, today, req>>
  PROVE  WalkInv'
<1>1. PICK f \in fetches :
        /\ fetches' = fetches \ {f}
        /\ \/ UNCHANGED <<shown, cursor, base, clean>>
           \/ /\ cursor' = f.page.next /\ base' = {} /\ clean' = FALSE
              /\ shown' = IF f.kind = "more" THEN shown \o f.page.items ELSE shown
        /\ UNCHANGED rows
  BY DEF ApplyOvertaken
<1>2. f \in Fetch /\ FetchRight(f)
  BY DEF WalkInv, WalkTypeOK
<1>3. f.page.items \in Seq(Id) /\ ToSet(f.page.items) \subseteq used /\ f.page.next \in Cursors
  BY <1>2, FetchIs DEF FetchRight
<1>4. shown \in Seq(Id) /\ ToSet(shown) \subseteq used
  BY DEF WalkInv, WalkTypeOK
<1>5. CASE UNCHANGED <<shown, cursor, base, clean>>
  BY <1>1, <1>5, OneFetchLess DEF WalkInv, WalkTypeOK
<1>6. CASE /\ cursor' = f.page.next /\ base' = {} /\ clean' = FALSE
           /\ shown' = IF f.kind = "more" THEN shown \o f.page.items ELSE shown
  <2>1. shown' \in Seq(Id) /\ ToSet(shown') \subseteq used
    <3>1. CASE shown' = shown
      BY <1>4, <3>1
    <3>2. CASE shown' = shown \o f.page.items
      <4>1. /\ shown \o f.page.items \in Seq(Id)
            /\ \A x : x \in ToSet(shown \o f.page.items) =>
                        x \in ToSet(shown) \/ x \in ToSet(f.page.items)
        BY <1>3, <1>4, Joined
      <4>2. ToSet(shown \o f.page.items) \subseteq used
        BY <1>3, <1>4, <4>1
      <4> QED BY <3>2, <4>1, <4>2
    <3> QED BY <1>6, <3>1, <3>2
  <2> QED BY <1>1, <1>3, <1>6, <2>1, OneFetchLess
<1> QED BY <1>1, <1>5, <1>6

\* The next rows go under the ones that are shown.
LEMMA PagesJoin ==
  ASSUME NEW table, NEW start, NEW list \in Seq(Id), NEW key \in Keys, NEW f \in Fetch,
         \A row \in table : row.at \in Nat /\ row.id \in Nat,
         ListRight(table, start, list, key), PageRight(table, f), f.before = key,
         Continues(table, start, list, f)
  PROVE  ListRight(table, start, list \o f.page.items, f.page.next)
<1> PICK items, next, joined :
      items = f.page.items /\ next = f.page.next /\ joined = list \o items
  OBVIOUS
<1>1. items \in Seq(Id) /\ next \in Cursors
  BY FetchIs
<1>2. /\ joined \in Seq(Id)
      /\ \A x : x \in ToSet(joined) => x \in ToSet(list) \/ x \in ToSet(items)
      /\ \A x : x \in ToSet(list) \/ x \in ToSet(items) => x \in ToSet(joined)
      /\ IsInjective(list) /\ IsInjective(items) /\ ToSet(list) \cap ToSet(items) = {} =>
           IsInjective(joined)
  <2>1. /\ list \o items \in Seq(Id)
        /\ \A x : x \in ToSet(list \o items) => x \in ToSet(list) \/ x \in ToSet(items)
        /\ \A x : x \in ToSet(list) \/ x \in ToSet(items) => x \in ToSet(list \o items)
        /\ IsInjective(list) /\ IsInjective(items) /\ ToSet(list) \cap ToSet(items) = {} =>
             IsInjective(list \o items)
    BY <1>1, Joined
  <2> QED BY <2>1, Zenon
<1>3. IsInjective(joined)
  <2>1. ToSet(list) \cap ToSet(items) = {}
    BY DEF Continues
  <2> QED BY <1>2, <2>1 DEF ListRight, PageRight
<1>4. key # NoKey /\ key[1] \in Nat /\ key[2] \in Nat
  <2>1. PICK a \in Nat, b \in Id : key = <<a, b>>
    BY DEF Keys
  <2>2. b \in Nat /\ key[1] = a /\ key[2] = b
    BY <2>1, FeedAssumption
  <2> QED BY <2>1, <2>2 DEF NoKey
<1>5. Reached(table, ToSet(joined), next)
  <2> SUFFICES ASSUME next # NoKey, NEW row \in table, row.id \in ToSet(joined)
               PROVE  ~Below(row, next)
    BY DEF Reached
  <2>1. CASE row.id \in ToSet(items)
    BY <2>1 DEF PageRight, Reached
  <2>2. CASE row.id \in ToSet(list)
    <3>1. ~Below(row, key)
      BY <1>4, <2>2 DEF ListRight, Reached
    <3>2. Under(next, key)
      BY DEF PageRight
    <3>3. next[1] \in Nat /\ next[2] \in Nat
      BY <1>1, FeedAssumption DEF Cursors, Keys
    <3>4. row.at \in Nat /\ row.id \in Nat
      OBVIOUS
    <3> QED BY <1>4, <3>1, <3>2, <3>3, <3>4 DEF Below, Under
  <2> QED BY <1>2, <2>1, <2>2
<1>6. Covered(table, start, NoKey, next, ToSet(joined))
  <2> SUFFICES ASSUME NEW row \in table, row.id \in start, next = NoKey \/ ~Below(row, next)
               PROVE  row.id \in ToSet(list) \/ row.id \in ToSet(items)
    BY <1>2 DEF Covered
  <2>1. CASE Below(row, key)
    BY <2>1 DEF Continues, Covered
  <2>2. CASE ~Below(row, key)
    BY <2>2 DEF ListRight, Covered, Below
  <2> QED BY <2>1, <2>2
<1> QED BY <1>3, <1>5, <1>6 DEF ListRight

\* An answer goes into the list: a first page replaces it, a next one continues it.
LEMMA ApplyWalks ==
  ASSUME WalkInv, ApplyPage, UNCHANGED <<used, today, req>>
  PROVE  WalkInv'
<1>1. PICK f \in fetches :
        /\ f.done /\ f.current
        /\ fetches' = fetches \ {f}
        /\ cursor' = f.page.next
        /\ IF f.kind = "first"
           THEN shown' = f.page.items /\ base' = f.base /\ clean' = TRUE
           ELSE shown' = shown \o f.page.items /\ UNCHANGED <<base, clean>>
        /\ UNCHANGED rows
  BY DEF ApplyPage
<1>2. f \in Fetch /\ FetchRight(f) /\ PageRight(rows, f)
  BY <1>1 DEF WalkInv, WalkTypeOK, FetchRight
<1>3. /\ f.page.items \in Seq(Id) /\ ToSet(f.page.items) \subseteq used
      /\ f.page.next \in Cursors /\ f.base \subseteq used /\ f.before \in Cursors
      /\ f.kind \in {"first", "more"}
  BY <1>2, FetchIs DEF FetchRight
<1>4. CASE f.kind = "first"
  <2>1. ListRight(rows, f.base, f.page.items, f.page.next)
    BY <1>2, <1>4 DEF PageRight, ListRight
  <2> QED BY <1>1, <1>3, <1>4, <2>1, OneFetchLess
<1>5. CASE f.kind = "more"
  <2>1. /\ shown \in Seq(Id) /\ ToSet(shown) \subseteq used
        /\ base \subseteq used /\ clean \in BOOLEAN
    BY DEF WalkInv, WalkTypeOK
  <2>2. PICK joined : joined = shown \o f.page.items
    OBVIOUS
  <2>3. joined \in Seq(Id) /\ ToSet(joined) \subseteq used
    <3>1. /\ shown \o f.page.items \in Seq(Id)
          /\ \A x : x \in ToSet(shown \o f.page.items) =>
                      x \in ToSet(shown) \/ x \in ToSet(f.page.items)
      BY <1>3, <2>1, Joined
    <3>2. ToSet(shown \o f.page.items) \subseteq used
      BY <1>3, <2>1, <3>1
    <3> QED BY <2>2, <3>1, <3>2
  <2>4. ASSUME clean PROVE ListRight(rows, base, joined, f.page.next)
    <3>1. f.before = cursor /\ Continues(rows, base, shown, f) /\ f.before # NoKey
      BY <1>1, <1>2, <1>5, <2>4 DEF FetchRight
    <3>2. cursor \in Keys
      BY <1>3, <3>1 DEF Cursors
    <3>3. ListRight(rows, base, shown, cursor)
      BY <2>4 DEF WalkInv
    <3>4. \A row \in rows : row.at \in Nat /\ row.id \in Nat
      BY RowIs DEF WalkInv
    <3>5. ListRight(rows, base, shown \o f.page.items, f.page.next)
      BY <1>2, <2>1, <3>1, <3>2, <3>3, <3>4, PagesJoin
    <3> QED BY <2>2, <3>5
  <2>5. /\ shown' = joined /\ base' = base /\ cursor' = f.page.next /\ rows' = rows
        /\ clean' = clean /\ fetches' = fetches \ {f} /\ f.current
    BY <1>1, <1>5, <2>2
  <2>6. clean' => ListRight(rows, base', shown', cursor')
    BY <2>4, <2>5, Zenon
  <2> QED BY <1>3, <2>1, <2>3, <2>5, <2>6, OneFetchLess
<1> QED BY <1>3, <1>4, <1>5

\* A row dropped from the list, and all of them.
LEMMA ListShrinks ==
  ASSUME WalkInv, UNCHANGED <<rows, cursor, fetches, clean, used, today, req>>,
         shown' \in Seq(Id), \A id \in ToSet(shown') : id \in ToSet(shown),
         IsInjective(shown) => IsInjective(shown'),
         base' \subseteq base, \A id \in base' : id \in ToSet(shown) => id \in ToSet(shown')
  PROVE  WalkInv'
<1>1. WalkTypeOK'
  BY DEF WalkInv, WalkTypeOK
<1>2. ToSet(shown) \subseteq used /\ base \subseteq used
  BY DEF WalkInv
<1>3. ASSUME clean PROVE ListRight(rows, base', shown', cursor)
  <2>1. ListRight(rows, base, shown, cursor)
    BY <1>3 DEF WalkInv
  <2>2. Reached(rows, ToSet(shown'), cursor)
    BY <2>1 DEF ListRight, Reached
  <2>3. Covered(rows, base', NoKey, cursor, ToSet(shown'))
    BY <2>1 DEF ListRight, Covered
  <2> QED BY <2>1, <2>2, <2>3 DEF ListRight
<1>4. ASSUME NEW f \in fetches PROVE FetchRight(f)'
  <2>1. FetchRight(f)
    BY DEF WalkInv
  <2>2. ASSUME Continues(rows, base, shown, f) PROVE Continues(rows, base', shown', f)
    BY <2>2 DEF Continues, Covered
  <2> QED BY <2>1, <2>2 DEF FetchRight
<1> QED BY <1>1, <1>2, <1>3, <1>4, ListChanges DEF WalkInv

\* Dropping a row.
LEMMA RemoveWalks ==
  ASSUME WalkInv, RemoveShown
  PROVE  WalkInv'
<1>1. PICK id : /\ shown' = Without(shown, id) /\ base' = base \ {id}
                /\ UNCHANGED <<rows, cursor, fetches, clean, today, req, used>>
  BY DEF RemoveShown, tripVars
<1>2. shown \in Seq(Id)
  BY DEF WalkInv, WalkTypeOK
<1>3. /\ Without(shown, id) \in Seq(Id)
      /\ \A x : x \in ToSet(Without(shown, id)) => x \in ToSet(shown) /\ x # id
      /\ \A x : x \in ToSet(shown) /\ x # id => x \in ToSet(Without(shown, id))
      /\ IsInjective(shown) => IsInjective(Without(shown, id))
  BY <1>2, WithoutIs
<1> QED BY <1>1, <1>3, ListShrinks

\* Clearing the list.
LEMMA ClearWalks ==
  ASSUME WalkInv, ClearShown
  PROVE  WalkInv'
BY EmptyIs, ListShrinks DEF ClearShown, tripVars

\* Every step keeps the walk right.
LEMMA WalkStep == TellingInv /\ WalkInv /\ [Next]_vars => WalkInv'
<1>1. ASSUME WalkInv, List PROVE WalkInv'
  <2>1. UNCHANGED <<used, today, req>> /\ ListNext
    BY <1>1 DEF List, tripVars
  <2> QED BY <1>1, <2>1, RefreshWalks, LoadMoreWalks, AnswerWalks, ApplyWalks,
             OvertakenWalks, LoseWalks DEF ListNext
<1> QED BY <1>1, OthersKeepTheWalk, RemoveWalks, ClearWalks

\* The list on screen is the walk it should be.
LEMMA WalkRight == WalkInv => WalkIsFaithful
BY DEF WalkInv, WalkIsFaithful, ListRight, Covered, Below

\* WalkIsFaithful, for pages of any size, however many rows come and go between them
\* and however many pages are under way.
THEOREM TheWalkIsFaithful == Spec => []WalkIsFaithful
BY TellingInit, TellingStep, WalkInit, WalkStep, WalkRight, PTL DEF Spec
=============================================================================
