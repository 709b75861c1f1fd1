------------------------- MODULE TripContentProofs --------------------------
(***************************************************************************)
(* Proofs about TripContent for any number of accounts, requests in flight *)
(* and rows: its types, that no row outlives the row it hangs on, and that *)
(* whoever departs leaves nothing behind.                                  *)
(***************************************************************************)
EXTENDS TripContent, FiniteSetTheorems, SequenceTheorems, TLAPS

-----------------------------------------------------------------------------
(***************************************************************************)
(* Round trips.  An endpoint's plan is a sequence that ends in its commit, *)
(* and what a request still has to do is a suffix of it.                   *)
(***************************************************************************)
\* Operations whose only round trip is the commit.
CommitOnly == {"create_event", "create_list", "create_pin", "share", "unshare"}

\* Which round trips each endpoint makes.
LEMMA StepsAre ==
  /\ DOMAIN Steps = {"create_event", "create_task", "assign", "edit_item", "delete_item",
                     "complete", "reopen", "create_list", "delete_list", "add_entry",
                     "delete_entry", "check", "uncheck", "create_pin", "update_pin",
                     "delete_pin", "share", "unshare"}
  /\ \A op \in DOMAIN Steps :
       /\ op \in CommitOnly => Steps[op] = <<"commit">>
       /\ op = "create_task" => Steps[op] = <<"members", "commit">>
       /\ op = "assign" => Steps[op] = <<"find", "members", "commit">>
       /\ op \notin CommitOnly \cup {"create_task", "assign"} =>
            Steps[op] = <<"find", "commit">>
BY DEF Steps, NewItem, ItemSteps, NewList, ListSteps, EntrySteps, NewPin, PinSteps,
       PositionSteps, CommitOnly

\* All the round trips of a request, admission first.
Plan(op) == <<"admit">> \o Steps[op]

RoundTrip == {"admit", "find", "members", "commit"}

LEMMA SingleIs ==
  ASSUME NEW S, NEW a \in S
  PROVE  <<a>> \in Seq(S) /\ Len(<<a>>) = 1 /\ <<a>>[1] = a
OBVIOUS

LEMMA PairIs ==
  ASSUME NEW S, NEW a \in S, NEW b \in S
  PROVE  /\ <<a, b>> \in Seq(S) /\ Len(<<a, b>>) = 2
         /\ <<a, b>>[1] = a /\ <<a, b>>[2] = b
OBVIOUS

LEMMA TripleIs ==
  ASSUME NEW S, NEW a \in S, NEW b \in S, NEW c \in S
  PROVE  /\ <<a, b, c>> \in Seq(S) /\ Len(<<a, b, c>>) = 3
         /\ <<a, b, c>>[1] = a /\ <<a, b, c>>[2] = b /\ <<a, b, c>>[3] = c
OBVIOUS

\* The steps of every operation end in its commit.
LEMMA StepsEnd ==
  ASSUME NEW op \in DOMAIN Steps
  PROVE  /\ Steps[op] \in Seq(RoundTrip) /\ Len(Steps[op]) >= 1
         /\ \A i \in 1..Len(Steps[op]) : Steps[op][i] = "commit" <=> i = Len(Steps[op])
         /\ op = "create_task" => Len(Steps[op]) = 2 /\ Steps[op][1] = "members"
         /\ op = "assign" => Len(Steps[op]) = 3 /\ Steps[op][2] = "members"
         /\ op \in CommitOnly => Len(Steps[op]) = 1
<1>1. /\ "admit" \in RoundTrip /\ "find" \in RoundTrip
      /\ "members" \in RoundTrip /\ "commit" \in RoundTrip
  BY DEF RoundTrip
<1>2. CommitOnly \cap {"create_task", "assign"} = {}
  BY DEF CommitOnly
<1>3. ASSUME NEW s, s = <<"commit">>
      PROVE  s \in Seq(RoundTrip) /\ Len(s) = 1 /\ s[1] = "commit"
  BY <1>1, <1>3, SingleIs, Zenon
<1>4. ASSUME NEW s, s = <<"members", "commit">>
      PROVE  s \in Seq(RoundTrip) /\ Len(s) = 2 /\ s[1] = "members" /\ s[2] = "commit"
  BY <1>1, <1>4, PairIs, Zenon
<1>5. ASSUME NEW s, s = <<"find", "commit">>
      PROVE  s \in Seq(RoundTrip) /\ Len(s) = 2 /\ s[1] = "find" /\ s[2] = "commit"
  BY <1>1, <1>5, PairIs, Zenon
<1>6. ASSUME NEW s, s = <<"find", "members", "commit">>
      PROVE  /\ s \in Seq(RoundTrip) /\ Len(s) = 3
             /\ s[1] = "find" /\ s[2] = "members" /\ s[3] = "commit"
  BY <1>1, <1>6, TripleIs, Zenon
<1>7. CASE op \in CommitOnly
  <2>1. Steps[op] = <<"commit">>
    BY <1>7, StepsAre
  <2> QED BY <2>1, <1>2, <1>3, <1>7
<1>8. CASE op = "create_task"
  <2>1. Steps[op] = <<"members", "commit">>
    BY <1>8, StepsAre
  <2> QED BY <2>1, <1>2, <1>4, <1>8
<1>9. CASE op = "assign"
  <2>1. Steps[op] = <<"find", "members", "commit">>
    BY <1>9, StepsAre
  <2> QED BY <2>1, <1>2, <1>6, <1>9
<1>10. CASE op \notin CommitOnly \cup {"create_task", "assign"}
  <2>1. Steps[op] = <<"find", "commit">>
    BY <1>10, StepsAre
  <2> QED BY <2>1, <1>5, <1>10
<1> QED BY <1>7, <1>8, <1>9, <1>10

\* So do the plans, and the members are asked for right before it.
LEMMA PlanIs ==
  ASSUME NEW op \in DOMAIN Steps
  PROVE  /\ Plan(op) \in Seq(RoundTrip) /\ Len(Plan(op)) >= 2
         /\ \A i \in 1..Len(Plan(op)) : Plan(op)[i] = "commit" <=> i = Len(Plan(op))
         /\ op \in {"create_task", "assign"} => Plan(op)[Len(Plan(op)) - 1] = "members"
         /\ op \in CommitOnly => Plan(op)[Len(Plan(op)) - 1] = "admit"
         /\ Plan(op)[1] = "admit"
<1> PICK s : s = Steps[op]
  OBVIOUS
<1> PICK a : a = <<"admit">>
  OBVIOUS
<1>1. a \in Seq(RoundTrip) /\ Len(a) = 1 /\ a[1] = "admit"
  <2>1. "admit" \in RoundTrip
    BY DEF RoundTrip
  <2> QED BY <2>1, SingleIs, Zenon
<1>2. /\ s \in Seq(RoundTrip) /\ Len(s) >= 1
      /\ \A i \in 1..Len(s) : s[i] = "commit" <=> i = Len(s)
      /\ op \in {"create_task", "assign"} => s[Len(s) - 1] = "members" /\ Len(s) >= 2
      /\ op \in CommitOnly => Len(s) = 1
  BY StepsEnd
<1>3. /\ a \o s \in Seq(RoundTrip) /\ Len(a \o s) = Len(s) + 1 /\ (a \o s)[1] = "admit"
      /\ \A i \in 2..Len(s)+1 : (a \o s)[i] = s[i-1]
  BY <1>1, <1>2, ConcatProperties
<1> PICK p : p = a \o s
  OBVIOUS
<1>4. p = Plan(op)
  BY DEF Plan
<1>5. Len(p) - 1 = Len(s) /\ Len(s) \in Nat
  BY <1>2, <1>3
<1>6. ASSUME NEW i \in 1..Len(p) PROVE p[i] = "commit" <=> i = Len(p)
  BY <1>2, <1>3, <1>5
<1>7. op \in {"create_task", "assign"} => p[Len(p) - 1] = "members"
  <2> SUFFICES ASSUME op \in {"create_task", "assign"} PROVE p[Len(p) - 1] = "members"
    OBVIOUS
  <2>1. Len(s) \in 2..Len(s)+1 /\ s[Len(s) - 1] = "members"
    BY <1>2, <1>5
  <2> QED BY <2>1, <1>3, <1>5
<1>8. op \in CommitOnly => p[Len(p) - 1] = "admit"
  BY <1>2, <1>3, <1>5
<1>9. p \in Seq(RoundTrip) /\ Len(p) >= 2 /\ p[1] = "admit"
  BY <1>2, <1>3
<1> QED BY <1>4, <1>6, <1>7, <1>8, <1>9

\* Every round trip but the commit leaves something to do.
LEMMA OnwardIs ==
  ASSUME NEW op \in DOMAIN Steps, NEW todo \in Suffixes(Plan(op)), todo # <<>>,
         Head(todo) # "commit"
  PROVE  /\ Tail(todo) \in Suffixes(Plan(op)) /\ Tail(todo) # <<>>
         /\ Head(Tail(todo)) = "commit" =>
              /\ op \in {"create_task", "assign"} => Head(todo) = "members"
              /\ op \in CommitOnly => Head(todo) = "admit"
<1> PICK p : p = Plan(op)
  OBVIOUS
<1>1. /\ p \in Seq(RoundTrip) /\ Len(p) \in Nat
      /\ \A i \in 1..Len(p) : p[i] = "commit" <=> i = Len(p)
      /\ op \in {"create_task", "assign"} => p[Len(p) - 1] = "members"
      /\ op \in CommitOnly => p[Len(p) - 1] = "admit"
  BY PlanIs
<1>2. PICK l \in 1..Len(p) : todo = SubSeq(p, l, Len(p))
  BY DEF Suffixes
<1>3. Head(todo) = p[l] /\ Tail(todo) = SubSeq(p, l + 1, Len(p))
  BY <1>1, <1>2, HeadTailOfSubSeq
<1>4. l < Len(p)
  BY <1>1, <1>3
<1>5. l + 1 \in 1..Len(p)
  BY <1>1, <1>4
<1>6. Head(Tail(todo)) = p[l + 1]
  BY <1>1, <1>3, <1>5, HeadTailOfSubSeq
<1>7. Tail(todo) \in Suffixes(p)
  BY <1>3, <1>5 DEF Suffixes
<1>8. Len(SubSeq(p, l + 1, Len(p))) = Len(p) - l
  <2>1. \A i \in (l+1)..Len(p) : p[i] \in RoundTrip
    BY <1>1, <1>5, ElementOfSeq
  <2> QED BY <2>1, <1>1, <1>5, SubSeqProperties
<1>9. Tail(todo) # <<>>
  <2>1. Len(Tail(todo)) # 0
    BY <1>1, <1>3, <1>4, <1>8
  <2>2. Len(<<>>) = 0
    OBVIOUS
  <2> QED BY <2>1, <2>2, Zenon
<1>10. Head(Tail(todo)) = "commit" => l = Len(p) - 1
  <2>1. p[l + 1] = "commit" => l + 1 = Len(p)
    BY <1>1, <1>5
  <2>2. l + 1 = Len(p) => l = Len(p) - 1
    BY <1>1
  <2> QED BY <2>1, <2>2, <1>6, Zenon
<1> QED BY <1>1, <1>3, <1>7, <1>9, <1>10

-----------------------------------------------------------------------------
(***************************************************************************)
(* Requests.  They arrive, go on to their next round trip or are answered, *)
(* and are well-formed all the while.                                      *)
(***************************************************************************)
\* A column of requests is well-formed.
ReqsOK == DOMAIN req = Req /\ \A r \in Req : IsRequest(req[r])

LEMMA IdleIs == IsRequest(Idle)
BY StepsAre, ContentAssumption DEF IsRequest, Idle, Inputs

\* A request that has not got to its commit goes on as a request.
LEMMA OnwardIsARequest ==
  ASSUME NEW q, IsRequest(q), q.op # "idle", Head(q.todo) # "commit"
  PROVE  LET t == [q EXCEPT !.todo = Tail(@)] IN
         /\ IsRequest(t) /\ t.todo = Tail(q.todo) /\ t.op = q.op /\ t.user = q.user
         /\ t.arg = q.arg
<1>1. q.op \in DOMAIN Steps /\ q.todo # <<>> /\ q.todo \in Suffixes(Plan(q.op))
  BY DEF IsRequest, Plan
<1>2. Tail(q.todo) \in Suffixes(Plan(q.op)) /\ Tail(q.todo) # <<>>
  BY <1>1, OnwardIs
<1>3. PICK s : s = Tail(q.todo)
  OBVIOUS
<1>4. PICK t : t = [q EXCEPT !.todo = s]
  OBVIOUS
<1>5. /\ DOMAIN t = DOMAIN Idle /\ t.todo = s /\ t.op = q.op /\ t.user = q.user
      /\ t.row = q.row /\ t.arg = q.arg /\ t.rows = q.rows /\ t.marked = q.marked
  BY <1>4 DEF IsRequest, Idle
<1>6. IsRequest(t)
  BY <1>1, <1>2, <1>3, <1>5 DEF IsRequest, Plan
<1> QED BY <1>3, <1>4, <1>5, <1>6

LEMMA BecomeKeepsReqs ==
  ASSUME ReqsOK, NEW r \in Req, NEW q, IsRequest(q), Become(r, q)
  PROVE  ReqsOK'
BY DEF ReqsOK, Become, IsRequest

LEMMA ContinueKeepsReqs ==
  ASSUME ReqsOK, NEW r \in Req, req[r].op # "idle", Head(req[r].todo) # "commit",
         Continue(r, req[r])
  PROVE  ReqsOK'
<1>1. IsRequest([req[r] EXCEPT !.todo = Tail(@)])
  BY OnwardIsARequest DEF ReqsOK
<1> QED BY <1>1, BecomeKeepsReqs DEF Continue

LEMMA AnswerKeepsReqs ==
  ASSUME ReqsOK, NEW r \in Req, Answer(r)
  PROVE  ReqsOK'
BY IdleIs, BecomeKeepsReqs DEF Answer

LEMMA ProceedKeepsReqs ==
  ASSUME ReqsOK, NEW r \in Req, NEW ops, ops \subseteq DOMAIN Steps, NEW step,
         step # "commit", At(r, ops, step), NEW c, Proceed(r, c)
  PROVE  ReqsOK'
<1>1. req[r].op # "idle"
  BY StepsAre DEF At
<1> QED BY <1>1, ContinueKeepsReqs, AnswerKeepsReqs DEF Proceed, At

LEMMA ArriveKeepsReqs ==
  ASSUME ReqsOK, NEW r \in Req, NEW u \in User, NEW op \in DOMAIN Steps,
         NEW arg \in Inputs(op), NEW row \in Nat, Arrive(r, u, op, arg, row)
  PROVE  ReqsOK'
<1>1. PICK p : p = Plan(op)
  OBVIOUS
<1>2. p \in Suffixes(p) /\ p # <<>>
  <2>1. p \in Seq(RoundTrip) /\ Len(p) >= 2 /\ Len(p) \in Nat
    BY <1>1, PlanIs
  <2>2. SubSeq(p, 1, Len(p)) = p
    BY <2>1, SubSeqFull
  <2>3. 1 \in 1..Len(p)
    BY <2>1
  <2>4. Len(p) # 0 /\ Len(<<>>) = 0
    BY <2>1
  <2>5. p # <<>>
    BY <2>4, Zenon
  <2> QED BY <2>2, <2>3, <2>5 DEF Suffixes
<1>3. PICK q : q = [Idle EXCEPT !.op = op, !.todo = p, !.user = u, !.arg = arg, !.row = row]
  OBVIOUS
<1>4. /\ DOMAIN q = DOMAIN Idle /\ q.todo = p /\ q.op = op /\ q.user = u /\ q.row = row
      /\ q.arg = arg /\ q.rows = {} /\ q.marked = FALSE
  BY <1>3 DEF Idle
<1>5. IsRequest(q)
  BY <1>1, <1>2, <1>4, StepsAre DEF IsRequest, Plan
<1>6. Become(r, q)
  BY <1>1, <1>3 DEF Arrive, Plan
<1> QED BY <1>5, <1>6, BecomeKeepsReqs

LEMMA PositionsAre ==
  Positions = {"share", "unshare"} /\ Writes = DOMAIN Steps \ {"share", "unshare"}
BY DEF Positions, PositionSteps, Writes

LEMMA RowsAre ==
  ASSUME TypeOK, NEW op \in DOMAIN Steps
  PROVE  Rows(op) \subseteq Nat
<1>1. ids \in Nat /\ 1..ids \subseteq Nat
  BY ContentAssumption DEF TypeOK
<1>2. DOMAIN items \subseteq Nat /\ lists \subseteq Nat /\ DOMAIN entries \subseteq Nat
      /\ DOMAIN pins \subseteq Nat
  BY <1>1 DEF TypeOK, IsTable
<1> QED BY <1>2 DEF Rows

\* A request only ever arrives, is answered, or goes on to its next round trip.
Arrives(r) == \E u \in User, op \in DOMAIN Steps : \E arg \in Inputs(op), row \in Nat :
                /\ Arrive(r, u, op, arg, row)
                /\ UNCHANGED <<members, active>>
Checks(r)  == CheckWritable(r) \/ Find(r) \/ EnsureMembers(r) \/ Deliver(r)

LEMMA SendIs ==
  ASSUME NEW r \in Req, NEW u \in User, NEW op \in Positions, Send(r, op, u),
         UNCHANGED people
  PROVE  Arrives(r)
<1>1. op \in DOMAIN Steps /\ Nobody \in Inputs(op) /\ 0 \in Nat
  BY PositionsAre, StepsAre DEF Inputs
<1> QED BY <1>1 DEF Send, Arrives, people

LEMMA RequestsMove ==
  ASSUME TypeOK, [Next]_vars
  PROVE  \/ UNCHANGED req
         \/ \E r \in Req : Arrives(r) \/ Checks(r)
         \/ \E r \in Req : Answer(r)
<1> DEFINE Goal == \/ UNCHANGED req
                   \/ \E r \in Req : Arrives(r) \/ Checks(r)
                   \/ \E r \in Req : Answer(r)
<1>1. CASE UNCHANGED vars
  BY <1>1 DEF vars
<1>2. ASSUME NEW r \in Req, Authorize(r) PROVE Goal
  <2>1. PICK u \in members, op \in Writes :
          \E arg \in Inputs(op), row \in Rows(op) : Arrive(r, u, op, arg, row)
    BY <1>2 DEF Authorize
  <2>2. u \in User /\ op \in DOMAIN Steps /\ Rows(op) \subseteq Nat
    BY RowsAre, PositionsAre DEF TypeOK
  <2>3. UNCHANGED <<members, active>>
    BY <1>2 DEF Authorize, people
  <2> QED BY <2>1, <2>2, <2>3 DEF Arrives
<1>3. ASSUME NEW r \in Req, Commit(r) PROVE Goal
  BY <1>3 DEF Commit, Committing, CreateItem, Assign, EditItem, DeleteItem, SetCompletion,
              CreateChecklist, DeleteChecklist, AddEntry, DeleteEntry, SetChecked,
              CreatePin, UpdatePin, DeletePin, UpsertLocation, ClearLocation
<1>4. ASSUME NEW r \in Req, Advance(r) PROVE Goal
  BY <1>3, <1>4 DEF Advance, Checks, Abort
<1>5. ASSUME NEW u \in User, Publish(u) PROVE Goal
  BY <1>5, SendIs, PositionsAre DEF Publish
<1>6. ASSUME NEW u \in User, Stop(u), UNCHANGED people PROVE Goal
  BY <1>6, SendIs, PositionsAre DEF Stop
<1>7. ASSUME NEW u \in User, SwitchOff(u) \/ LeaveMap(u) PROVE Goal
  BY <1>6, <1>7 DEF SwitchOff, LeaveMap, people
<1>8. ASSUME NEW u \in User,
             \/ StartSharing(u) \/ Permission(u) \/ OpenMap(u) \/ KillApp(u)
             \/ Join(u) \/ Depart(u) \/ CloseAccount(u)
      PROVE  Goal
  BY <1>8 DEF StartSharing, Permission, OpenMap, KillApp, Join, Depart,
              CloseAccount, TripEvent
<1>9. CASE DeleteTrip \/ Archive \/ TimePasses
  BY <1>9 DEF DeleteTrip, Archive, TripEvent, TimePasses
<1> QED BY <1>1, <1>2, <1>4, <1>5, <1>7, <1>8, <1>9 DEF Next

LEMMA RequestsStep ==
  ASSUME TypeOK, [Next]_vars
  PROVE  ReqsOK'
<1>1. ReqsOK
  BY DEF TypeOK, ReqsOK
<1>2. CASE UNCHANGED req
  BY <1>1, <1>2 DEF ReqsOK
<1>3. ASSUME NEW r \in Req, Answer(r) PROVE ReqsOK'
  BY <1>1, <1>3, AnswerKeepsReqs
<1>4. ASSUME NEW r \in Req, Arrives(r) PROVE ReqsOK'
  BY <1>1, <1>4, ArriveKeepsReqs DEF Arrives
<1>5. ASSUME NEW r \in Req, CheckWritable(r) \/ EnsureMembers(r) \/ Deliver(r)
      PROVE  ReqsOK'
  <2>1. CASE CheckWritable(r)
    BY <1>1, <2>1, ProceedKeepsReqs DEF CheckWritable, Writes
  <2>2. CASE EnsureMembers(r)
    <3>1. {"create_task", "assign"} \subseteq DOMAIN Steps
      BY StepsAre
    <3> QED BY <1>1, <2>2, <3>1, ProceedKeepsReqs DEF EnsureMembers
  <2>3. CASE Deliver(r)
    <3>1. Positions \subseteq DOMAIN Steps
      BY StepsAre, PositionsAre
    <3> QED BY <1>1, <2>3, <3>1, ProceedKeepsReqs DEF Deliver
  <2> QED BY <1>5, <2>1, <2>2, <2>3
<1>6. ASSUME NEW r \in Req, Find(r) PROVE ReqsOK'
  <2>1. req[r].op # "idle" /\ Head(req[r].todo) = "find" /\ IsRequest(req[r])
    BY <1>1, <1>6, StepsAre, PositionsAre DEF Find, At, ReqsOK
  <2>2. CASE Answer(r)
    BY <1>3, <2>2
  <2>3. ASSUME NEW rows, rows \subseteq Nat, NEW m \in BOOLEAN,
               Continue(r, [req[r] EXCEPT !.rows = rows, !.marked = m])
        PROVE  ReqsOK'
    <3>1. PICK q : q = [req[r] EXCEPT !.rows = rows, !.marked = m]
      OBVIOUS
    <3>2. /\ DOMAIN q = DOMAIN Idle /\ q.todo = req[r].todo /\ q.op = req[r].op
          /\ q.user = req[r].user /\ q.row = req[r].row /\ q.arg = req[r].arg
          /\ q.rows = rows /\ q.marked = m
      BY <2>1, <3>1 DEF IsRequest, Idle
    <3>3. IsRequest(q) /\ q.op # "idle" /\ Head(q.todo) # "commit"
      BY <2>1, <2>3, <3>2 DEF IsRequest
    <3>4. IsRequest([q EXCEPT !.todo = Tail(@)])
      BY <3>3, OnwardIsARequest
    <3> QED BY <1>1, <2>3, <3>1, <3>4, BecomeKeepsReqs DEF Continue
  <2>4. WorkOn(req[r].row) \subseteq Nat
    <3>1. ids \in Nat /\ DOMAIN work \subseteq 1..ids
      BY ContentAssumption DEF TypeOK, IsTable
    <3> QED BY <3>1 DEF WorkOn
  <2>5. Ticked(req[r]) \in BOOLEAN
    BY DEF Ticked
  <2> QED BY <1>6, <2>2, <2>3, <2>4, <2>5 DEF Find
<1> QED BY <1>2, <1>3, <1>4, <1>5, <1>6, RequestsMove DEF Checks

-----------------------------------------------------------------------------
(***************************************************************************)
(* Tables.  Ids are drawn in order, so that a table's are among the first. *)
(***************************************************************************)
\* A table whose ids are among the first m.
Upto(m, t, Row) == t \in [DOMAIN t -> Row] /\ DOMAIN t \subseteq 1..m

LEMMA LargerUpto ==
  ASSUME NEW m \in Nat, NEW n \in Nat, m <= n, NEW t, NEW Row, Upto(m, t, Row)
  PROVE  Upto(n, t, Row)
<1>1. 1..m \subseteq 1..n
  OBVIOUS
<1> QED BY <1>1 DEF Upto

LEMMA InsertIs ==
  ASSUME NEW t, NEW new, NEW Row, NEW m, Upto(m, t, Row), Upto(m, new, Row)
  PROVE  Upto(m, Insert(t, new), Row)
BY DEF Upto, Insert

LEMMA WithoutIs ==
  ASSUME NEW t, NEW gone, NEW Row, NEW m, Upto(m, t, Row)
  PROVE  Upto(m, Without(t, gone), Row)
BY DEF Upto, Without, Restrict

LEMMA EditIs ==
  ASSUME NEW t, NEW i, NEW row, NEW Row, NEW m, Upto(m, t, Row), row \in Row
  PROVE  Upto(m, [t EXCEPT ![i] = row], Row)
BY DEF Upto

LEMMA NewRowIs ==
  ASSUME NEW Row, NEW row \in Row, NEW m \in Nat, ids \in Nat, ids + 1 <= m
  PROVE  Upto(m, NewRow(row), Row)
<1>1. ids + 1 \in 1..m
  OBVIOUS
<1> QED BY <1>1 DEF Upto, NewRow

LEMMA EmptyIs ==
  ASSUME NEW Row, NEW m
  PROVE  Upto(m, <<>>, Row)
<1>1. DOMAIN <<>> = {} /\ <<>> \in [{} -> Row]
  OBVIOUS
<1> QED BY <1>1 DEF Upto

LEMMA SetToSeqIs ==
  ASSUME NEW S, IsFiniteSet(S)
  PROVE  SetToSeq(S) \in [1..Cardinality(S) -> S] /\ Cardinality(S) \in Nat
<1>1. Cardinality(S) \in Nat /\ ExistsBijection(1..Cardinality(S), S)
  BY FS_CardinalityType
<1>2. PICK f \in [1..Cardinality(S) -> S] : IsInjective(f)
  BY <1>1 DEF ExistsBijection, Bijection, Injection, IsInjective
<1> QED BY <1>1, <1>2 DEF SetToSeq

\* New assignments have the new ids, the item and the people asked for.
LEMMA WorkForIs ==
  ASSUME NEW i \in Nat, NEW wanted \in SUBSET User, NEW first \in Nat \ {0},
         NEW m \in Nat, first + Cardinality(wanted) - 1 <= m
  PROVE  /\ Upto(m, WorkFor(i, wanted, first), Work) /\ Cardinality(wanted) \in Nat
         /\ \A k \in DOMAIN WorkFor(i, wanted, first) :
              /\ WorkFor(i, wanted, first)[k].item = i
              /\ WorkFor(i, wanted, first)[k].user \in wanted
<1>1. IsFiniteSet(wanted)
  BY ContentAssumption, FS_Subset
<1>2. SetToSeq(wanted) \in [1..Cardinality(wanted) -> wanted] /\ Cardinality(wanted) \in Nat
  BY <1>1, SetToSeqIs
<1> PICK n \in Nat : n = Cardinality(wanted)
  BY <1>2
<1> PICK s \in [1..n -> wanted] : s = SetToSeq(wanted)
  BY <1>2
<1>3. WorkFor(i, wanted, first)
        = [k \in first..(first + n - 1) |-> [item |-> i, user |-> s[k - first + 1]]]
  BY DEF WorkFor
<1>4. \A k \in first..(first + n - 1) : k - first + 1 \in 1..n
  OBVIOUS
<1>5. \A k \in first..(first + n - 1) :
        s[k - first + 1] \in wanted /\ s[k - first + 1] \in User
  BY <1>4
<1>6. first..(first + n - 1) \subseteq 1..m
  OBVIOUS
<1> QED BY <1>3, <1>5, <1>6 DEF Upto, Work

\* The type invariant by parts: tables, people, the map.
TablesOK ==
  /\ ids \in 0..load.rows
  /\ Upto(ids, items, Item) /\ Upto(ids, work, Work) /\ Upto(ids, entries, Entry)
  /\ Upto(ids, pins, Pin) /\ lists \subseteq 1..ids

PeopleOK ==
  /\ load \in Loads /\ trip \in {"live", "archived", "deleted"}
  /\ members \subseteq User /\ active \in [User -> BOOLEAN]

MapOK ==
  /\ location \in [DOMAIN location -> Location] /\ DOMAIN location \subseteq User
  /\ sharing \in [User -> {"off", "asking", "on"}] /\ onScreen \in [User -> BOOLEAN]

HistoryOK == departed \in [Req -> SUBSET User] /\ late \subseteq User

LEMMA TypeOKIs == TypeOK <=> TablesOK /\ PeopleOK /\ MapOK /\ ReqsOK /\ HistoryOK
BY DEF TypeOK, TablesOK, PeopleOK, MapOK, ReqsOK, HistoryOK, IsTable, Upto

LEMMA TypeOKIsNext ==
  TypeOK' <=> (TablesOK /\ PeopleOK /\ MapOK /\ ReqsOK /\ HistoryOK)'
BY DEF TypeOK, TablesOK, PeopleOK, MapOK, ReqsOK, HistoryOK, IsTable, Upto, IsRequest

LEMMA TickIs ==
  ASSUME NEW q, q.user \in User, NEW now \in User \cup {Nobody}
  PROVE  Tick(q, now) \in User \cup {Nobody}
BY DEF Tick

\* The rows a commit gives its ids to fit below the bound.
LEMMA RoomIs ==
  ASSUME TypeOK, NEW n \in Nat, Room(n), ids' = ids + n, UNCHANGED load
  PROVE  ids' \in 0..load.rows /\ ids' \in Nat /\ ids <= ids' /\ ids \in Nat
         /\ \A t, Row : Upto(ids, t, Row) => Upto(ids', t, Row)
<1>1. load.rows \in Nat /\ ids \in Nat
  BY ContentAssumption DEF TypeOK
<1>2. ids' \in Nat /\ ids <= ids'
  BY <1>1
<1> QED BY <1>1, <1>2, LargerUpto DEF Room

LEMMA CreateItemKeepsTables ==
  ASSUME TypeOK, NEW r \in Req, CreateItem(r)
  PROVE  TablesOK'
<1> DEFINE q == req[r]
<1> PICK wanted : wanted = IF q.op = "create_task" THEN q.arg ELSE {}
  OBVIOUS
<1>0. TablesOK /\ IsRequest(q) /\ UNCHANGED load
  BY TypeOKIs DEF ReqsOK, CreateItem, Committing
<1>1. wanted \in SUBSET User
  BY <1>0 DEF IsRequest, Inputs
<1>2. Cardinality(wanted) \in Nat
  BY <1>1, ContentAssumption, FS_Subset, FS_CardinalityType
<1>3. CASE trip = "deleted"
  BY <1>0, <1>3 DEF CreateItem, TablesOK
<1>4. CASE trip # "deleted"
  <2> PICK row : row = [type |-> IF q.op = "create_task" THEN "task" ELSE "event",
                        dated |-> q.op = "create_event", done |-> Nobody]
    OBVIOUS
  <2>1. row \in Item
    BY DEF Item
  <2>2. /\ items' = Insert(items, NewRow(row))
        /\ work' = Insert(work, WorkFor(ids + 1, wanted, ids + 2))
        /\ ids' = ids + (1 + Cardinality(wanted)) /\ Room(1 + Cardinality(wanted))
        /\ UNCHANGED <<lists, entries, pins>>
    BY <1>4 DEF CreateItem
  <2>3. /\ ids' \in 0..load.rows /\ ids' \in Nat /\ ids <= ids' /\ ids \in Nat
        /\ \A t, Row : Upto(ids, t, Row) => Upto(ids', t, Row)
    BY <1>0, <1>2, <2>2, RoomIs
  <2>4. Upto(ids', NewRow(row), Item)
    BY <1>2, <2>1, <2>2, <2>3, NewRowIs
  <2>5. Upto(ids', WorkFor(ids + 1, wanted, ids + 2), Work)
    BY <1>1, <1>2, <2>2, <2>3, WorkForIs
  <2>6. Upto(ids', items', Item) /\ Upto(ids', work', Work)
    BY <1>0, <2>2, <2>3, <2>4, <2>5, InsertIs DEF TablesOK
  <2> QED BY <1>0, <2>2, <2>3, <2>6 DEF TablesOK
<1> QED BY <1>3, <1>4

LEMMA AssignKeepsTables ==
  ASSUME TypeOK, NEW r \in Req, Assign(r)
  PROVE  TablesOK'
<1> DEFINE q == req[r]
<1>0. TablesOK /\ IsRequest(q) /\ UNCHANGED load /\ q.op = "assign"
  BY TypeOKIs DEF ReqsOK, Assign, Committing, At
<1>1. q.arg \in SUBSET User /\ q.row \in Nat
  BY <1>0 DEF IsRequest, Inputs
<1>2. Cardinality(q.arg) \in Nat
  BY <1>1, ContentAssumption, FS_Subset, FS_CardinalityType
<1>3. CASE UNCHANGED <<ids, work>>
  BY <1>0, <1>3 DEF Assign, TablesOK
<1>4. CASE /\ work' = Insert(Without(work, q.rows), WorkFor(q.row, q.arg, ids + 1))
           /\ ids' = ids + Cardinality(q.arg)
  <2>1. Room(Cardinality(q.arg)) /\ UNCHANGED <<items, lists, entries, pins>>
    BY DEF Assign
  <2>2. /\ ids' \in 0..load.rows /\ ids' \in Nat /\ ids <= ids' /\ ids \in Nat
        /\ \A t, Row : Upto(ids, t, Row) => Upto(ids', t, Row)
    BY <1>0, <1>2, <1>4, <2>1, RoomIs
  <2>3. Upto(ids', WorkFor(q.row, q.arg, ids + 1), Work)
    BY <1>1, <1>2, <1>4, <2>2, WorkForIs
  <2>4. Upto(ids', Without(work, q.rows), Work)
    BY <1>0, <2>2, WithoutIs DEF TablesOK
  <2>5. Upto(ids', work', Work)
    BY <1>4, <2>3, <2>4, InsertIs
  <2> QED BY <1>0, <2>1, <2>2, <2>5 DEF TablesOK
<1> QED BY <1>3, <1>4 DEF Assign

\* The commits that insert one row, or a list.
LEMMA OneRowKeepsTables ==
  ASSUME TypeOK, NEW r \in Req, CreateChecklist(r) \/ AddEntry(r) \/ CreatePin(r)
  PROVE  TablesOK'
<1> DEFINE q == req[r]
<1>0. TablesOK /\ IsRequest(q) /\ UNCHANGED load
  BY TypeOKIs DEF ReqsOK, CreateChecklist, AddEntry, CreatePin, Committing
<1>1. CASE UNCHANGED tables
  BY <1>0, <1>1 DEF TablesOK, tables
<1>2. ASSUME Room(1), ids' = ids + 1
      PROVE  /\ ids' \in 0..load.rows /\ ids' \in Nat /\ ids \in Nat
             /\ \A t, Row : Upto(ids, t, Row) => Upto(ids', t, Row)
             /\ \A Row : \A row \in Row : Upto(ids', NewRow(row), Row)
             /\ 1..ids \subseteq 1..ids' /\ ids + 1 \in 1..ids'
  <2>1. /\ ids' \in 0..load.rows /\ ids' \in Nat /\ ids \in Nat
        /\ \A t, Row : Upto(ids, t, Row) => Upto(ids', t, Row)
    BY <1>0, <1>2, RoomIs
  <2>2. \A Row : \A row \in Row : Upto(ids', NewRow(row), Row)
    BY <1>2, <2>1, NewRowIs
  <2> QED BY <1>2, <2>1, <2>2
<1>3. CASE CreateChecklist(r) /\ trip # "deleted"
  BY <1>0, <1>2, <1>3 DEF CreateChecklist, TablesOK
<1>4. CASE AddEntry(r) /\ q.row \in lists
  <2>1. [list |-> q.row, got |-> Nobody] \in Entry
    BY <1>0 DEF IsRequest, Entry
  <2> PICK row \in Entry : row = [list |-> q.row, got |-> Nobody]
    BY <2>1
  <2>2. entries' = Insert(entries, NewRow(row)) /\ ids' = ids + 1 /\ Room(1)
        /\ UNCHANGED <<items, work, lists, pins>>
    BY <1>4 DEF AddEntry
  <2>3. Upto(ids', entries', Entry)
    BY <1>0, <1>2, <2>2, InsertIs DEF TablesOK
  <2> QED BY <1>0, <1>2, <2>2, <2>3 DEF TablesOK
<1>5. CASE CreatePin(r) /\ trip # "deleted"
  <2>1. q.arg \in Pin
    BY <1>0, <1>5 DEF IsRequest, Inputs, Pin, CreatePin, Committing, At
  <2>2. pins' = Insert(pins, NewRow(q.arg)) /\ ids' = ids + 1 /\ Room(1)
        /\ UNCHANGED <<items, work, lists, entries>>
    BY <1>5 DEF CreatePin
  <2>3. Upto(ids', pins', Pin)
    BY <1>0, <1>2, <2>1, <2>2, InsertIs DEF TablesOK
  <2> QED BY <1>0, <1>2, <2>2, <2>3 DEF TablesOK
<1> QED BY <1>1, <1>3, <1>4, <1>5 DEF CreateChecklist, AddEntry, CreatePin, tables

\* The commits that edit one row.
LEMMA EditsKeepTables ==
  ASSUME TypeOK, NEW r \in Req,
         EditItem(r) \/ SetCompletion(r) \/ SetChecked(r) \/ UpdatePin(r)
  PROVE  TablesOK'
<1> DEFINE q == req[r]
<1>0. TablesOK /\ IsRequest(q) /\ UNCHANGED load /\ q.user \in User
  BY TypeOKIs DEF ReqsOK, EditItem, SetCompletion, SetChecked, UpdatePin, Committing, IsRequest
<1>1. CASE EditItem(r)
  <2>1. q.arg \in BOOLEAN
    BY <1>0, <1>1 DEF EditItem, Committing, At, IsRequest, Inputs
  <2>2. ASSUME q.row \in DOMAIN items
        PROVE  [items EXCEPT ![q.row].dated = q.arg] \in [DOMAIN items -> Item]
    BY <1>0, <2>1, <2>2 DEF TablesOK, Upto, Item
  <2> QED BY <1>0, <1>1, <2>2 DEF EditItem, TablesOK, Upto
<1>2. CASE SetCompletion(r)
  <2>1. ASSUME q.row \in DOMAIN items
        PROVE  [items EXCEPT ![q.row].done = Tick(q, @)] \in [DOMAIN items -> Item]
    <3>1. items[q.row] \in Item /\ items[q.row].done \in User \cup {Nobody}
      BY <1>0, <2>1 DEF TablesOK, Upto, Item
    <3>2. PICK w \in User \cup {Nobody} : w = Tick(q, items[q.row].done)
      BY <1>0, <3>1, TickIs
    <3>3. [items EXCEPT ![q.row].done = w] \in [DOMAIN items -> Item]
      BY <1>0, <2>1, <3>1 DEF TablesOK, Upto, Item
    <3> QED BY <3>2, <3>3
  <2> QED BY <1>0, <1>2, <2>1 DEF SetCompletion, TablesOK, Upto
<1>3. CASE SetChecked(r)
  <2>1. ASSUME q.row \in DOMAIN entries
        PROVE  [entries EXCEPT ![q.row].got = Tick(q, @)] \in [DOMAIN entries -> Entry]
    <3>1. entries[q.row] \in Entry /\ entries[q.row].got \in User \cup {Nobody}
      BY <1>0, <2>1 DEF TablesOK, Upto, Entry
    <3>2. PICK w \in User \cup {Nobody} : w = Tick(q, entries[q.row].got)
      BY <1>0, <3>1, TickIs
    <3>3. [entries EXCEPT ![q.row].got = w] \in [DOMAIN entries -> Entry]
      BY <1>0, <2>1, <3>1 DEF TablesOK, Upto, Entry
    <3> QED BY <3>2, <3>3
  <2> QED BY <1>0, <1>3, <2>1 DEF SetChecked, TablesOK, Upto
<1>4. CASE UpdatePin(r)
  <2>1. q.arg \in Pin
    BY <1>0, <1>4 DEF IsRequest, Inputs, Pin, UpdatePin, Committing, At
  <2> QED BY <1>0, <1>4, <2>1, EditIs DEF UpdatePin, TablesOK, Upto
<1> QED BY <1>1, <1>2, <1>3, <1>4

\* The commits that only delete rows.
LEMMA DeletesKeepTables ==
  ASSUME TypeOK, NEW r \in Req,
         DeleteItem(r) \/ DeleteChecklist(r) \/ DeleteEntry(r) \/ DeletePin(r)
  PROVE  TablesOK'
<1>1. TablesOK
  BY TypeOKIs
<1>2. CASE DeleteItem(r)
  BY <1>1, <1>2, WithoutIs DEF DeleteItem, Committing, TablesOK
<1>3. CASE DeleteChecklist(r)
  <2>1. lists' \subseteq 1..ids' /\ ids' = ids /\ load' = load
    BY <1>1, <1>3 DEF DeleteChecklist, Committing, TablesOK
  <2> QED BY <1>1, <1>3, <2>1, WithoutIs DEF DeleteChecklist, TablesOK
<1>4. CASE DeleteEntry(r)
  BY <1>1, <1>4, WithoutIs DEF DeleteEntry, Committing, TablesOK
<1>5. CASE DeletePin(r)
  BY <1>1, <1>5, WithoutIs DEF DeletePin, Committing, TablesOK
<1> QED BY <1>2, <1>3, <1>4, <1>5

\* What the departures delete.
LEMMA CascadesKeepTables ==
  ASSUME TypeOK, UNCHANGED load, NEW u \in User, DropTrip \/ RemoveMember(u)
  PROVE  TablesOK'
<1>1. TablesOK
  BY TypeOKIs
<1>2. CASE DropTrip
  BY <1>1, <1>2, EmptyIs DEF DropTrip, TablesOK
<1>3. CASE RemoveMember(u)
  BY <1>1, <1>3, WithoutIs DEF RemoveMember, TablesOK
<1> QED BY <1>2, <1>3

LEMMA CommitKeepsTables ==
  ASSUME TypeOK, NEW r \in Req, Commit(r)
  PROVE  TablesOK'
<1>1. CASE UpsertLocation(r) \/ ClearLocation(r)
  BY <1>1, TypeOKIs DEF UpsertLocation, ClearLocation, TablesOK, tables, Committing
<1> QED BY <1>1, DeletesKeepTables, CreateItemKeepsTables, AssignKeepsTables,
           OneRowKeepsTables, EditsKeepTables DEF Commit

-----------------------------------------------------------------------------
(***************************************************************************)
(* Types.                                                                  *)
(***************************************************************************)
LEMMA TypeInit == Init => TypeOK
<1> SUFFICES ASSUME Init PROVE TypeOK
  OBVIOUS
<1>1. TablesOK
  BY EmptyIs, ContentAssumption DEF Init, TablesOK
<1>2. PeopleOK /\ HistoryOK
  BY ContentAssumption DEF Init, PeopleOK, HistoryOK
<1>3. MapOK
  <2>1. DOMAIN <<>> = {} /\ <<>> \in [{} -> Location]
    OBVIOUS
  <2> QED BY <2>1 DEF Init, MapOK
<1>4. ReqsOK
  BY IdleIs DEF Init, ReqsOK
<1> QED BY <1>1, <1>2, <1>3, <1>4, TypeOKIs

\* The steps of requests, the app and the clock leave the people alone.
LEMMA OnlyTheseChangePeople ==
  ASSUME [Next]_vars
  PROVE  \/ UNCHANGED <<load, people>>
         \/ Archive \/ DeleteTrip
         \/ \E u \in User : Join(u) \/ Depart(u) \/ CloseAccount(u)
<1>1. CASE UNCHANGED vars
  BY <1>1 DEF vars
<1>2. ASSUME NEW r \in Req, Authorize(r) PROVE UNCHANGED <<load, people>>
  BY <1>2 DEF Authorize
<1>3. ASSUME NEW r \in Req, Commit(r) PROVE UNCHANGED <<load, people>>
  BY <1>3 DEF Commit, Committing, CreateItem, Assign, EditItem, DeleteItem, SetCompletion,
              CreateChecklist, DeleteChecklist, AddEntry, DeleteEntry, SetChecked,
              CreatePin, UpdatePin, DeletePin, UpsertLocation, ClearLocation
<1>4. ASSUME NEW r \in Req, Advance(r) PROVE UNCHANGED <<load, people>>
  BY <1>3, <1>4 DEF Advance, CheckWritable, Find, EnsureMembers, Deliver, Abort
<1>5. ASSUME NEW u \in User,
             \/ StartSharing(u) \/ Permission(u) \/ Publish(u) \/ SwitchOff(u)
             \/ LeaveMap(u) \/ OpenMap(u) \/ KillApp(u)
      PROVE  UNCHANGED <<load, people>>
  BY <1>5 DEF StartSharing, Permission, Publish, SwitchOff, LeaveMap, OpenMap,
              KillApp
<1> QED BY <1>1, <1>2, <1>4, <1>5 DEF Next, TimePasses

\* Nothing writes the tables but commits and departures.
LEMMA OnlyTheseChangeTables ==
  ASSUME [Next]_vars
  PROVE  \/ UNCHANGED <<load, tables>>
         \/ \E r \in Req : Commit(r)
         \/ DropTrip /\ UNCHANGED load
         \/ \E u \in User : RemoveMember(u) /\ UNCHANGED load
<1> DEFINE Same == UNCHANGED <<load, tables>>
<1>1. CASE UNCHANGED vars
  BY <1>1 DEF vars
<1>2. ASSUME NEW r \in Req, Authorize(r) PROVE Same
  BY <1>2 DEF Authorize
<1>3. ASSUME NEW r \in Req, Advance(r) PROVE Same \/ Commit(r)
  BY <1>3 DEF Advance, CheckWritable, Find, EnsureMembers, Deliver, Abort
<1>4. ASSUME NEW u \in User,
             \/ StartSharing(u) \/ Permission(u) \/ Publish(u) \/ SwitchOff(u)
             \/ LeaveMap(u) \/ OpenMap(u) \/ KillApp(u)
      PROVE  Same
  BY <1>4 DEF StartSharing, Permission, Publish, SwitchOff, LeaveMap, OpenMap,
              KillApp
<1>5. ASSUME NEW u \in User, Join(u) PROVE Same
  BY <1>5 DEF Join, TripEvent
<1>6. ASSUME NEW u \in User, Depart(u) \/ CloseAccount(u)
      PROVE  \/ Same
             \/ (DropTrip \/ RemoveMember(u)) /\ UNCHANGED load
  BY <1>6 DEF Depart, CloseAccount, TripEvent
<1>7. CASE Archive \/ DeleteTrip
  BY <1>7 DEF Archive, DeleteTrip, TripEvent
<1> QED BY <1>1, <1>2, <1>3, <1>4, <1>5, <1>6, <1>7 DEF Next, TimePasses

\* Nor the positions but their commits, the clock and departures.
LEMMA OnlyTheseChangeLocations ==
  ASSUME [Next]_vars
  PROVE  \/ UNCHANGED location
         \/ \E r \in Req : UpsertLocation(r) \/ ClearLocation(r)
         \/ TimePasses
         \/ DropTrip
         \/ \E u \in User : location' = Without(location, {u})
<1> DEFINE Same == UNCHANGED location
<1>1. CASE UNCHANGED vars
  BY <1>1 DEF vars
<1>2. ASSUME NEW r \in Req, Authorize(r) PROVE Same
  BY <1>2 DEF Authorize
<1>3. ASSUME NEW r \in Req, Advance(r) PROVE Same \/ UpsertLocation(r) \/ ClearLocation(r)
  BY <1>3 DEF Advance, CheckWritable, Find, EnsureMembers, Deliver, Abort, Commit,
              CreateItem, Assign, EditItem, DeleteItem, SetCompletion,
              CreateChecklist, DeleteChecklist, AddEntry, DeleteEntry, SetChecked,
              CreatePin, UpdatePin, DeletePin
<1>4. ASSUME NEW u \in User,
             \/ StartSharing(u) \/ Permission(u) \/ Publish(u) \/ SwitchOff(u)
             \/ LeaveMap(u) \/ OpenMap(u) \/ KillApp(u) \/ Join(u)
      PROVE  Same
  BY <1>4 DEF StartSharing, Permission, Publish, SwitchOff, LeaveMap, OpenMap,
              KillApp, Join
<1>5. ASSUME NEW u \in User, Depart(u) \/ CloseAccount(u)
      PROVE  DropTrip \/ location' = Without(location, {u})
  BY <1>5 DEF Depart, CloseAccount, RemoveMember
<1>6. CASE Archive
  BY <1>6 DEF Archive
<1> QED BY <1>1, <1>2, <1>3, <1>4, <1>5, <1>6 DEF Next, DeleteTrip

\* What is remembered about requests is about accounts.
LEMMA HistoryStep ==
  ASSUME TypeOK, [Next /\ Track]_<<vars, ghosts>>
  PROVE  HistoryOK'
<1>0. HistoryOK /\ members \subseteq User
  BY TypeOKIs DEF TypeOK
<1>1. CASE UNCHANGED ghosts
  BY <1>0, <1>1 DEF ghosts, HistoryOK
<1>2. CASE Track
  <2>1. Left \subseteq User
    BY <1>0 DEF Left
  <2>2. \A r \in Req : departed[r] \subseteq User
    BY <1>0 DEF HistoryOK
  <2>3. departed' \in [Req -> SUBSET User]
    BY <1>2, <2>1, <2>2 DEF Track
  <2>4. late' \subseteq User
    BY <1>0, <1>2, <2>2 DEF Track, HistoryOK
  <2> QED BY <2>3, <2>4 DEF HistoryOK
<1> QED BY <1>1, <1>2

\* Positions belong to accounts, and what is left of them to their TTL.
LEMMA LocationsStep ==
  ASSUME TypeOK, [Next]_vars
  PROVE  location' \in [DOMAIN location' -> Location] /\ DOMAIN location' \subseteq User
<1>0. location \in [DOMAIN location -> Location] /\ DOMAIN location \subseteq User /\ ReqsOK
  BY TypeOKIs DEF MapOK
<1>1. ASSUME NEW u
      PROVE  LET t == Without(location, {u})
             IN  t \in [DOMAIN t -> Location] /\ DOMAIN t \subseteq User
  BY <1>0 DEF Without, Restrict
<1>2. ASSUME NEW r \in Req, UpsertLocation(r)
      PROVE  location' \in [DOMAIN location' -> Location] /\ DOMAIN location' \subseteq User
  <2>1. req[r].user \in User /\ Ttl \in Location
    BY <1>0, ContentAssumption DEF ReqsOK, IsRequest, Location
  <2>2. CASE UNCHANGED location
    BY <1>0, <2>2
  <2>3. CASE location' = Insert(location, [u \in {req[r].user} |-> Ttl])
    BY <1>0, <2>1, <2>3 DEF Insert
  <2> QED BY <1>2, <2>2, <2>3 DEF UpsertLocation
<1>3. CASE TimePasses
  <2>1. \A n \in Location : (IF n = 0 THEN 0 ELSE n - 1) \in Location
    BY ContentAssumption DEF Location
  <2> QED BY <1>0, <1>3, <2>1 DEF TimePasses
<1>4. CASE DropTrip
  <2>1. DOMAIN <<>> = {} /\ <<>> \in [{} -> Location]
    OBVIOUS
  <2> QED BY <1>4, <2>1 DEF DropTrip
<1> QED BY <1>0, <1>1, <1>2, <1>3, <1>4, OnlyTheseChangeLocations DEF ClearLocation

LEMMA TypeStep == TypeOK /\ [Next /\ Track]_<<vars, ghosts>> => TypeOK'
<1> SUFFICES ASSUME TypeOK, [Next /\ Track]_<<vars, ghosts>> PROVE TypeOK'
  OBVIOUS
<1>0. TablesOK /\ PeopleOK /\ MapOK /\ [Next]_vars
  BY TypeOKIs
<1>1. ReqsOK'
  BY <1>0, RequestsStep
<1>2. TablesOK'
  <2>1. CASE UNCHANGED <<load, tables>>
    BY <1>0, <2>1 DEF TablesOK, tables
  <2> QED BY <1>0, <2>1, CommitKeepsTables, CascadesKeepTables, ContentAssumption,
             OnlyTheseChangeTables
<1>3. PeopleOK'
  <2>1. CASE UNCHANGED <<load, people>>
    BY <1>0, <2>1 DEF PeopleOK, people
  <2>2. CASE Archive \/ DeleteTrip
    BY <1>0, <2>2 DEF PeopleOK, Archive, DeleteTrip, DropTrip, TripEvent
  <2>3. ASSUME NEW u \in User, Join(u) \/ Depart(u) \/ CloseAccount(u) PROVE PeopleOK'
    BY <1>0, <2>3 DEF PeopleOK, Join, Depart, CloseAccount, DropTrip, RemoveMember, TripEvent
  <2> QED BY <1>0, <2>1, <2>2, <2>3, OnlyTheseChangePeople
<1>4. MapOK'
  <2>1. location' \in [DOMAIN location' -> Location] /\ DOMAIN location' \subseteq User
    BY <1>0, LocationsStep
  <2>2. sharing' \in [User -> {"off", "asking", "on"}] /\ onScreen' \in [User -> BOOLEAN]
    <3>1. CASE UNCHANGED app
      BY <1>0, <3>1 DEF MapOK, app
    <3>2. ASSUME NEW u \in User,
                 \/ StartSharing(u) \/ Permission(u) \/ SwitchOff(u)
                 \/ LeaveMap(u) \/ OpenMap(u) \/ KillApp(u)
          PROVE  sharing' \in [User -> {"off", "asking", "on"}]
                 /\ onScreen' \in [User -> BOOLEAN]
      BY <1>0, <3>2 DEF MapOK, StartSharing, Permission, SwitchOff, LeaveMap, OpenMap,
         KillApp, Stop
    <3>3. ASSUME NEW r \in Req, Authorize(r) \/ Advance(r) PROVE UNCHANGED app
      BY <3>3 DEF Authorize, Advance, CheckWritable, Find, EnsureMembers, Deliver, Abort,
         Commit, Committing, CreateItem, Assign, EditItem, DeleteItem, SetCompletion,
         CreateChecklist, DeleteChecklist, AddEntry, DeleteEntry, SetChecked,
         CreatePin, UpdatePin, DeletePin, UpsertLocation, ClearLocation
    <3>4. ASSUME NEW u \in User,
                 Publish(u) \/ Join(u) \/ Depart(u) \/ CloseAccount(u)
          PROVE  UNCHANGED app
      BY <3>4 DEF Publish, Join, Depart, CloseAccount, TripEvent
    <3> QED BY <1>0, <3>1, <3>2, <3>3, <3>4
            DEF Next, vars, DeleteTrip, Archive, TimePasses, TripEvent
  <2> QED BY <2>1, <2>2 DEF MapOK
<1>5. HistoryOK'
  BY HistoryStep
<1> QED BY <1>1, <1>2, <1>3, <1>4, <1>5, TypeOKIsNext

\* TypeOK, whatever the accounts, the requests and the loads.
THEOREM TypeCorrect == Spec => []TypeOK
BY TypeInit, TypeStep, PTL DEF Spec

-----------------------------------------------------------------------------
(***************************************************************************)
(* Foreign keys.  With the types, NothingOutlivesItsParent is inductive: a *)
(* commit that inserts a child looks for the parent in the same statement, *)
(* and every deletion takes the children with it.                          *)
(***************************************************************************)
\* The inductive invariant.
ParentsInv == TypeOK /\ NothingOutlivesItsParent

Gone == DOMAIN items \cup DOMAIN entries \cup DOMAIN pins \cup lists \cup DOMAIN location = {}
WorkHasItems == \A k \in DOMAIN work : work[k].item \in DOMAIN items
EntriesHaveLists == \A e \in DOMAIN entries : entries[e].list \in lists

\* NothingOutlivesItsParent by parts.
LEMMA ParentsAre ==
  NothingOutlivesItsParent <=> WorkHasItems /\ EntriesHaveLists /\ (trip = "deleted" => Gone)
BY DEF NothingOutlivesItsParent, WorkHasItems, EntriesHaveLists, Gone

\* The new assignments of a commit.
LEMMA AddedWorkIs ==
  ASSUME TypeOK, NEW i \in Nat, NEW wanted \in SUBSET User, NEW first \in Nat \ {0},
         NEW old
  PROVE  LET new == WorkFor(i, wanted, first)
             all == Insert(old, new) IN
         /\ \A k \in DOMAIN all :
              \/ k \in DOMAIN old /\ all[k] = old[k]
              \/ all[k].item = i /\ all[k].user \in wanted
         /\ wanted = {} => DOMAIN all = DOMAIN old
<1> DEFINE new == WorkFor(i, wanted, first)
<1>1. Cardinality(wanted) \in Nat
  BY ContentAssumption, FS_Subset, FS_CardinalityType
<1>2. \A k \in DOMAIN new : new[k].item = i /\ new[k].user \in wanted
  <2>1. first + Cardinality(wanted) \in Nat
        /\ first + Cardinality(wanted) - 1 <= first + Cardinality(wanted)
    BY <1>1
  <2> QED BY <2>1, WorkForIs
<1>3. wanted = {} => DOMAIN new = {}
  BY <1>2
<1> HIDE DEF new
<1>4. /\ \A k \in DOMAIN Insert(old, new) :
           \/ k \in DOMAIN old /\ Insert(old, new)[k] = old[k]
           \/ Insert(old, new)[k].item = i /\ Insert(old, new)[k].user \in wanted
      /\ wanted = {} => DOMAIN Insert(old, new) = DOMAIN old
  BY <1>2, <1>3 DEF Insert
<1> QED BY <1>4 DEF new

LEMMA CreateItemKeepsParents ==
  ASSUME ParentsInv, NEW r \in Req, CreateItem(r)
  PROVE  NothingOutlivesItsParent'
<1> DEFINE q == req[r]
<1> PICK wanted : wanted = IF q.op = "create_task" THEN q.arg ELSE {}
  OBVIOUS
<1> USE DEF ParentsInv
<1>0. WorkHasItems /\ EntriesHaveLists /\ (trip = "deleted" => Gone) /\ IsRequest(q)
      /\ ids \in Nat
  BY ParentsAre, TypeOKIs, ContentAssumption DEF ReqsOK, TypeOK
<1>1. wanted \in SUBSET User
  BY <1>0 DEF IsRequest, Inputs
<1>2. CASE trip = "deleted"
  BY <1>0, <1>2 DEF CreateItem, Committing, people, NothingOutlivesItsParent, WorkHasItems,
                    EntriesHaveLists, Gone
<1>3. CASE trip # "deleted"
  <2> PICK row : row = [type |-> IF q.op = "create_task" THEN "task" ELSE "event",
                        dated |-> q.op = "create_event", done |-> Nobody]
    OBVIOUS
  <2>1. /\ items' = Insert(items, NewRow(row))
        /\ work' = Insert(work, WorkFor(ids + 1, wanted, ids + 2))
        /\ UNCHANGED <<lists, entries, trip>>
    BY <1>3 DEF CreateItem, Committing, people
  <2>2. DOMAIN items' = DOMAIN items \cup {ids + 1}
    BY <2>1 DEF Insert, NewRow
  <2>3. ids + 1 \in Nat /\ ids + 2 \in Nat \ {0}
    BY <1>0
  <2>4. \A k \in DOMAIN work' : (k \in DOMAIN work /\ work'[k] = work[k])
                                \/ work'[k].item = ids + 1
    BY <1>1, <2>1, <2>3, AddedWorkIs
  <2> QED BY <1>0, <1>3, <2>1, <2>2, <2>4 DEF NothingOutlivesItsParent, WorkHasItems,
                                         EntriesHaveLists
<1> QED BY <1>2, <1>3

LEMMA AssignKeepsParents ==
  ASSUME ParentsInv, NEW r \in Req, Assign(r)
  PROVE  NothingOutlivesItsParent'
<1> DEFINE q == req[r]
<1> USE DEF ParentsInv
<1>0. WorkHasItems /\ EntriesHaveLists /\ (trip = "deleted" => Gone) /\ IsRequest(q)
      /\ ids \in Nat
  BY ParentsAre, TypeOKIs, ContentAssumption DEF ReqsOK, TypeOK
<1>1. q.arg \in SUBSET User /\ q.row \in Nat
  BY <1>0 DEF IsRequest, Inputs, Assign, Committing, At
<1>2. UNCHANGED <<trip, items, lists, entries, pins, location>>
  BY DEF Assign, Committing, people
<1>3. \A k \in DOMAIN work' : work'[k].item \in DOMAIN items
  <2>1. CASE UNCHANGED work
    BY <1>0, <2>1 DEF WorkHasItems
  <2>2. CASE /\ work' = Insert(Without(work, q.rows), WorkFor(q.row, q.arg, ids + 1))
             /\ q.arg = {} \/ q.row \in DOMAIN items
    <3>1. ids + 1 \in Nat \ {0}
      BY <1>0
    <3>2. /\ \A k \in DOMAIN work' :
               \/ k \in DOMAIN Without(work, q.rows) /\ work'[k] = Without(work, q.rows)[k]
               \/ work'[k].item = q.row /\ q.arg # {}
      BY <1>1, <2>2, <3>1, AddedWorkIs
    <3>3. \A k \in DOMAIN Without(work, q.rows) :
            k \in DOMAIN work /\ Without(work, q.rows)[k] = work[k]
      BY DEF Without, Restrict
    <3> QED BY <1>0, <2>2, <3>2, <3>3 DEF WorkHasItems
  <2> QED BY <2>1, <2>2 DEF Assign
<1> QED BY <1>0, <1>2, <1>3 DEF NothingOutlivesItsParent, EntriesHaveLists, Gone

LEMMA CommitKeepsParents ==
  ASSUME ParentsInv, NEW r \in Req, Commit(r)
  PROVE  NothingOutlivesItsParent'
<1> DEFINE q == req[r]
<1> USE DEF ParentsInv
<1>0. WorkHasItems /\ EntriesHaveLists /\ (trip = "deleted" => Gone)
      /\ UNCHANGED trip
  <2>1. UNCHANGED trip
    BY DEF Commit, Committing, people, CreateItem, Assign, EditItem, DeleteItem,
           SetCompletion, CreateChecklist, DeleteChecklist, AddEntry, DeleteEntry, SetChecked,
           CreatePin, UpdatePin, DeletePin, UpsertLocation, ClearLocation
  <2> QED BY <2>1, ParentsAre
<1> USE DEF NothingOutlivesItsParent
<1>1. CASE EditItem(r) \/ SetCompletion(r)
  <2>1. DOMAIN items' = DOMAIN items /\ UNCHANGED <<work, lists, entries, pins, location>>
    BY <1>1 DEF EditItem, SetCompletion
  <2> QED BY <1>0, <2>1 DEF WorkHasItems, EntriesHaveLists, Gone
<1>2. CASE DeleteItem(r)
  <2>1. /\ items' = Without(items, {q.row}) /\ work' = Without(work, WorkOn(q.row))
        /\ UNCHANGED <<lists, entries, pins, location>>
    BY <1>2 DEF DeleteItem
  <2>2. \A k \in DOMAIN work' : work'[k] = work[k] /\ k \in DOMAIN work /\ work[k].item # q.row
    BY <2>1 DEF Without, Restrict, WorkOn
  <2>3. DOMAIN items' = DOMAIN items \ {q.row}
    BY <2>1 DEF Without, Restrict
  <2> QED BY <1>0, <2>1, <2>2, <2>3 DEF WorkHasItems, EntriesHaveLists, Gone
<1>3. CASE CreateChecklist(r)
  <2>1. lists \subseteq lists' /\ UNCHANGED <<items, work, entries, pins, location>>
        /\ (trip = "deleted" => lists' = lists)
    BY <1>3 DEF CreateChecklist
  <2> QED BY <1>0, <2>1 DEF WorkHasItems, EntriesHaveLists, Gone
<1>4. CASE DeleteChecklist(r)
  <2>1. /\ lists' = lists \ {q.row} /\ entries' = Without(entries, EntriesOf(q.row))
        /\ UNCHANGED <<items, work, pins, location>>
    BY <1>4 DEF DeleteChecklist
  <2>2. \A e \in DOMAIN entries' :
          entries'[e] = entries[e] /\ e \in DOMAIN entries /\ entries[e].list # q.row
    BY <2>1 DEF Without, Restrict, EntriesOf
  <2> QED BY <1>0, <2>1, <2>2 DEF WorkHasItems, EntriesHaveLists, Gone
<1>5. CASE AddEntry(r)
  <2>1. UNCHANGED <<items, work, lists, pins, location>>
    BY <1>5 DEF AddEntry
  <2>2. CASE q.row \notin lists
    BY <1>0, <1>5, <2>1, <2>2 DEF AddEntry, WorkHasItems, EntriesHaveLists, Gone
  <2>3. CASE q.row \in lists
    <3>1. entries' = Insert(entries, NewRow([list |-> q.row, got |-> Nobody]))
      BY <1>5, <2>3 DEF AddEntry
    <3>2. \A e \in DOMAIN entries' : (e \in DOMAIN entries /\ entries'[e] = entries[e])
                                     \/ entries'[e].list = q.row
      BY <3>1 DEF Insert, NewRow
    <3> QED BY <1>0, <2>1, <2>3, <3>2 DEF WorkHasItems, EntriesHaveLists, Gone
  <2> QED BY <2>2, <2>3
<1>6. CASE DeleteEntry(r)
  <2>1. \A e \in DOMAIN entries' : entries'[e] = entries[e] /\ e \in DOMAIN entries
    BY <1>6 DEF Without, Restrict, DeleteEntry
  <2>2. UNCHANGED <<items, work, lists, pins, location>>
    BY <1>6 DEF DeleteEntry
  <2> QED BY <1>0, <2>1, <2>2 DEF WorkHasItems, EntriesHaveLists, Gone
<1>7. CASE SetChecked(r)
  <2>1. UNCHANGED <<items, work, lists, pins, location>> /\ DOMAIN entries' = DOMAIN entries
    BY <1>7 DEF SetChecked
  <2>2. \A e \in DOMAIN entries : entries'[e].list = entries[e].list
    <3>1. TablesOK
      BY TypeOKIs
    <3>2. \A e \in DOMAIN entries : entries[e] \in Entry
      BY <3>1 DEF TablesOK, Upto
    <3> QED BY <1>7, <3>2 DEF SetChecked, Entry
  <2> QED BY <1>0, <2>1, <2>2 DEF WorkHasItems, EntriesHaveLists, Gone
<1>8. CASE CreatePin(r) \/ UpdatePin(r) \/ DeletePin(r)
  <2>1. UNCHANGED <<items, work, lists, entries, location>>
    BY <1>8 DEF CreatePin, UpdatePin, DeletePin
  <2>2. trip = "deleted" => DOMAIN pins' = {}
    <3> SUFFICES ASSUME trip = "deleted" PROVE DOMAIN pins' = {}
      OBVIOUS
    <3>1. DOMAIN pins = {}
      BY <1>0 DEF Gone
    <3>2. CASE CreatePin(r)
      BY <3>1, <3>2 DEF CreatePin
    <3>3. CASE UpdatePin(r)
      BY <3>1, <3>3 DEF UpdatePin
    <3>4. CASE DeletePin(r)
      BY <3>1, <3>4 DEF Without, Restrict, DeletePin
    <3> QED BY <1>8, <3>2, <3>3, <3>4
  <2> QED BY <1>0, <2>1, <2>2 DEF WorkHasItems, EntriesHaveLists, Gone
<1>9. CASE UpsertLocation(r) \/ ClearLocation(r)
  <2>1. UNCHANGED <<items, work, lists, entries, pins>>
    BY <1>9 DEF UpsertLocation, ClearLocation, tables
  <2>2. trip = "deleted" => DOMAIN location' = {}
    BY <1>0, <1>9 DEF UpsertLocation, ClearLocation, Gone, Without, Restrict
  <2> QED BY <1>0, <2>1, <2>2 DEF WorkHasItems, EntriesHaveLists, Gone
<1> QED BY <1>1, <1>2, <1>3, <1>4, <1>5, <1>6, <1>7, <1>8, <1>9,
           CreateItemKeepsParents, AssignKeepsParents DEF Commit

LEMMA ParentsInit == Init => ParentsInv
<1> SUFFICES ASSUME Init PROVE NothingOutlivesItsParent
  BY TypeInit DEF ParentsInv
<1> QED BY DEF Init, NothingOutlivesItsParent

LEMMA DropTripKeepsParents ==
  ASSUME DropTrip
  PROVE  NothingOutlivesItsParent'
BY DEF DropTrip, NothingOutlivesItsParent

\* Steps that leave the tables alone, and no position where there was none.
LEMMA QuietKeepsParents ==
  ASSUME NothingOutlivesItsParent, UNCHANGED tables, trip' = "deleted" => trip = "deleted",
         DOMAIN location' \subseteq DOMAIN location
  PROVE  NothingOutlivesItsParent'
BY DEF NothingOutlivesItsParent, tables

LEMMA ParentsStep == ParentsInv /\ [Next /\ Track]_<<vars, ghosts>> => ParentsInv'
<1> SUFFICES ASSUME ParentsInv, [Next]_vars PROVE NothingOutlivesItsParent'
  BY TypeStep DEF ParentsInv
<1>0. NothingOutlivesItsParent /\ TypeOK
  BY DEF ParentsInv
<1>1. CASE UNCHANGED <<tables, location, trip>>
  BY <1>0, <1>1, QuietKeepsParents
<1>2. CASE UNCHANGED vars
  BY <1>1, <1>2 DEF vars, people
<1>3. ASSUME NEW r \in Req, Authorize(r) PROVE NothingOutlivesItsParent'
  BY <1>1, <1>3 DEF Authorize, people
<1>4. ASSUME NEW r \in Req, Advance(r) PROVE NothingOutlivesItsParent'
  BY <1>1, <1>4, CommitKeepsParents
     DEF Advance, CheckWritable, Find, EnsureMembers, Deliver, Abort, people
<1>5. ASSUME NEW u \in User,
             \/ StartSharing(u) \/ Permission(u) \/ Publish(u) \/ SwitchOff(u)
             \/ LeaveMap(u) \/ OpenMap(u) \/ KillApp(u)
      PROVE  NothingOutlivesItsParent'
  BY <1>1, <1>5 DEF StartSharing, Permission, Publish, SwitchOff, LeaveMap, OpenMap,
                    KillApp, people
<1>6. CASE TimePasses
  BY <1>0, <1>6, QuietKeepsParents DEF TimePasses, people
<1>7. ASSUME NEW u \in User, Join(u) PROVE NothingOutlivesItsParent'
  BY <1>1, <1>7 DEF Join
<1>8. ASSUME NEW u \in User, RemoveMember(u) PROVE NothingOutlivesItsParent'
  BY <1>0, <1>8 DEF RemoveMember, Without, Restrict, NothingOutlivesItsParent
<1>9. ASSUME NEW u \in User, Depart(u) PROVE NothingOutlivesItsParent'
  BY <1>8, <1>9, DropTripKeepsParents DEF Depart
<1>10. ASSUME NEW u \in User, CloseAccount(u) PROVE NothingOutlivesItsParent'
  <2>1. DOMAIN Without(location, {u}) \subseteq DOMAIN location
    BY DEF Without, Restrict
  <2> QED BY <1>0, <1>10, <2>1, DropTripKeepsParents, QuietKeepsParents DEF CloseAccount
<1>11. CASE DeleteTrip
  BY <1>11, DropTripKeepsParents DEF DeleteTrip
<1>12. CASE Archive
  BY <1>0, <1>12, QuietKeepsParents DEF Archive
<1> QED BY <1>2, <1>3, <1>4, <1>5, <1>6, <1>7, <1>9, <1>10, <1>11, <1>12 DEF Next

\* NothingOutlivesItsParent under every overlap of any number of requests.
THEOREM ForeignKeysHold == Spec => []NothingOutlivesItsParent
<1>1. ParentsInv => NothingOutlivesItsParent
  BY DEF ParentsInv
<1> QED BY <1>1, ParentsInit, ParentsStep, PTL DEF Spec

-----------------------------------------------------------------------------
(***************************************************************************)
(* Departures.  DeparturesLeaveNothingBehind needs what a request on its   *)
(* way has found out: whom it names are members, or have departed since    *)
(* (ChecksStand).                                                          *)
(***************************************************************************)
\* A request about to commit names members, and those that are gone since.
Checked(q, gone) == Head(q.todo) = "commit" => Named(q) \subseteq members \cup gone

ChecksStand == \A r \in Req : Checked(req[r], departed[r])

\* The inductive invariant.
DeparturesInv == TypeOK /\ ChecksStand /\ DeparturesLeaveNothingBehind

LEMMA IdleNamesNobody == Named(Idle) = {}
BY DEF Named, Idle

LEMMA DeparturesInit == Init => DeparturesInv
<1> SUFFICES ASSUME Init PROVE ChecksStand /\ DeparturesLeaveNothingBehind
  BY TypeInit DEF DeparturesInv
<1>1. ChecksStand
  BY IdleNamesNobody DEF Init, ChecksStand, Checked
<1>2. DeparturesLeaveNothingBehind
  BY DEF Init, DeparturesLeaveNothingBehind
<1> QED BY <1>1, <1>2

\* What a request names it goes on naming.
LEMMA NamesStay ==
  ASSUME NEW q, NEW t, t.op = q.op, t.user = q.user, t.arg = q.arg
  PROVE  Named(t) = Named(q)
BY DEF Named

\* The checks of a request find out whom it names, while the members stay.
LEMMA ChecksFindOut ==
  ASSUME TypeOK, NEW r \in Req, Checks(r), ~Answer(r)
  PROVE  Checked(req'[r], {}) /\ members' = members
<1>1. members' = members
  BY DEF Checks, CheckWritable, Find, EnsureMembers, Deliver, people
<1>2. IsRequest(req[r]) /\ ReqsOK
  BY TypeOKIs DEF ReqsOK
<1>3. ASSUME NEW q, IsRequest(q), Continue(r, q), q.op # "idle", Head(q.todo) # "commit",
             Head(q.todo) = "members" => q.arg \subseteq members,
             Head(q.todo) = "admit" /\ q.op = "share" => q.user \in members
      PROVE  Checked(req'[r], {})
  <2>1. PICK t : t = [q EXCEPT !.todo = Tail(@)]
    OBVIOUS
  <2>2. t.todo = Tail(q.todo) /\ t.op = q.op /\ t.user = q.user /\ t.arg = q.arg
    BY <1>3, <2>1, OnwardIsARequest
  <2>3. q.op \in DOMAIN Steps /\ q.todo \in Suffixes(Plan(q.op)) /\ q.todo # <<>>
    BY <1>3 DEF IsRequest, Plan
  <2>4. Head(Tail(q.todo)) = "commit" =>
          /\ q.op \in {"create_task", "assign"} => Head(q.todo) = "members"
          /\ q.op \in CommitOnly => Head(q.todo) = "admit"
    BY <1>3, <2>3, OnwardIs
  <2>5. Head(t.todo) = "commit" => Named(q) \subseteq members
    <3> SUFFICES ASSUME Head(t.todo) = "commit" PROVE Named(q) \subseteq members
      OBVIOUS
    <3>1. Head(Tail(q.todo)) = "commit"
      BY <2>2, Zenon
    <3>2. CASE q.op \in {"create_task", "assign"}
      <4>1. Named(q) = q.arg
        BY <3>2 DEF Named
      <4>2. Head(q.todo) = "members"
        BY <2>4, <3>1, <3>2
      <4> QED BY <1>3, <4>1, <4>2, Zenon
    <3>3. CASE q.op = "share"
      <4>1. Named(q) = {q.user}
        BY <3>3 DEF Named
      <4>2. Head(q.todo) = "admit"
        BY <2>4, <3>1, <3>3 DEF CommitOnly
      <4> QED BY <1>3, <3>3, <4>1, <4>2
    <3> QED BY <3>2, <3>3 DEF Named
  <2>6. req'[r] = t
    BY <1>2, <1>3, <2>1 DEF Continue, Become, ReqsOK
  <2> QED BY <2>2, <2>5, <2>6, NamesStay DEF Checked
<1>4. CASE CheckWritable(r)
  <2>1. req[r].op \in Writes /\ Head(req[r].todo) = "admit"
    BY <1>4 DEF CheckWritable, At
  <2>2. req[r].op # "idle" /\ req[r].op # "share"
    BY <2>1, StepsAre, PositionsAre
  <2> QED BY <1>1, <1>2, <1>3, <1>4, <2>1, <2>2 DEF CheckWritable, Proceed
<1>5. CASE EnsureMembers(r)
  BY <1>1, <1>2, <1>3, <1>5 DEF EnsureMembers, At, Proceed
<1>6. CASE Deliver(r)
  <2>1. req[r].op \in {"share", "unshare"} /\ Head(req[r].todo) = "admit"
    BY <1>6, PositionsAre DEF Deliver, At
  <2> QED BY <1>1, <1>2, <1>3, <1>6, <2>1 DEF Deliver, Proceed
<1>7. CASE Find(r)
  <2>1. req[r].op \in DOMAIN Steps /\ Head(req[r].todo) = "find"
    BY <1>7, PositionsAre DEF Find, At
  <2>2. PICK q : q = [req[r] EXCEPT !.rows = IF req[r].op = "assign" THEN WorkOn(req[r].row)
                                             ELSE {},
                                    !.marked = Ticked(req[r])]
    OBVIOUS
  <2>3. Continue(r, q)
    BY <1>7, <2>2 DEF Find
  <2>4. /\ DOMAIN q = DOMAIN Idle /\ q.todo = req[r].todo /\ q.op = req[r].op
        /\ q.user = req[r].user /\ q.row = req[r].row /\ q.arg = req[r].arg
        /\ q.rows \in {{}, WorkOn(req[r].row)} /\ q.marked = Ticked(req[r])
    BY <1>2, <2>2 DEF IsRequest, Idle
  <2>5. WorkOn(req[r].row) \subseteq Nat /\ Ticked(req[r]) \in BOOLEAN
    <3>1. ids \in Nat /\ DOMAIN work \subseteq 1..ids
      BY ContentAssumption DEF TypeOK, IsTable
    <3> QED BY <3>1 DEF WorkOn, Ticked
  <2>6. IsRequest(q)
    BY <1>2, <2>4, <2>5 DEF IsRequest
  <2>7. q.op # "idle"
    BY <2>1, <2>4, StepsAre
  <2> QED BY <1>1, <1>3, <2>1, <2>3, <2>4, <2>6, <2>7
<1> QED BY <1>1, <1>4, <1>5, <1>6, <1>7 DEF Checks

\* Whoever leaves after the check has departed for the request.
LEMMA ChecksStandStep ==
  ASSUME TypeOK, ChecksStand, Next, Track
  PROVE  ChecksStand'
<1>0. ReqsOK /\ ReqsOK'
  BY TypeOKIs, RequestsStep
<1> SUFFICES ASSUME NEW s \in Req PROVE Checked(req[s], departed[s])'
  BY DEF ChecksStand
<1>1. Checked(req[s], departed[s])
  BY DEF ChecksStand
<1>2. CASE req'[s] = req[s]
  <2>1. departed'[s] = (departed[s] \cup Left) \cap Named(req[s])
    BY <1>2 DEF Track
  <2>2. members \subseteq members' \cup Left
    BY DEF Left
  <2>3. Named(req[s])' = Named(req[s])
    BY <1>2 DEF Named
  <2>4. Head(req[s].todo) = "commit" => Named(req[s]) \subseteq members' \cup departed'[s]
    BY <1>1, <2>1, <2>2 DEF Checked
  <2> QED BY <1>2, <2>3, <2>4 DEF Checked
<1>3. CASE req'[s] # req[s]
  <2>1. ASSUME Head(req'[s].todo) = "commit" => Named(req'[s]) \subseteq members'
        PROVE  Checked(req[s], departed[s])'
    BY <2>1 DEF Checked, Named
  <2>2. ASSUME NEW r \in Req, NEW q, Become(r, q) PROVE r = s /\ req'[s] = q
    BY <1>0, <1>3, <2>2 DEF Become, ReqsOK
  <2>3. ASSUME NEW r \in Req, Answer(r) PROVE Checked(req[s], departed[s])'
    <3>1. Named(req'[s]) = {}
      BY <2>2, <2>3, IdleNamesNobody DEF Answer
    <3> QED BY <2>1, <3>1
  <2>4. ASSUME NEW r \in Req, Arrives(r) PROVE Checked(req[s], departed[s])'
    <3>1. PICK u \in User, op \in DOMAIN Steps : \E arg \in Inputs(op), row \in Nat :
                 Arrive(r, u, op, arg, row)
      BY <2>4 DEF Arrives
    <3>2. PICK arg \in Inputs(op), row \in Nat : Arrive(r, u, op, arg, row)
      BY <3>1
    <3>3. PICK q : q = [Idle EXCEPT !.op = op, !.todo = <<"admit">> \o Steps[op],
                                    !.user = u, !.arg = arg, !.row = row]
      OBVIOUS
    <3>4. q.todo = Plan(op) /\ Become(r, q)
      BY <3>2, <3>3 DEF Arrive, Plan, Idle
    <3>5. Head(Plan(op)) = "admit"
      <4>1. Plan(op) \in Seq(RoundTrip) /\ Len(Plan(op)) >= 2 /\ Plan(op)[1] = "admit"
        BY PlanIs
      <4> QED BY <4>1
    <3> QED BY <2>1, <2>2, <3>4, <3>5
  <2>5. ASSUME NEW r \in Req, Checks(r), ~Answer(r) PROVE Checked(req[s], departed[s])'
    <3>1. Checked(req'[r], {}) /\ members' = members
      BY <2>5, ChecksFindOut
    <3>2. \E q : Become(r, q)
      BY <2>5 DEF Checks, CheckWritable, Find, EnsureMembers, Deliver, Proceed, Continue,
                  Answer
    <3> QED BY <2>1, <2>2, <3>1, <3>2 DEF Checked
  <2> QED BY <1>3, <2>3, <2>4, <2>5, RequestsMove
<1> QED BY <1>2, <1>3

WorkersBelong ==
  \A k \in DOMAIN work : work[k].user \in members \cup late \/ ~active[work[k].user]
MapBelongs    == DOMAIN location \subseteq members \cup late

\* DeparturesLeaveNothingBehind by parts.
LEMMA DeparturesAre ==
  DeparturesLeaveNothingBehind <=> WorkersBelong /\ MapBelongs
BY DEF DeparturesLeaveNothingBehind, WorkersBelong, MapBelongs

\* Only leaving ends what is remembered of a person, and a commit remembers whom it
\* named too late.
LEMMA OnlyLeavingForgets ==
  ASSUME Track
  PROVE  /\ members \cup late \subseteq members' \cup late' \cup Left
         /\ \A r \in Req : Commit(r) => departed[r] \subseteq late'
BY DEF Track, Left

LEMMA RemovalLeavesNothing ==
  ASSUME TypeOK, WorkersBelong, MapBelongs, Track, NEW u \in User, RemoveMember(u),
         UNCHANGED active
  PROVE  (WorkersBelong /\ MapBelongs)'
<1>1. \A k \in DOMAIN work' : /\ k \in DOMAIN work /\ work'[k] = work[k]
                              /\ work[k].user # u
  BY DEF RemoveMember, Without, Restrict, WorkOf
<1>2. DOMAIN location' = DOMAIN location \ {u} /\ Left \subseteq {u}
  BY DEF RemoveMember, Without, Restrict, Left
<1>3. members \cup late \subseteq members' \cup late' \cup {u}
  BY <1>2, OnlyLeavingForgets
<1> QED BY <1>1, <1>2, <1>3 DEF WorkersBelong, MapBelongs

LEMMA DropLeavesNothing ==
  ASSUME DropTrip
  PROVE  (WorkersBelong /\ MapBelongs)'
BY DEF DropTrip, WorkersBelong, MapBelongs

\* A commit writes rows about whom its request named.
LEMMA CommitsNameMembers ==
  ASSUME DeparturesInv, Track, NEW r \in Req, Commit(r)
  PROVE  (WorkersBelong /\ MapBelongs)'
<1> DEFINE q == req[r]
<1>0. /\ TypeOK /\ WorkersBelong /\ MapBelongs /\ IsRequest(q) /\ Checked(q, departed[r])
      /\ ids \in Nat /\ UNCHANGED <<members, active>>
  <2>1. UNCHANGED people
    BY DEF Commit, Committing, CreateItem, Assign, EditItem, DeleteItem,
           SetCompletion, CreateChecklist, DeleteChecklist, AddEntry, DeleteEntry, SetChecked,
           CreatePin, UpdatePin, DeletePin, UpsertLocation, ClearLocation
  <2> QED BY <2>1, DeparturesAre, ContentAssumption
          DEF DeparturesInv, ChecksStand, TypeOK, people
<1>a. /\ members \cup late \subseteq members' \cup late'
      /\ Head(q.todo) = "commit" => Named(q) \subseteq members' \cup late'
  <2>1. Left = {}
    BY <1>0 DEF Left
  <2> QED BY <1>0, <2>1, OnlyLeavingForgets DEF Checked
<1>1. CASE UNCHANGED <<work, location>>
  BY <1>0, <1>a, <1>1 DEF WorkersBelong, MapBelongs
<1>2. ASSUME UNCHANGED location,
             \A k \in DOMAIN work' : \/ k \in DOMAIN work /\ work'[k] = work[k]
                                     \/ work'[k].user \in members' \cup late'
      PROVE  (WorkersBelong /\ MapBelongs)'
  BY <1>0, <1>a, <1>2 DEF WorkersBelong, MapBelongs
<1>3. CASE CreateItem(r)
  <2>1. UNCHANGED location
    BY <1>3 DEF CreateItem
  <2>2. CASE UNCHANGED work
    BY <1>1, <2>1, <2>2
  <2>3. CASE trip # "deleted"
    <3> PICK wanted : wanted = IF q.op = "create_task" THEN q.arg ELSE {}
      OBVIOUS
    <3>1. wanted \in SUBSET User /\ wanted \subseteq members' \cup late'
      BY <1>0, <1>a, <1>3 DEF IsRequest, Inputs, CreateItem, Committing, At, Named
    <3>2. work' = Insert(work, WorkFor(ids + 1, wanted, ids + 2))
      BY <1>3, <2>3 DEF CreateItem
    <3>3. ids + 1 \in Nat /\ ids + 2 \in Nat \ {0}
      BY <1>0
    <3>4. \A k \in DOMAIN work' : \/ k \in DOMAIN work /\ work'[k] = work[k]
                                  \/ work'[k].user \in wanted
      BY <1>0, <3>1, <3>2, <3>3, AddedWorkIs
    <3> QED BY <1>2, <2>1, <3>1, <3>4
  <2> QED BY <1>3, <2>2, <2>3 DEF CreateItem
<1>4. CASE Assign(r)
  <2>1. UNCHANGED location
    BY <1>4 DEF Assign
  <2>2. q.arg \in SUBSET User /\ q.row \in Nat /\ q.arg \subseteq members' \cup late'
    BY <1>0, <1>a, <1>4 DEF IsRequest, Inputs, Assign, Committing, At, Named
  <2>3. CASE UNCHANGED work
    BY <1>1, <2>1, <2>3
  <2>4. CASE work' = Insert(Without(work, q.rows), WorkFor(q.row, q.arg, ids + 1))
    <3>1. ids + 1 \in Nat \ {0}
      BY <1>0
    <3>2. \A k \in DOMAIN work' :
            \/ k \in DOMAIN Without(work, q.rows) /\ work'[k] = Without(work, q.rows)[k]
            \/ work'[k].user \in q.arg
      BY <1>0, <2>2, <2>4, <3>1, AddedWorkIs
    <3>3. \A k \in DOMAIN Without(work, q.rows) :
            k \in DOMAIN work /\ Without(work, q.rows)[k] = work[k]
      BY DEF Without, Restrict
    <3> QED BY <1>2, <2>1, <2>2, <3>2, <3>3
  <2> QED BY <1>4, <2>3, <2>4 DEF Assign
<1>5. CASE DeleteItem(r)
  BY <1>2, <1>5 DEF DeleteItem, Without, Restrict
<1>6. CASE UpsertLocation(r)
  <2>1. q.user \in members' \cup late' /\ UNCHANGED work
    BY <1>a, <1>6 DEF UpsertLocation, Committing, At, Named, tables
  <2>2. DOMAIN location' \subseteq DOMAIN location \cup {q.user}
    BY <1>6 DEF UpsertLocation, Insert
  <2> QED BY <1>0, <1>a, <2>1, <2>2 DEF WorkersBelong, MapBelongs
<1>7. CASE ClearLocation(r)
  <2>1. DOMAIN location' \subseteq DOMAIN location
    BY <1>7 DEF ClearLocation, Without, Restrict
  <2>2. UNCHANGED work
    BY <1>7 DEF ClearLocation, tables
  <2> QED BY <1>0, <1>a, <2>1, <2>2 DEF WorkersBelong, MapBelongs
<1> QED BY <1>1, <1>3, <1>4, <1>5, <1>6, <1>7
        DEF Commit, EditItem, SetCompletion, CreateChecklist, DeleteChecklist, AddEntry,
            DeleteEntry, SetChecked, CreatePin, UpdatePin, DeletePin

LEMMA DeparturesStep == DeparturesInv /\ [Next /\ Track]_<<vars, ghosts>> => DeparturesInv'
<1> SUFFICES ASSUME DeparturesInv, [Next /\ Track]_<<vars, ghosts>>
             PROVE  (ChecksStand /\ WorkersBelong /\ MapBelongs)'
  <2>1. DeparturesLeaveNothingBehind' <=> (WorkersBelong /\ MapBelongs)'
    BY DEF DeparturesLeaveNothingBehind, WorkersBelong, MapBelongs
  <2> QED BY <2>1, TypeStep DEF DeparturesInv
<1>0. TypeOK /\ ChecksStand /\ WorkersBelong /\ MapBelongs
  BY DeparturesAre DEF DeparturesInv
<1>1. CASE UNCHANGED <<vars, ghosts>>
  BY <1>0, <1>1 DEF vars, people, tables, ghosts, ChecksStand, Checked, Named, WorkersBelong,
                    MapBelongs
<1> SUFFICES ASSUME Next, Track PROVE (WorkersBelong /\ MapBelongs)'
  BY <1>0, <1>1, ChecksStandStep
<1>2. ASSUME Left = {} PROVE members \cup late \subseteq members' \cup late'
  BY <1>2, OnlyLeavingForgets
<1>3. ASSUME UNCHANGED <<work, active>>, members \subseteq members',
             DOMAIN location' \subseteq DOMAIN location
      PROVE  (WorkersBelong /\ MapBelongs)'
  <2>1. Left = {}
    BY <1>3 DEF Left
  <2> QED BY <1>0, <1>2, <1>3, <2>1 DEF WorkersBelong, MapBelongs
<1>4. CASE UNCHANGED <<work, location, members, active>>
  BY <1>3, <1>4
<1>5. ASSUME NEW r \in Req, Authorize(r) PROVE (WorkersBelong /\ MapBelongs)'
  BY <1>4, <1>5 DEF Authorize, people, tables
<1>6. ASSUME NEW r \in Req, Advance(r) PROVE (WorkersBelong /\ MapBelongs)'
  BY <1>4, <1>6, CommitsNameMembers
     DEF Advance, CheckWritable, Find, EnsureMembers, Deliver, Abort, people, tables
<1>7. ASSUME NEW u \in User,
             \/ StartSharing(u) \/ Permission(u) \/ Publish(u) \/ SwitchOff(u)
             \/ LeaveMap(u) \/ OpenMap(u) \/ KillApp(u)
      PROVE  (WorkersBelong /\ MapBelongs)'
  BY <1>4, <1>7 DEF StartSharing, Permission, Publish, SwitchOff, LeaveMap, OpenMap,
                    KillApp, people, tables
<1>8. CASE TimePasses
  BY <1>3, <1>8 DEF TimePasses, people, tables
<1>9. ASSUME NEW u \in User, Join(u) PROVE (WorkersBelong /\ MapBelongs)'
  BY <1>3, <1>9 DEF Join, tables
<1>10. ASSUME NEW u \in User, Depart(u) PROVE (WorkersBelong /\ MapBelongs)'
  BY <1>0, <1>10, RemovalLeavesNothing, DropLeavesNothing DEF Depart
<1>11. ASSUME NEW u \in User, CloseAccount(u) PROVE (WorkersBelong /\ MapBelongs)'
  <2>1. CASE u = Founder
    BY <1>11, <2>1, DropLeavesNothing DEF CloseAccount
  <2>2. CASE u # Founder
    <3>1. /\ members' = members \ {u} /\ DOMAIN location' = DOMAIN location \ {u}
          /\ active' = [active EXCEPT ![u] = FALSE] /\ UNCHANGED work
      BY <1>11, <2>2 DEF CloseAccount, tables, Without, Restrict
    <3>2. members \cup late \subseteq members' \cup late' \cup {u}
      BY <3>1, OnlyLeavingForgets DEF Left
    <3>3. \A k \in DOMAIN work : work[k].user \in User
      BY <1>0 DEF TypeOK, IsTable, Work
    <3>4. WorkersBelong'
      BY <1>0, <3>1, <3>2, <3>3 DEF WorkersBelong, TypeOK
    <3>5. MapBelongs'
      BY <1>0, <3>1, <3>2 DEF MapBelongs
    <3> QED BY <3>4, <3>5
  <2> QED BY <2>1, <2>2
<1>12. CASE DeleteTrip
  BY <1>12, DropLeavesNothing DEF DeleteTrip
<1>13. CASE Archive
  BY <1>4, <1>13 DEF Archive, tables
<1> QED BY <1>5, <1>6, <1>7, <1>8, <1>9, <1>10, <1>11, <1>12, <1>13 DEF Next

\* DeparturesLeaveNothingBehind, under every overlap of any number of requests of any
\* number of people: no assignment and no position stays behind, but what a request
\* wrote that had found the person a member before they left.
THEOREM NobodyLeavesAnythingBehind == Spec => []DeparturesLeaveNothingBehind
<1>1. DeparturesInv => DeparturesLeaveNothingBehind
  BY DEF DeparturesInv
<1> QED BY <1>1, DeparturesInit, DeparturesStep, PTL DEF Spec
=============================================================================
