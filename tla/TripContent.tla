----------------------------- MODULE TripContent -----------------------------
(***************************************************************************)
(* What the members of one trip put into it besides money: the plan        *)
(* (item_service), the checklists (checklist_service), the pins and the    *)
(* live locations of the map (map_service, and the app's LocationSharer).  *)
(*                                                                         *)
(* As in TripRequests a request is a sequence of database round trips that *)
(* ends with one commit, and everything it has read may be stale by then.  *)
(* Archiving, joining, leaving, closing an account and deleting the trip   *)
(* are one step each here, namely what their commit does to these tables;  *)
(* how a request gets that far is the subject of TripRequests.             *)
(*                                                                         *)
(* A table is a function from the ids of the rows that exist.  All tables  *)
(* draw their ids from one counter: uuid4 never repeats one either.        *)
(***************************************************************************)
EXTENDS Naturals, Functions, SequencesExt

CONSTANTS
  User,       \* accounts
  Founder,    \* the trip's owner
  Companion,  \* the accounts that are members initially
  Place,      \* positions of a pin
  Nobody,     \* NULL in completed_by and checked_by
  Req,        \* request slots, numbered from 1
  Ttl,        \* LOCATION_TTL, in ticks of the clock
  Loads       \* what clients may be up to: the endpoints called, how many requests
              \* overlap, and (bounds) the rows ever inserted and who ever opens the
              \* map; a behaviour sticks to one of them

(***************************************************************************)
(* The round trips of the endpoints once their dependencies have let them  *)
(* in, router by router.  PATCH of an item is two endpoints here: one with *)
(* a set of assignees, one without.                                        *)
(***************************************************************************)
NewItem == [create_event |-> <<"commit">>, create_task |-> <<"members", "commit">>]
ItemSteps ==
  [assign |-> <<"find", "members", "commit">>,
   edit_item |-> <<"find", "commit">>, delete_item |-> <<"find", "commit">>,
   complete  |-> <<"find", "commit">>, reopen      |-> <<"find", "commit">>]
NewList == [create_list |-> <<"commit">>]
ListSteps ==
  [delete_list  |-> <<"find", "commit">>, add_entry |-> <<"find", "commit">>]
EntrySteps ==
  [delete_entry |-> <<"find", "commit">>,
   check        |-> <<"find", "commit">>, uncheck   |-> <<"find", "commit">>]
NewPin == [create_pin |-> <<"commit">>]
PinSteps ==
  [update_pin |-> <<"find", "commit">>, delete_pin |-> <<"find", "commit">>]
PositionSteps == [share |-> <<"commit">>, unshare |-> <<"commit">>]

Steps ==
  [op \in UNION {DOMAIN NewItem, DOMAIN ItemSteps, DOMAIN NewList, DOMAIN ListSteps,
                 DOMAIN EntrySteps, DOMAIN NewPin, DOMAIN PinSteps, DOMAIN PositionSteps} |->
     CASE op \in DOMAIN NewItem       -> NewItem[op]
       [] op \in DOMAIN ItemSteps     -> ItemSteps[op]
       [] op \in DOMAIN NewList       -> NewList[op]
       [] op \in DOMAIN ListSteps     -> ListSteps[op]
       [] op \in DOMAIN EntrySteps    -> EntrySteps[op]
       [] op \in DOMAIN NewPin        -> NewPin[op]
       [] op \in DOMAIN PinSteps      -> PinSteps[op]
       [] op \in DOMAIN PositionSteps -> PositionSteps[op]]

Positions == DOMAIN PositionSteps
Writes    == DOMAIN Steps \ Positions
TripOps   == {"join", "depart", "close_account", "archive", "delete_trip"}

ASSUME ContentAssumption ==
  /\ IsFiniteSet(User)  \* tables are finite
  /\ Founder \in User /\ Companion \subseteq User \ {Founder}
  /\ Nobody \notin User
  /\ Req \subseteq Nat \ {0} /\ Ttl \in Nat \ {0}
  /\ \A l \in Loads : l.ops \subseteq Writes \cup Positions \cup TripOps
                      /\ l.slots \in Nat /\ l.rows \in Nat

VARIABLES
  load,      \* the load of this behaviour
  trip,      \* "live", "archived" or "deleted"
  members,   \* who has a row in trip_members
  active,    \* whose account is open
  ids,       \* ids given out
  items, work, lists, entries, pins,  \* work is the table item_assignees
  location,  \* member_locations, by person: what is left of the row's TTL
  sharing,   \* the app's LocationSharer, which asks for permission first
  onScreen,  \* who has the map open
  req,       \* the requests in flight
  departed,  \* ghost: whom a request found to be members and who have left since
  late       \* ghost: whom a commit wrote rows about although they had left

people == <<trip, members, active>>
tables == <<ids, items, work, lists, entries, pins>>
app    == <<sharing, onScreen>>
vars   == <<load, people, tables, location, app, req>>
ghosts == <<departed, late>>

Item  == [type : {"event", "task"}, dated : BOOLEAN, done : User \cup {Nobody}]
Work  == [item : Nat, user : User]
Entry == [list : Nat, got : User \cup {Nobody}]
Pin   == Place
Location == 0..Ttl

Inputs(op) ==
  CASE op \in {"create_task", "assign"}     -> SUBSET User
    [] op = "edit_item"                     -> BOOLEAN
    [] op \in {"create_pin", "update_pin"}  -> Place
    [] OTHER                                -> {Nobody}

(***************************************************************************)
(*   todo    the round trips still to be made                              *)
(*   row     the id in the path                                            *)
(*   rows    ids of the assignee rows the ORM loaded with the item         *)
(*   marked  the item, or the entry, was ticked when the ORM loaded it     *)
(***************************************************************************)
Idle == [op |-> "idle", todo |-> <<>>, user |-> Founder, row |-> 0,
         arg |-> Nobody, rows |-> {}, marked |-> FALSE]
IsRequest(q) ==
  /\ DOMAIN q = DOMAIN Idle /\ q.op \in DOMAIN Steps \cup {"idle"}
  /\ q.op = "idle" <=> q.todo = <<>>
  /\ q.op # "idle" => q.todo \in Suffixes(<<"admit">> \o Steps[q.op])
  /\ q.user \in User /\ q.row \in Nat /\ q.rows \subseteq Nat
  /\ q.arg \in Inputs(q.op) /\ q.marked \in BOOLEAN

IsTable(t, Row) == t \in [DOMAIN t -> Row] /\ DOMAIN t \subseteq 1..ids

TypeOK ==
  /\ load \in Loads /\ trip \in {"live", "archived", "deleted"}
  /\ members \subseteq User /\ active \in [User -> BOOLEAN] /\ ids \in 0..load.rows
  /\ IsTable(items, Item) /\ IsTable(work, Work) /\ IsTable(entries, Entry)
  /\ IsTable(pins, Pin) /\ lists \subseteq 1..ids
  /\ location \in [DOMAIN location -> Location] /\ DOMAIN location \subseteq User
  /\ sharing \in [User -> {"off", "asking", "on"}] /\ onScreen \in [User -> BOOLEAN]
  /\ DOMAIN req = Req /\ \A r \in Req : IsRequest(req[r])
  /\ departed \in [Req -> SUBSET User] /\ late \subseteq User

At(r, ops, step) == req[r].op \in ops /\ Head(req[r].todo) = step
Become(r, q)     == req' = [req EXCEPT ![r] = q]
Answer(r)        == Become(r, Idle)
Continue(r, q)   == Become(r, [q EXCEPT !.todo = Tail(@)])
Proceed(r, condition) == IF condition THEN Continue(r, req[r]) ELSE Answer(r)

Insert(t, new)   == [i \in DOMAIN t \cup DOMAIN new |->
                       IF i \in DOMAIN new THEN new[i] ELSE t[i]]
Without(t, gone) == Restrict(t, DOMAIN t \ gone)
NewRow(row)      == [i \in {ids + 1} |-> row]

WorkOn(i)      == {k \in DOMAIN work : work[k].item = i}
WorkOf(u)      == {k \in DOMAIN work : work[k].user = u}
Assignees(i)   == {work[k].user : k \in WorkOn(i)}
EntriesOf(l)   == {e \in DOMAIN entries : entries[e].list = l}
OneAtATime     == load.slots = 1
Quiet          == OneAtATime => \A r \in Req : req[r] = Idle

-----------------------------------------------------------------------------
(***************************************************************************)
(* Requests arrive.  Deciding who may call is one step with arriving, as   *)
(* a caller that is refused leaves no trace.  Positions come from the      *)
(* phone and spend a while on their way, see the LocationSharer below.     *)
(***************************************************************************)
Arrive(r, u, op, arg, row) ==
  /\ r <= load.slots /\ req[r] = Idle /\ op \in load.ops
  /\ Become(r, [Idle EXCEPT !.op = op, !.todo = <<"admit">> \o Steps[op],
                            !.user = u, !.arg = arg, !.row = row])

\* Clients name rows they were shown; by the time the row is looked for it may be
\* gone.
Rows(op) ==
  CASE op \in DOMAIN ItemSteps  -> DOMAIN items
    [] op \in DOMAIN ListSteps  -> lists
    [] op \in DOMAIN EntrySteps -> DOMAIN entries
    [] op \in DOMAIN PinSteps   -> DOMAIN pins
    [] OTHER -> {0}

Authorize(r) ==
  /\ \E u \in members, op \in Writes : \E arg \in Inputs(op), row \in Rows(op) :
       Arrive(r, u, op, arg, row)
  /\ UNCHANGED <<load, people, tables, location, app>>

\* get_writable_membership.
CheckWritable(r) ==
  /\ At(r, Writes, "admit")
  /\ Proceed(r, trip = "live")
  /\ UNCHANGED <<load, people, tables, location, app>>

(***************************************************************************)
(* get_item with its assignees, get_checklist, get_entry in its checklist, *)
(* get_pin.  Completion is for tasks only.                                 *)
(***************************************************************************)
Found(q) == /\ q.row \in Rows(q.op)
            /\ q.op \in {"complete", "reopen"} => items[q.row].type = "task"

Ticked(q) == \/ q.op \in {"complete", "reopen"} /\ items[q.row].done # Nobody
             \/ q.op \in {"check", "uncheck"} /\ entries[q.row].got # Nobody

Find(r) ==
  LET q == req[r] IN
  /\ At(r, Writes, "find")
  /\ IF Found(q)
     THEN Continue(r, [q EXCEPT !.rows = IF q.op = "assign" THEN WorkOn(q.row) ELSE {},
                                !.marked = Ticked(q)])
     ELSE Answer(r)
  /\ UNCHANGED <<load, people, tables, location, app>>

\* _ensure_members, in one query for all of them.
EnsureMembers(r) ==
  /\ At(r, {"create_task", "assign"}, "members")
  /\ Proceed(r, req[r].arg \subseteq members)
  /\ UNCHANGED <<load, people, tables, location, app>>

\* The connection drops, the process restarts, the phone gives up.
Abort(r) ==
  /\ req[r] # Idle /\ Answer(r)
  /\ UNCHANGED <<load, people, tables, location, app>>

-----------------------------------------------------------------------------
(***************************************************************************)
(* The commits.  An INSERT whose parent row is gone fails on its foreign   *)
(* key, an UPDATE by id of a row that is gone is a StaleDataError: both    *)
(* roll back.  A DELETE of a row that is gone only warns.                  *)
(***************************************************************************)
Committing(r, ops) == At(r, ops, "commit") /\ Answer(r)
                      /\ UNCHANGED <<load, people, app>>

WorkFor(i, wanted, first) ==
  [k \in first..(first + Cardinality(wanted) - 1) |->
     [item |-> i, user |-> SetToSeq(wanted)[k - first + 1]]]

Room(n) == ids + n <= load.rows

CreateItem(r) ==
  LET q == req[r]
      wanted == IF q.op = "create_task" THEN q.arg ELSE {}
      n == 1 + Cardinality(wanted)
  IN
  /\ Committing(r, {"create_event", "create_task"}) /\ Room(n)
  /\ IF trip = "deleted"
     THEN UNCHANGED <<ids, items, work>>
     ELSE /\ items' = Insert(items, NewRow(
                        [type |-> IF q.op = "create_task" THEN "task" ELSE "event",
                         dated |-> q.op = "create_event", done |-> Nobody]))
          /\ work' = Insert(work, WorkFor(ids + 1, wanted, ids + 2))
          /\ ids' = ids + n
  /\ UNCHANGED <<lists, entries, pins, location>>

(***************************************************************************)
(* update_item with a new set of assignees.  The unit of work inserts the  *)
(* new rows before it deletes the loaded ones, so a person who is wanted   *)
(* and already there violates uq_item_assignee; rows somebody else has     *)
(* added since stay.                                                       *)
(***************************************************************************)
Assign(r) ==
  LET q == req[r]
      clash == q.arg \cap Assignees(q.row) # {} \/ (q.arg # {} /\ q.row \notin DOMAIN items)
  IN
  /\ Committing(r, {"assign"}) /\ Room(Cardinality(q.arg))
  /\ IF clash
     THEN UNCHANGED <<ids, work>>
     ELSE /\ work' = Insert(Without(work, q.rows), WorkFor(q.row, q.arg, ids + 1))
          /\ ids' = ids + Cardinality(q.arg)
  /\ UNCHANGED <<items, lists, entries, pins, location>>

\* update_item with a new starts_at, a null one included.
EditItem(r) ==
  LET q == req[r] IN
  /\ Committing(r, {"edit_item"})
  /\ items' = IF q.row \in DOMAIN items
              THEN [items EXCEPT ![q.row].dated = q.arg] ELSE items
  /\ UNCHANGED <<ids, work, lists, entries, pins, location>>

DeleteItem(r) ==
  /\ Committing(r, {"delete_item"})
  /\ items' = Without(items, {req[r].row})
  /\ work' = Without(work, WorkOn(req[r].row))
  /\ UNCHANGED <<ids, lists, entries, pins, location>>

\* Mutant of Tick: the flag is stored where the person belongs.
TickFlag(q, now) ==
  CASE q.op \in {"complete", "check"} /\ ~q.marked -> TRUE
    [] q.op \in {"reopen", "uncheck"} /\ q.marked  -> Nobody
    [] OTHER -> now

\* What set_completion and set_checked leave in a row loaded ticked or not: the
\* ORM writes the two columns only if their values differ from the loaded ones.
Tick(q, now) ==
  CASE q.op \in {"complete", "check"} /\ ~q.marked -> q.user
    [] q.op \in {"reopen", "uncheck"} /\ q.marked  -> Nobody
    [] OTHER -> now

SetCompletion(r) ==
  LET q == req[r] IN
  /\ Committing(r, {"complete", "reopen"})
  /\ items' = IF q.row \in DOMAIN items
              THEN [items EXCEPT ![q.row].done = Tick(q, @)] ELSE items
  /\ UNCHANGED <<ids, work, lists, entries, pins, location>>

CreateChecklist(r) ==
  /\ Committing(r, {"create_list"}) /\ Room(1)
  /\ IF trip = "deleted" THEN UNCHANGED <<ids, lists>>
     ELSE lists' = lists \cup {ids + 1} /\ ids' = ids + 1
  /\ UNCHANGED <<items, work, entries, pins, location>>

\* Mutant of DeleteChecklist: its entries stay.
DeleteChecklistLeavesEntries(r) ==
  /\ Committing(r, {"delete_list"})
  /\ lists' = lists \ {req[r].row}
  /\ UNCHANGED <<ids, items, work, entries, pins, location>>

\* The entries added since the list was loaded go by the foreign key's cascade.
DeleteChecklist(r) ==
  /\ Committing(r, {"delete_list"})
  /\ lists' = lists \ {req[r].row}
  /\ entries' = Without(entries, EntriesOf(req[r].row))
  /\ UNCHANGED <<ids, items, work, pins, location>>

AddEntry(r) ==
  LET l == req[r].row IN
  /\ Committing(r, {"add_entry"}) /\ Room(1)
  /\ IF l \notin lists THEN UNCHANGED <<ids, entries>>
     ELSE /\ entries' = Insert(entries, NewRow([list |-> l, got |-> Nobody]))
          /\ ids' = ids + 1
  /\ UNCHANGED <<items, work, lists, pins, location>>

DeleteEntry(r) ==
  /\ Committing(r, {"delete_entry"})
  /\ entries' = Without(entries, {req[r].row})
  /\ UNCHANGED <<ids, items, work, lists, pins, location>>

SetChecked(r) ==
  LET q == req[r] IN
  /\ Committing(r, {"check", "uncheck"})
  /\ entries' = IF q.row \in DOMAIN entries
                THEN [entries EXCEPT ![q.row].got = Tick(q, @)] ELSE entries
  /\ UNCHANGED <<ids, items, work, lists, pins, location>>

CreatePin(r) ==
  /\ Committing(r, {"create_pin"}) /\ Room(1)
  /\ IF trip = "deleted" THEN UNCHANGED <<ids, pins>>
     ELSE pins' = Insert(pins, NewRow(req[r].arg)) /\ ids' = ids + 1
  /\ UNCHANGED <<items, work, lists, entries, location>>

UpdatePin(r) ==
  LET q == req[r] IN
  /\ Committing(r, {"update_pin"})
  /\ pins' = IF q.row \in DOMAIN pins THEN [pins EXCEPT ![q.row] = q.arg] ELSE pins
  /\ UNCHANGED <<ids, items, work, lists, entries, location>>

DeletePin(r) ==
  /\ Committing(r, {"delete_pin"})
  /\ pins' = Without(pins, {req[r].row})
  /\ UNCHANGED <<ids, items, work, lists, entries, location>>

-----------------------------------------------------------------------------
(***************************************************************************)
(* Live locations.  The app publishes a fix now and then while it shares,  *)
(* and sends one DELETE, best effort, when it stops: each is on its way    *)
(* for a while and may be lost, and the DELETE may overtake a PUT.         *)
(***************************************************************************)
Send(r, op, u) == Arrive(r, u, op, Nobody, 0)

StartSharing(u) ==
  /\ onScreen[u] /\ sharing[u] = "off"
  /\ sharing' = [sharing EXCEPT ![u] = "asking"]
  /\ UNCHANGED <<load, people, tables, location, onScreen, req>>

\* The permission prompt is answered, whatever became of the map meanwhile.
Permission(u) ==
  /\ sharing[u] = "asking"
  /\ \E granted \in BOOLEAN :
       sharing' = [sharing EXCEPT ![u] = IF granted THEN "on" ELSE "off"]
  /\ UNCHANGED <<load, people, tables, location, onScreen, req>>

Publish(u) ==
  /\ sharing[u] = "on" /\ \E r \in Req : Send(r, "share", u)
  /\ UNCHANGED <<load, people, tables, location, app>>

\* stop: nothing happens when sharing has not started yet.
Stop(u) ==
  IF sharing[u] = "on"
  THEN /\ sharing' = [sharing EXCEPT ![u] = "off"]
       /\ UNCHANGED req \/ \E r \in Req : Send(r, "unshare", u)
  ELSE UNCHANGED <<sharing, req>>

SwitchOff(u) ==
  /\ onScreen[u] /\ sharing[u] = "on" /\ Stop(u)
  /\ UNCHANGED <<load, people, tables, location, onScreen>>

LeaveMap(u) ==
  /\ onScreen[u] /\ onScreen' = [onScreen EXCEPT ![u] = FALSE]
  /\ Stop(u)
  /\ UNCHANGED <<load, people, tables, location>>

OpenMap(u) ==
  /\ ~onScreen[u] /\ u \in load.phones
  /\ onScreen' = [onScreen EXCEPT ![u] = TRUE]
  /\ UNCHANGED <<load, people, tables, location, sharing, req>>

KillApp(u) ==
  /\ sharing' = [sharing EXCEPT ![u] = "off"]
  /\ onScreen' = [onScreen EXCEPT ![u] = FALSE]
  /\ UNCHANGED <<load, people, tables, location, req>>

\* Mutant of Deliver: whoever sends is let in.
DeliverUnasked(r) ==
  /\ At(r, Positions, "admit")
  /\ Continue(r, req[r])
  /\ UNCHANGED <<load, people, tables, location, app>>

\* Both endpoints ask for a membership only.
Deliver(r) ==
  /\ At(r, Positions, "admit")
  /\ Proceed(r, req[r].user \in members)
  /\ UNCHANGED <<load, people, tables, location, app>>

UpsertLocation(r) ==
  /\ Committing(r, {"share"})
  /\ location' = IF trip = "deleted" THEN location
                 ELSE Insert(location, [u \in {req[r].user} |-> Ttl])
  /\ UNCHANGED tables

ClearLocation(r) ==
  /\ Committing(r, {"unshare"})
  /\ location' = Without(location, {req[r].user})
  /\ UNCHANGED tables

\* A tick of the clock, the same for every row.
TimePasses ==
  /\ location' = [u \in DOMAIN location |-> IF location[u] = 0 THEN 0 ELSE location[u] - 1]
  /\ UNCHANGED <<load, people, tables, app, req>>

\* list_locations.
Visible(u) == u \in DOMAIN location /\ location[u] # 0

-----------------------------------------------------------------------------
(***************************************************************************)
(* What happens to the trip and its people, one commit each.               *)
(***************************************************************************)
TripEvent(op) == op \in load.ops /\ Quiet /\ trip # "deleted"
                 /\ UNCHANGED <<load, app, req>>

\* ON DELETE CASCADE.
DropTrip ==
  /\ trip' = "deleted" /\ members' = {}
  /\ items' = <<>> /\ work' = <<>> /\ lists' = {} /\ entries' = <<>> /\ pins' = <<>>
  /\ location' = <<>>
  /\ UNCHANGED ids

DeleteTrip == TripEvent("delete_trip") /\ DropTrip /\ UNCHANGED active

Archive ==
  /\ TripEvent("archive")
  /\ trip' = IF trip = "live" THEN "archived" ELSE "live"
  /\ UNCHANGED <<members, active, tables, location>>

Join(u) ==
  /\ TripEvent("join") /\ active[u] /\ u \notin members
  /\ members' = members \cup {u}
  /\ UNCHANGED <<trip, active, tables, location>>

\* Mutant of RemoveMember: the assignments stay.
RemoveMemberOnly(u) ==
  /\ members' = members \ {u}
  /\ location' = Without(location, {u})
  /\ UNCHANGED <<trip, tables>>

\* remove_member: the assignments and the position go with the membership.
RemoveMember(u) ==
  /\ members' = members \ {u}
  /\ work' = Without(work, WorkOf(u))
  /\ location' = Without(location, {u})
  /\ UNCHANGED <<trip, ids, items, lists, entries, pins>>

\* leave_trip and remove_by_owner: the last one takes the trip along, the owner
\* of others cannot go.
Depart(u) ==
  /\ TripEvent("depart") /\ u \in members
  /\ \/ members = {u} /\ DropTrip
     \/ u # Founder /\ RemoveMember(u)
  /\ UNCHANGED active

\* delete_account: memberships and positions go, assignments do not.
CloseAccount(u) ==
  /\ TripEvent("close_account") /\ active[u]
  /\ active' = [active EXCEPT ![u] = FALSE]
  /\ IF u = Founder
     THEN members = {u} /\ DropTrip
     ELSE /\ members' = members \ {u}
          /\ location' = Without(location, {u})
          /\ UNCHANGED <<trip, tables>>

-----------------------------------------------------------------------------
Init ==
  /\ load \in Loads
  /\ trip = "live" /\ members = Companion \cup {Founder}
  /\ active = [u \in User |-> TRUE]
  /\ ids = 0 /\ items = <<>> /\ work = <<>> /\ lists = {} /\ entries = <<>>
  /\ pins = <<>>
  /\ location = <<>>
  /\ sharing = [u \in User |-> "off"] /\ onScreen = [u \in User |-> FALSE]
  /\ req = [r \in Req |-> Idle]
  /\ departed = [r \in Req |-> {}] /\ late = {}

Commit(r) ==
  \/ CreateItem(r) \/ Assign(r) \/ EditItem(r) \/ DeleteItem(r) \/ SetCompletion(r)
  \/ CreateChecklist(r) \/ DeleteChecklist(r) \/ AddEntry(r) \/ DeleteEntry(r)
  \/ SetChecked(r) \/ CreatePin(r) \/ UpdatePin(r) \/ DeletePin(r)
  \/ UpsertLocation(r) \/ ClearLocation(r)

Advance(r) == \/ CheckWritable(r) \/ Find(r) \/ EnsureMembers(r) \/ Deliver(r)
              \/ Commit(r) \/ Abort(r)

Next ==
  \/ \E r \in Req : Authorize(r) \/ Advance(r)
  \/ \E u \in User :
       \/ StartSharing(u) \/ Permission(u) \/ Publish(u) \/ SwitchOff(u)
       \/ LeaveMap(u) \/ OpenMap(u) \/ KillApp(u)
       \/ Join(u) \/ Depart(u) \/ CloseAccount(u)
  \/ DeleteTrip \/ Archive \/ TimePasses

(***************************************************************************)
(* History variables.  A request reads who is a member in the round trip   *)
(* before its commit; whoever it names and leaves in between has departed  *)
(* for it, and is late if it commits.  Leaving starts afresh.              *)
(***************************************************************************)
Named(q) == CASE q.op \in {"create_task", "assign"} -> q.arg
              [] q.op = "share"                     -> {q.user}
              [] OTHER                              -> {}

Left == members \ members'

Track ==
  /\ departed' = [r \in Req |-> IF req'[r] = req[r]
                                 THEN (departed[r] \cup Left) \cap Named(req[r]) ELSE {}]
  /\ late' = (late \ Left) \cup UNION {departed[r] : r \in {s \in Req : Commit(s)}}

(***************************************************************************)
(* A position on its way arrives, is lost or times out; time passes.       *)
(* Nothing is assumed of the app, which may never send anything again.     *)
(***************************************************************************)
Settle(r) == Deliver(r) \/ UpsertLocation(r) \/ ClearLocation(r)

Fairness == WF_vars(TimePasses) /\ \A r \in Req : WF_vars(Settle(r))

Spec == Init /\ [][Next /\ Track]_<<vars, ghosts>> /\ Fairness

-----------------------------------------------------------------------------
\* Under every overlap: a line belongs to a list and an assignment to an item that
\* still exist, however late the request that adds it is, and a deleted trip
\* keeps nothing.  The parents were read before the commit (get_checklist,
\* get_item); what holds is left to the foreign keys and their cascades.
NothingOutlivesItsParent ==
  /\ \A k \in DOMAIN work : work[k].item \in DOMAIN items
  /\ \A e \in DOMAIN entries : entries[e].list \in lists
  /\ trip = "deleted" =>
       DOMAIN items \cup DOMAIN entries \cup DOMAIN pins \cup lists \cup DOMAIN location = {}

\* Whoever is assigned to a task is a member, or has closed the account, and only
\* members are on the map, after any sequence of assigning, sharing, departing and
\* coming back (remove_member).  The exception is a request that found the person a
\* member (_ensure_members, get_membership) and commits after they have left.
DeparturesLeaveNothingBehind ==
  /\ \A k \in DOMAIN work : work[k].user \in members \cup late \/ ~active[work[k].user]
  /\ DOMAIN location \subseteq members \cup late

\* Whoever left the trip or stopped sharing goes from everybody's map, also when a
\* position on its way arrives after the DELETE that was to end it, or the DELETE
\* never arrives; then the position is seen until its TTL has passed, with no newer
\* one to prolong it (LOCATION_TTL, get_membership).
NobodyStaysOnTheMap ==
  \A u \in User :
    (u \notin members \/ sharing[u] = "off")
      ~> (~Visible(u) \/ (u \in members /\ sharing[u] # "off"))

-----------------------------------------------------------------------------
\* update_item: the client sends the set it wants, and one request after the other
\* that set is what the task has afterwards.
WantedSetIsTaken ==
  [][\A r \in Req : OneAtATime /\ Assign(r) =>
        {work'[k].user : k \in {j \in DOMAIN work' : work'[j].item = req[r].row}}
          = req[r].arg]_vars

\* set_checked and set_completion: two people ticking do not rewrite who got it.
FirstTickStands ==
  [][/\ \A i \in DOMAIN items \cap DOMAIN items' :
          items[i].done # Nobody => items'[i].done \in {items[i].done, Nobody}
     /\ \A e \in DOMAIN entries \cap DOMAIN entries' :
          entries[e].got # Nobody => entries'[e].got \in {entries[e].got, Nobody}]_vars

\* The sharer publishes while the map is on screen.
SharedOnScreenOnly == \A u \in User : sharing[u] = "on" => onScreen[u]

\* ItemCreate: an event with no date could never appear on a calendar.
EventsAreDated == \A i \in DOMAIN items : items[i].type = "event" => items[i].dated
==============================================================================
