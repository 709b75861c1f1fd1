-------------------------------- MODULE Feed --------------------------------
(***************************************************************************)
(* The notification feed of one person, the reader: who gets a row when    *)
(* somebody does something in a trip (the routers, core/events.emit and    *)
(* notification_service.record), what becomes of the rows (read, removed,  *)
(* cleared, purged, gone with their trip), and the app's list of them      *)
(* (NotificationFeed, a PagedList).                                        *)
(*                                                                         *)
(* A request first commits what it is for and only then tells people, one  *)
(* await at a time: the payload reads the trip, the broadcast sends to     *)
(* every socket, the recipients are queried, the rows are inserted.  Rows  *)
(* carry the time their transaction began, whenever they become visible.   *)
(* Rows of other people are other feeds; rows of other trips are in this   *)
(* one.                                                                    *)
(***************************************************************************)
EXTENDS PagedList

CONSTANTS
  Req,         \* requests that announce something
  Scenes,      \* bound: what goes on in one behaviour.  A scene has the asks of the
               \* requests, the page requests under way at once, the last day, and
               \* which of "seat", "read" and "delete" the reader does.
  Id,          \* row ids, drawn at random and never twice
  Old,         \* ids of rows of another trip, written by one event on day 1
  KeepRead, KeepUnread,  \* _KEEP_READ and _KEEP_UNREAD, in days
  MaxDay,      \* bound: days
  MaxSent      \* bound: deletions on their way

Person == {"reader", "friend", "third"}

\* What requests announce: an expense of the reader's or of the friend's, an event,
\* somebody joining, the deletion of an amount, a repayment to somebody, a task for
\* its assignees.
Announcement ==
  [kind : {"own", "expense", "event", "join"}]
    \cup [kind : {"deletion"}, cents : Nat]
    \cup [kind : {"settlement"}, to : Person]
    \cup [kind : {"task"}, assignees : SUBSET Person]

ASSUME FeedAssumption ==
  /\ \A s \in Scenes : \A ask \in s.asks : ask \in Announcement
  /\ Id \subseteq Nat /\ Old \subseteq Id /\ IsFiniteSet(Old)
  /\ KeepRead \in Nat /\ KeepUnread \in Nat /\ MaxDay \in Nat /\ MaxSent \in Nat

VARIABLES
  scene,   \* the scene of this behaviour
  today,   \* the database clock
  alive,   \* the trip exists
  seat,    \* the reader in the trip: "in", "muted" or "out"
  req,     \* the announcing requests
  heard,   \* ghost: the reader was a listener all the time, and at some time, since
           \* the commit of the request and until it asked for the recipients
  used,    \* ids drawn so far
  sent     \* the app's deletions on their way: ids, or "all"

tripVars == <<alive, seat, req, heard>>
vars == <<rows, listVars, scene, today, tripVars, used, sent>>

\* The friend acts in every request but the reader's own.
Actor(q) == IF q.ask.kind = "own" THEN "reader" ELSE "friend"

Threshold == 2000  \* _DELETION_WORTH_TELLING_CENTS

Row(at, id, trip) == [at |-> at, id |-> id, trip |-> trip, read |-> FALSE]

-----------------------------------------------------------------------------
\* What a router hands to emit: whether it is worth a Notify, and whom its "only"
\* names, everybody where it names nobody.
Notify(worth, only) == [worth |-> worth, only |-> only]

ExpenseNotice         == Notify(TRUE, Person)
DeletionNotice(cents) == Notify(cents >= Threshold, Person)
SettlementNotice(to)  == Notify(TRUE, {to})
EventNotice           == Notify(TRUE, Person)
TaskNotice(assignees) == Notify(assignees # {}, assignees)
JoinNotice            == Notify(TRUE, Person)

Notice(ask) ==
  CASE ask.kind \in {"own", "expense"} -> ExpenseNotice
    [] ask.kind = "deletion"   -> DeletionNotice(ask.cents)
    [] ask.kind = "settlement" -> SettlementNotice(ask.to)
    [] ask.kind = "event"      -> EventNotice
    [] ask.kind = "task"       -> TaskNotice(ask.assignees)
    [] ask.kind = "join"       -> JoinNotice

\* Mutant of Recipients: the switch in trip settings is forgotten.
EverybodyInTheTrip(q) ==
  IF seat # "out" THEN (Notice(q.ask).only \ {Actor(q)}) \cap {"reader"} ELSE {}

\* recipients_for, as far as the reader is concerned: members, minus the actor,
\* minus the muted, narrowed to the named.
Recipients(q) ==
  IF seat = "in" THEN (Notice(q.ask).only \ {Actor(q)}) \cap {"reader"} ELSE {}

Listened(all, some) == [all |-> all, some |-> some]

\* The work is committed.  A deletion has its payload already.
Commit(r) ==
  /\ req[r].pc = "idle" /\ alive
  /\ Actor(req[r]) = "reader" => seat # "out"
  /\ req' = [req EXCEPT ![r].pc =
               IF req[r].ask.kind # "deletion" THEN "committed"
               ELSE IF Notice(req[r].ask).worth THEN "ready" ELSE "done"]
  /\ heard' = [heard EXCEPT ![r] = Listened(seat = "in", seat = "in")]
  /\ UNCHANGED <<rows, listVars, scene, today, alive, seat, used, sent>>

\* money_payload, _trip_name, _created_notice or the end of join_by_code: the trip is
\* read in a new transaction, whose time the rows will carry.
Payload(r) ==
  /\ req[r].pc = "committed"
  /\ \/ req' = [req EXCEPT ![r].pc = IF Notice(req[r].ask).worth THEN "ready" ELSE "done",
                           ![r].at = today]
     \/ ~alive /\ req' = [req EXCEPT ![r].pc = "failed"]
  /\ UNCHANGED <<rows, listVars, scene, today, alive, seat, heard, used, sent>>

\* After the broadcast.  A request without recipients is done.
AskRecipients(r) ==
  /\ req[r].pc = "ready"
  /\ req' = [req EXCEPT ![r].pc = IF Recipients(req[r]) = {} THEN "done" ELSE "addressed",
                        ![r].at = IF @ = 0 THEN today ELSE @]
  /\ UNCHANGED <<rows, listVars, scene, today, alive, seat, heard, used, sent>>

Record(r) ==
  /\ req[r].pc = "addressed" /\ alive
  /\ \E id \in Id \ used :
       /\ rows' = rows \cup {Row(req[r].at, id, "here")}
       /\ used' = used \cup {id}
  /\ req' = [req EXCEPT ![r].pc = "done"]
  /\ UNCHANGED <<listVars, scene, today, alive, seat, heard, sent>>

\* The second transaction fails (its trip is gone, or the database or the process
\* is): logged, and the request answers as if nothing were missing.
RecordFails(r) ==
  /\ req[r].pc \in {"committed", "ready", "addressed"}
  /\ req' = [req EXCEPT ![r].pc = "failed"]
  /\ UNCHANGED <<rows, listVars, scene, today, alive, seat, heard, used, sent>>

-----------------------------------------------------------------------------
\* The reader leaves or is removed, comes back (unmuted, on a new row), or throws
\* the switch in trip settings.
TakeSeat(s) ==
  /\ alive /\ "seat" \in scene.deeds
  /\ seat' = s
  /\ heard' = [r \in Req |->
       IF req[r].pc \in {"committed", "ready"}
       THEN Listened(heard[r].all /\ s = "in", heard[r].some \/ s = "in")
       ELSE heard[r]]
  /\ UNCHANGED <<rows, listVars, scene, today, alive, req, used, sent>>

Leave    == seat # "out" /\ TakeSeat("out")
Join     == seat = "out" /\ TakeSeat("in")
SetMuted == \/ seat = "in" /\ TakeSeat("muted")
            \/ seat = "muted" /\ TakeSeat("in")

\* Its notifications go with the trip.
DeleteTrip ==
  /\ alive /\ alive' = FALSE
  /\ rows' = {row \in rows : row.trip # "here"}
  /\ UNCHANGED <<listVars, scene, today, seat, req, heard, used, sent>>

-----------------------------------------------------------------------------
\* The rows afterwards: the service's UPDATE and DELETE, in the caller's rows only,
\* and the endpoints that use them.
SetRead(ids)    == rows' = {[row EXCEPT !.read = @ \/ row.id \in ids] : row \in rows}
RemoveRows(ids) == rows' = {row \in rows : row.id \notin ids}

MarkRead ==
  \E ids \in SUBSET {row.id : row \in rows} :
    /\ ids # {} /\ "read" \in scene.deeds
    /\ SetRead(ids)
    /\ UNCHANGED <<listVars, scene, today, tripVars, used, sent>>

\* The list without the rows of one id, the others in their order.
Without(list, id) ==
  LET kept[n \in 0..Len(list)] ==
        IF n = 0 THEN <<>>
        ELSE IF list[n] = id THEN kept[n - 1] ELSE Append(kept[n - 1], list[n])
  IN  kept[Len(list)]

\* The app drops the row from its list, then asks.
RemoveShown ==
  /\ "delete" \in scene.deeds /\ Cardinality(sent) < MaxSent
  /\ \E id \in ToSet(shown) :
    /\ shown' = Without(shown, id)
    /\ base' = base \ {id}
    /\ sent' = sent \cup {{id}}
    /\ UNCHANGED <<rows, cursor, fetches, clean, scene, today, tripVars, used>>

\* clearAll empties the list and leaves the cursor where it was.
ClearShown ==
  /\ "delete" \in scene.deeds /\ Cardinality(sent) < MaxSent
  /\ shown' = <<>> /\ base' = {}
  /\ sent' = sent \cup {Id}
  /\ UNCHANGED <<rows, cursor, fetches, clean, scene, today, tripVars, used>>

\* DELETE of one of the caller's rows, or of all of them.
Delete ==
  \E ids \in sent :
    /\ RemoveRows(ids)
    /\ sent' = sent \ {ids}
    /\ UNCHANGED <<listVars, scene, today, tripVars, used>>

DeleteIsLost ==
  \E ids \in sent :
    /\ sent' = sent \ {ids}
    /\ UNCHANGED <<rows, listVars, scene, today, tripVars, used>>

Expired(row) == row.at + (IF row.read THEN KeepRead ELSE KeepUnread) < today

\* One pass of the housekeeping loop, which may be switched off.  A pass that fails
\* changes nothing.
Purge ==
  /\ \E row \in rows : Expired(row)
  /\ rows' = {row \in rows : ~Expired(row)}
  /\ UNCHANGED <<listVars, scene, today, tripVars, used, sent>>

NextDay ==
  /\ today < scene.days /\ today' = today + 1
  /\ UNCHANGED <<rows, listVars, scene, tripVars, used, sent>>

-----------------------------------------------------------------------------
Init ==
  /\ ListInit
  /\ rows = {Row(1, id, "elsewhere") : id \in Old}
  /\ used = Old
  /\ today = 1 /\ alive = TRUE /\ sent = {}
  /\ scene \in Scenes
  /\ seat \in IF "seat" \in scene.deeds THEN {"in", "muted", "out"} ELSE {"in"}
  /\ req \in [Req -> {[pc |-> "idle", ask |-> ask, at |-> 0] : ask \in scene.asks}]
  /\ heard = [r \in Req |-> Listened(FALSE, FALSE)]

Announce(r) == Commit(r) \/ Payload(r) \/ AskRecipients(r) \/ Record(r) \/ RecordFails(r)
List        ==
  /\ ListNext /\ Cardinality(fetches') <= scene.fetches
  /\ UNCHANGED <<scene, today, tripVars, used, sent>>

Next ==
  \/ \E r \in Req : Announce(r)
  \/ Leave \/ Join \/ SetMuted \/ DeleteTrip
  \/ MarkRead \/ RemoveShown \/ ClearShown \/ Delete \/ DeleteIsLost
  \/ Purge \/ NextDay \/ List

Spec == Init /\ [][Next]_vars

-----------------------------------------------------------------------------
\* Whose business an action is, in the words of the comments beside it.
ConcernsReader(ask) ==
  \/ ask.kind \in {"expense", "event", "join"}
  \/ ask.kind = "deletion" /\ ask.cents >= 2000
  \/ ask.kind = "settlement" /\ ask.to = "reader"
  \/ ask.kind = "task" /\ "reader" \in ask.assignees

\* A request that ends without an error has told the reader if it concerned them and
\* they were a listening member from its commit on, and told them nothing if it did
\* not, or if there was no moment since the commit at which they listened: whatever
\* they and the trip did between the awaits, a mute or a departure that was over
\* before the commit is respected and nobody who stays is missed.
ToldIsRight ==
  [][\A r \in Req :
       req[r].pc \notin {"done", "failed"} /\ req'[r].pc = "done" =>
         LET told == used' # used
         IN /\ told => ConcernsReader(req[r].ask) /\ heard[r].some
            /\ ConcernsReader(req[r].ask) /\ heard[r].all => told]_vars
=============================================================================
