# ToDoTrip, specified

ToDoTrip is a group-trip planner: a FastAPI + PostgreSQL backend (`src/backend/app`)
and a Flutter app (`src/mobile/lib`). This directory holds TLA+ specifications
of its core, the TLC configurations that check them, and theorems about them
checked by TLAPS. Every definition is translated from the source; `map` in
`PROJECT.json` names the lines.

Paths below are relative to `src/backend/app/` unless they start with `src/`.

## The system

One API process (uvicorn, one event loop) in front of one PostgreSQL database at
its default isolation level, READ COMMITTED. A request is a coroutine with a
database session of its own; it suspends at every query, so any two requests
interleave query by query, and what a transaction wrote is seen by others at its
commit. Nothing takes row locks explicitly: the only locks are those of
UPDATE/DELETE until the commit. Retries are the clients' (the app retries over
mobile networks), so the same request may be served twice at once.

| Component | State | Operations | Interacts with |
|---|---|---|---|
| Trip membership (`services/member_service.py`) | `trip_members` (role, one row per person), `trip_past_members` | leave, remove by owner, transfer ownership | balances gate departures; kicks go to realtime |
| Trip lifecycle (`services/trip_service.py`) | `trips` (archived_at) | create, edit, archive, revive, delete | cascades to everything |
| Invites (`services/invite_service.py`) | `invites` (max_uses, uses_count, expiry, revocation) | mint, revoke, join by code | inserts members, drops former ones |
| Money (`services/expense_service.py`, `services/balance.py`) | `expenses`, `expense_shares`, `settlements` | create and delete of both, balance report, trips-list balance, suggested repayments | reads members; read by departures |
| Authorization (`dependencies.py`) | none | signed in, member, owner, writable | in front of every endpoint |
| Accounts and sessions (`services/auth_service.py`) | `users`, `refresh_tokens` | register, sign in, rotate, log out, change password, close account | closing an account writes memberships and trips |
| Realtime (`core/events.py`, `routers/events.py`) | sockets per trip, in memory | connect, broadcast, kick, watchdog | told after commits |
| Notifications (`services/notification_service.py`, the `emit` of the routers) | feed rows with their read marks | record, list, mark read, remove, clear, purge | recipients from memberships after the commit; purged by `core/housekeeping.py` |
| Rate limiting (`core/rate_limit.py`) | admission times per key, in memory | check, prune | in front of the auth endpoints and of everything that writes |
| Pagination (`core/pagination.py`) | none | keyset pages | feeds the app's lists |
| Plan and lists (`services/item_service.py`, `services/checklist_service.py`) | items, their assignees, checklists and their entries | create, edit, assign, tick, delete | assignments dropped with a membership |
| Map (`services/map_service.py`) | pins, one live position per member, with a time to live | pin, share, stop sharing | positions dropped with a membership; the app's location sharing |
| CSV export (`services/export_service.py`) | none | columns from members and former members | |
| App: realtime channel, token refresh, lists, location sharing (`src/mobile/lib`) | in memory, secure storage | reconnect, refresh once for many requests, page and refresh, start and stop sharing | the HTTP API and the socket |

What makes it hard: a check and the write it guards are different statements
(dependencies read membership, role and archive before the service runs, and the
service reads again before it commits); some decisions rest on two queries; account
closure, password change and rotation take two commits each; the socket layer
and the notification feed act after the commit on what they find then.

What makes each part correct:

* membership: one owner at most; the role moves by being handed over;
* money: no cent is lost in a split, balances cancel out, the two computations of
  a balance agree, nobody in the ledger is forgotten, the suggested repayments clear
  everything;
* invites: every use is counted;
* what a request checks before it writes holds of its commit unless other requests have
  overtaken it: a trip keeps its owner, nobody is member and former member at
  once, a code lets in no more than it may, people leave settled, entries name members,
  an archive is frozen, a trip goes only with its last member or by its owner's hand;
* sessions: a rotated token stays spent, a password change ends what was open before it,
  a closed account rotates nothing;
* realtime: whoever loses the right to listen is eventually hung up on, a finished
  kick is final for the sockets it found, the news reaches everybody who stays;
* notifications: whoever listened all along is told what concerns them and nobody
  else is;
* lists in pages: no row twice, none skipped, though rows come and go meanwhile;
* plan, lists and map: no row outlives what it belongs to, a departure takes the
  assignments and the position along, nobody who stopped sharing stays visible
  beyond the time to live of a position;
* rate limits: every decision is the one of a limiter that forgets nothing;
* app: many requests refused at once share one refresh and none of them is left waiting;
  lost answers and logouts do not make the app present a rotated token again.

The hazards behind these are listed at their lines in `PROJECT.json`.

## Modules

| Module | Models | Uses |
|---|---|---|
| `Balance` | `split_evenly`, `compute_balances`, the balance report, the trips-list balance, as operators | |
| `TripStore` | the rows of one trip and what each transaction's commit does to them | `Balance` |
| `TripRequests` | the requests as sequences of reads and one commit, interleaved | `TripStore` |
| `TripOwnership` | abstract: how the owner role may move | |
| `TripProperties` | the properties of a trip, the refinement mapping to `TripOwnership` | `TripRequests`, `TripOwnership` |
| `TripOverlaps` | what the checks of a handler still promise when requests overlap, and the history variable that says which commits were overtaken | `TripProperties` |
| `FiniteData` | facts about finite sets: induction, sorting, what `FiniteSetsExt`'s fold sums up to | |
| `TripProofs` | the theorems about a trip: types, ownership, the people its ledger names, what the tables add up to, what overlapping requests keep | `TripOverlaps`, `FiniteData` |
| `MCTrip`, `MCTripOverlaps` | payloads and symmetry for TLC | `TripProperties`, `TripOverlaps` |
| `Sessions` | the refresh tokens of one account | |
| `AppSession` | the app's `AuthInterceptor`, sign-in, logout, start-up and token storage, in front of the sessions | `Sessions` |
| `AppSessionProofs` | the theorems about both | `AppSession` |
| `Realtime`, `MCRealtime` | the sockets of one trip, their handlers, broadcast, kick and hang-up | |
| `RealtimeProofs` | the theorems about them | `Realtime` |
| `DebtSettlement` | abstract: a list of repayments that settles a group | |
| `SimplifyDebts`, `MCSimplifyDebts` | `simplify_debts`, one action per turn of its loop | `DebtSettlement` |
| `SimplifyProofs` | the theorems about it | `SimplifyDebts`, `FiniteData` |
| `TripContent`, `MCTripContent` | the plan, the checklists, the pins and the live positions of one trip, with the app's `LocationSharer` | |
| `TripContentProofs` | the theorems about it | `TripContent` |
| `PagedList` | keyset pages and the app's list put together from them | |
| `Feed`, `MCFeed` | one person's notifications: announced, recorded, read, removed, purged, listed | `PagedList` |
| `FeedProofs` | the theorems about who is told and about the walk through the list | `Feed`, `FiniteData` |
| `SlidingWindow` | abstract: at most so many admissions in any window | |
| `RateLimit`, `MCRateLimit` | the limiters in front of the endpoints, their keys and their pruning | `SlidingWindow` |
| `RateLimitProofs` | the theorems about them | `RateLimit` |

### How a request is modelled

`req[r]` is one request in flight: its endpoint (`op`), its payload (`arg`), the
step it is at (`pc`) and what it has read and still holds in Python objects
(`role`, `row`, `target`, `uses`, `read`, `solo`). `Authorize` and `SignIn` are
arrivals: the dependencies' reads and the verdict on them are one step, because a
refused caller leaves no trace. Then each action is one of the handler's
database round trips, named after the function it belongs to; a handler that
raises frees the slot (`Proceed`, `Answer`). Endpoints:

| Endpoint | Actions, in order |
|---|---|
| create expense | `Authorize`, `CheckWritable`, `CheckInsiders`, `CreateExpense` |
| delete expense | `Authorize`, `CheckWritable`, `GetExpense`, `DeleteExpense` |
| create settlement | `Authorize`, `CheckWritable`, `CheckParties`, `CreateSettlement` |
| delete settlement | `Authorize`, `CheckWritable`, `GetSettlement`, `DeleteSettlement` |
| leave | `Authorize`, `CountMembers`, then `DeleteTrip`, or `ReadExpenses`, `EnsureSettled`, `RemoveMember` |
| remove member | `Authorize`, `FindTarget`, `ReadExpenses`, `EnsureSettled`, `RemoveMember` |
| transfer | `Authorize`, `FindTarget`, `CompareAndSwap`, `TransferOwnership` |
| archive, revive, delete trip | `Authorize`, `ReadTrip`, `UpdateTrip` or `DeleteTrip` |
| mint, revoke invite | `Authorize`, `DrawCode`, `CreateInvite`; `FindInvite`, `RevokeInvite` |
| join by code | `SignIn`, `ReadInvite`, `CheckUses`, `JoinByCode` |
| close account | `SignIn`, `OwnedWithOthers`, `OwnedTrips`, `DeleteAccount` |

`Abort` is a dropped connection, a restart or a deadlock victim at any point
before the commit; the session rolls back.

Abstractions, and why they lose nothing the properties see:

* A transaction's writes appear in one step, its commit (READ COMMITTED). The
  row lock an UPDATE holds until then matters in one place, between the two
  UPDATEs of `transfer_ownership`, and is modelled there (`Locked`). The partial
  unique index `uq_trip_single_owner` is left out on purpose: the theorem is that
  nothing depends on it. Foreign keys and the unique membership row are modelled
  as the failed inserts they cause.
* `row[u]` numbers the membership rows of a person: somebody who leaves and comes
  back has a new id, which is what an UPDATE by id notices.
* Expenses and their shares are fetched by two SELECTs (`selectinload`) and read
  here in one step, since a share row is never written after its expense's commit.
* `max_uses` NULL is a limit no run reaches. Names, dates, descriptions, currency,
  read-only listings, the mute flag and the events published after the commits
  are left out.
* One trip: no operation on a trip reads another, except account closure, whose
  part in this trip is modelled.

### TripOverlaps

Nearly every promise of a trip is kept by checking first and writing some statements
later, with no lock in between, so none of them holds of every behaviour. `TripOverlaps`
says what does hold. `behind[r]` is a history variable: the tables that other requests
have committed to since request `r` was let in, as far as its endpoint looks at them
before it writes (`ReliesOn`: the archive flag, the memberships, the accounts, the ledger,
the uses of a code). `TrackedSpec` is the specification with it; it restricts nothing. A
step is `Overtaken("members")` if it answers a request that is behind on the memberships.
Each of the seven properties says that a commit keeps the promise or was overtaken in the
one table the promise is about. So it speaks of any number of requests in flight, also of
those that meet but do not touch each other's tables, and it names the overlap that breaks
the promise instead of excluding it; with a single slot nothing is ever overtaken, and it
says what the documentation says. A handler that forgot its check, checked the wrong
thing, or wrote on what another table said, breaks it.

### Sessions

`tokens` are the rows of one account's `refresh_tokens` in order of commit;
`password` and `active` are the account's columns. `Login`, `FindToken`,
`FindSession`, `ChangePassword`, `DeleteAccount` are the endpoints' first reads;
`LoadUser`, `Revoke`, `WritePassword`, `CloseAccount`, `RevokeAll`,
`IssueRefreshToken` their later round trips, every write a commit of its own; `Abort`
is a crash between any two of them and `Expire` the passing of `expires_at`.
`parent` of a token and `ended` are ghosts: which token a rotation consumed, and
how far back the last completed sweep reached (`mark` is taken at the first
commit).

### AppSession

`call` are API requests in the app, each at a point of `AuthInterceptor`: sent, refused
and sharing the refresh (`"await"`, the future `_refreshing`) or running it (`"read"`,
`"post"`, `"wait"`, `"save"`, `"save2"`), sent again, or ended with `forceLogout`. Every
await of `_refresh`, `AuthRepository` and `AuthNotifier` is a point where the others go
on: `ReadRefresh`, `PostRefresh`, `TakeAnswer`, then `SaveAccess` and `SaveRefresh`,
because `TokenStorage` writes its two entries one after the other. `store` are
these two entries; access token `n` is the one that came with refresh token `n`.
`ui` is what the person does: `SignIn`, `AskNewPassword`, `AskClosure`, `ReadForLogout` and
`PostLogout`, `PersonAnswered` and the two saves; `Build` is the start-up with its
request for the profile, `Restart` a kill at any moment. `line` is the connection of
whoever waits for a session endpoint: `Hear` is the answer, `GiveUp` a
timeout the server knows nothing of.

The requests themselves take the steps of `Sessions` (`Serve`, in the slots `AppReq`), so
that what is said about all tokens holds with this client too. `clients` chooses once,
at the start, between two scenes: `"anybody"` is `Sessions` as it was, clients who send
any token they ever had in as many overlapping requests as there are slots;
`"app"` is this app alone on its account.

`_refresh` catches `DioException` only. Whatever else goes wrong in it (an answer whose
fields do not cast, a platform storage that fails to read, write or delete) leaves the
tokens as they are: `finally` frees the future, which completes with the exception for
everybody who shares it (`Throw`), and the requests fail (`"thrown"`; an `onError` that
throws need not end its request at all, and `Thrown` may then never be taken). The same
goes for the storage in `forceLogout`, in the person's sign-in, logout and closure
(`PersonAnswered`, `PersonSavesAccess`, `PersonSavesRefresh`).

`torn` is a ghost: the tokens that stayed in storage although a refresh had posted
them, because it broke off with such an exception (`Tear`) or because the app was killed
meanwhile (`Restart`). The app does present those again. `HonestAppNeverReplays` says
that they are the only ones: every other failure, timeouts and lost answers
included, gives the token up. It speaks of tokens that were rotated. A token that a password
change swept, whose answer was lost, was not; the app still has it, presents it, and
is refused (`services/auth_service.py:104`), and nothing is claimed of that.

Abstractions: an API request other than to the session endpoints is one step of the
server, which looks only at the access token (`Valid`); a token past its 15 minutes
and a mistyped current password are the same 401, which is always possible. The
profile request after a sign-in is its outcome, `"in"` or the screen as it was.
Registration is a sign-in.

### Realtime

`registered` is `_ConnectionManager._sockets` for one trip, `phase[s]` where the
handler `trip_events` of a connection is, `line[s]` the connection itself (open, left
by the client, closed by the server). The handler's actions in order: `Connect`,
`Authenticate`, `FindMembership`, `Register`, `Acknowledge`; then the watchdog's
`RecheckUser` and `RecheckMember`, ended by `Reject`, `WatchdogFails` or `ReaderEnds`
and completed by `Unregister`. The token check and the read of the account that
follows it are one step: the token is not looked at again before the next round, so
an expiry between the two is the same as one after. `seat[u]` numbers a person's
membership rows as `row` does in `TripStore`.

`call[c]` is a request that announces something: `Admit` (the dependencies and the
first reads), one of the `Commit` actions, `Announce` (the snapshot), one `Send` per
socket, for a departure or a deletion one `HangUp` per socket, `Answer`. Each loop
runs on to its next await, so the second snapshot is taken in the step of the last
send. `CommitChange` stands for every mutation that only announces; which rows it
writes belongs to `TripRequests`. The manager's lock is never held across an await,
so its methods are single steps. `owed`, `told` and `doomed` are ghosts. The
feed rows `emit` writes after the broadcast are the subject of `Feed`.

### SimplifyDebts

`Pair` is one turn of the `while` loop, `balances` any argument in `Ledgers`.
`Open` is what remains of the balances once the suggestions made so far are
followed; under it the loop implements `DebtSettlement`, in which any debtor may
settle with any creditor as long as one of the two is done afterwards.

### TripContent

A request is again a sequence of round trips: `req[r].todo` is what is left of the
`Steps` of its endpoint, `"admit"` (the dependencies), `"find"` (the row in the path),
`"members"` (`_ensure_members`) and `"commit"`; each commit is one action
named after the service function. What a request found may be gone by its commit, so a
commit does what PostgreSQL and the ORM make of that: an INSERT whose parent is gone
fails on its foreign key, an UPDATE by id of a row that is gone raises
`StaleDataError`, a DELETE of one only warns. `rows` and `marked` are what the ORM
holds from the find: it deletes the assignee rows it loaded and writes a column only if
its value differs from the loaded one. Joining, leaving, closing an account, archiving
and deleting the trip are one step each here, what their commit does to these tables
(`RemoveMember` is `member_service.remove_member`).

A live position travels: `Publish` and `Stop` put a PUT or a DELETE under way,
`Deliver` lets it pass the membership check, `UpsertLocation` and `ClearLocation`
commit it, `Abort` loses it. Nothing orders two of them. `location` is the table of
positions, by person, with what is left of each row's `LOCATION_TTL` in ticks of a clock
that is the same for all (`TimePasses`); a newer fix starts the time anew, and a row
whose time has passed stays but is not listed (`Visible`). `sharing` and `onScreen` are the
app: sharing starts behind a permission prompt and stops with a best-effort DELETE.

A request that names people (`Named`: the assignees, or whoever shares a position) finds
out that they are members one round trip before its commit. Two history variables follow
what happens in between: `departed[r]`, who of them has left since, and `late`, about whom
a commit has then written rows all the same, until they leave again.
`DeparturesLeaveNothingBehind` exempts these and nobody else, whatever overlaps.
`NobodyStaysOnTheMap` says what becomes of a late position, or of one that a DELETE
overtook or never came for: it is seen until its time has passed. The comment in the app
that nobody keeps seeing a last known place after the switch is off
(`src/mobile/lib/features/trips/data/location_sharing.dart:82`) holds only from then on.
The proof obligation is on the endpoints, not on the clock: if positions were let in
without asking for a membership, fixes of somebody who was removed and still has the map
open would start the time anew for ever.

`Loads` says which endpoints are called in one behaviour, how many overlap and how many
rows are inserted. A bound, not a part of the system: TLC checks the sum of the loads
instead of their product.

### Feed and PagedList

`Feed` is the feed of one person, the reader. A request that announces something takes
the steps of its router and of `emit`: `Commit`, `Payload` (the trip is read in a new
transaction, whose time the rows carry), `AskRecipients` (after the broadcast),
`Record`, or `RecordFails`, which is only logged. `Notice` is what each router hands to
`emit`: whether it is worth a notification, and whom it names. The reader comes, goes and
mutes between any two of these steps. `heard` is a ghost: whether the reader was a
listener all the time, or at some time, from the commit to the recipients query. What
the other requests of the trip do is left to `Realtime` and `TripRequests`.

`PagedList` is the query with its cursor and the app's list: `Refresh` and `LoadMore`
ask, `AnswerPage` reads the table, `ApplyPage` extends the list, `LosePage` loses the
answer. What a build that was overtaken by a refresh still does depends on the version
of the provider library; `ApplyOvertaken` leaves it open. `ExpenseList` of the app is
the same code over another query with the same order; it has no run of its own.

### RateLimit

`hits` are the deques of all limiters by key, `Check` is `RateLimiter.check` for the first
limiter left in the request's `Chain` (the router's dependencies before the
endpoint's). Entries age only when their key is asked for again, idle keys go when there
are too many. `log` and `verdict` are ghosts: every admission there ever was, and the
last decision. Through them the limiter is shown to implement `SlidingWindow`, which
remembers everything. Time is counted in whole units, and there is one process;
a restart forgives everything and is not modelled.

## Runs

Every cfg sets `CHECK_DEADLOCK FALSE` because the systems stop: a trip is
deleted and its accounts closed, bounds on rows are reached, the loop ends.

| Run | Instance | Shows |
|---|---|---|
| `trip_serial` | 3 accounts, every endpoint, one request at a time, 2 ledger entries with uneven splits, a payer outside the split and explicit shares with a zero | the arithmetic: `EveryCentIsSomebodys`, `SummaryAgreesWithReport` |
| `trip_ownership` | 3 accounts, 2 overlapping requests, everything that writes `trip_members` | `AtMostOneOwner`, `TransferHoldsTheRole`, `DeletedIsEmpty`, the refinement `OwnershipIsHandedOver`; and but for overtaken requests `OwnerIsKept`, `SeatsMatchRecords`, `LimitIsKept`, `TripsGoWithTheirPeople` |
| `trip_ledger` | 3 accounts, 2 overlapping requests, joins, departures, closures, archiving and new entries | `EveryUseIsCounted`, `NobodyIsForgotten`, `LedgerOutlivesMembers`; and but for overtaken requests `DepartureIsSettled`, `EntriesAmongMembers`, `ArchivedIsReadOnly` |
| `sessions` | clients with any token, 2 overlapping requests, 4 tokens, 2 passwords; or the app alone with 2 calls at once, one session request at a time and 2 tokens, killed at any moment, its storage failing at any moment | `PredecessorIsSpent`, `SweepMissesNothing`, `ClosedAccountsRotateNothing`; `HonestAppNeverReplays`, `SharedRefreshIsRun` |
| `realtime` | 2 accounts, 2 connections, 1 request of any kind | `AnnouncedToAll`, `HungUpForGood`, `LeftBehindIsDead` |
| `realtime_liveness` | 2 accounts, 1 connection, 1 request, fair event loop | `RevokedIsHungUp`, `EveryCallIsAnswered` |
| `simplify` | all 1451 zero-sum ledgers of 5 people within 3 cents | `FewTransfers`, `SettlesDebts`, `EverybodyEndsSquare` |
| `trip_ownerless` | transfer and leave overlap | a trip without an owner (finding) |
| `content` | 2 accounts, 2 overlapping requests, seven loads (see Bounds) | `NothingOutlivesItsParent`, `DeparturesLeaveNothingBehind`, `NobodyStaysOnTheMap` |
| `content_reassign` | one request at a time on the tasks | a PATCH of the assignees that keeps somebody is refused by the database (finding) |
| `feed` | one announcing request of every kind, 3 row ids, two of them with the same time, 2 pages under way | `WalkIsFaithful`, `ToldIsRight` |
| `limiter` | 2 limiters in a row, 2 accounts behind one address, one key more than is kept | `ImplementsWindow` |

The properties of a trip are in two classes because the code is. Some hold whatever
overlaps. Others hold of a commit unless it was overtaken (`TripOverlaps`), because the
check and the write are separate statements; the finding `trip_ownerless` records an
overlap that breaks what the documentation says outright. These are the overlaps the
exception `Overtaken` stands for, all of them in the runs:

* an expense committed between `_ensure_settled` and the departure makes a former
  member with a balance (`DepartureIsSettled`); a departure between the members
  check and the insert puts an outsider in an expense (`EntriesAmongMembers`);
* a leave sent twice, whose second half counts the members when only one other is
  left, deletes the trip under that one (`TripsGoWithTheirPeople`,
  `services/member_service.py:112`);
* a transfer to, or a join of, somebody else between the two queries of `delete_account`
  gets the trip deleted under the others (`TripsGoWithTheirPeople`);
* a transfer that overlaps its target's departure, or a departure the transfer to
  whoever leaves, makes a trip without an owner (`OwnerIsKept`, run `trip_ownerless`);
* a doubled leave whose second half commits after a rejoin lists a member as a
  former one too, and a join authenticated before its account is closed leaves the
  closed account a seat (`SeatsMatchRecords`);
* a write that passed `get_writable_membership` commits into the trip archived
  meanwhile (`ArchivedIsReadOnly`);
* two joins that both read the last free use of a code both succeed
  (`LimitIsKept`).

Further behaviours found on the way, not kept as runs:

* an account with shares that is closed loses its column in the export, which takes
  its columns from members and former members (`EveryShareHasAColumn`,
  `services/export_service.py:45`; no overlap needed);
* without any overlap: deleting an expense reopens the balance of somebody who had
  settled and left;
* two rotations of one refresh token that both read it unrevoked both issue a
  successor (`SingleUse` in `Sessions`);
* a rotation between its two commits survives a password change
  (`PasswordChangeEndsSessions` in `Sessions`, `services/auth_service.py:116`);
* a logout waits for nobody: a refresh under way when the person logs out saves its pair
  afterwards, so the next start finds tokens (`LogoutIsFinal` in `AppSession`,
  `src/mobile/lib/features/auth/data/auth_repository.dart:122`);
* an app killed between the rotation and the save, or whose refresh breaks off there with
  an exception that is not Dio's (`src/mobile/lib/core/network/auth_interceptor.dart:96`),
  presents the old token again and is signed out (`torn` in `HonestAppNeverReplays`);
* a client that is gone when its connection is acknowledged stays registered, because
  the acknowledgement is sent before the handler's `try`, until the next bell fails on
  it (`GoneIsForgotten` in `Realtime`, under `FairSpec`).

All of them are there in the models: adding the property named to a run that calls the
endpoints reproduces each.

And what the models of the rest contain without a run that insists on it:

* two people ticking one entry, both having loaded it unticked, leave the second one's
  name (`FirstTickStands` in `TripContent`, `services/checklist_service.py:81`,
  `services/item_service.py:120`);
* a permission prompt answered after the map was left starts sharing off screen
  (`SharedOnScreenOnly`), and a PUT past its membership check puts somebody who has
  left on the map for up to the time to live (`late`);
* a PATCH with `starts_at: null` makes an event without a date (`EventsAreDated`), and
  a PATCH can assign an event, which creation cannot;
* an edit of the assignees past its members check, overlapped by a departure, assigns
  somebody who is gone (`late`), and a closed account stays assigned without any overlap;
* somebody who joins between the commit and the recipients query is told of what was
  done before they came, and somebody who leaves between that query and the insert is
  told all the same; `ToldIsRight` leaves both open;
* tapping an invite link twice announces the joining twice (`Feed` takes each for a
  request of its own);
* rows carry the time their transaction began, so a row can appear below one already
  shown (`base` in `WalkIsFaithful` counts from the first page);
* removing everything leaves the app's cursor where it was, and a refresh that overlaps a
  page may repeat or skip rows until the next one;
* rows of the feed past their keep go with the next pass of `core/housekeeping.py`, and stay
  if `notification_purge_hours` is 0 (`main.py:42`); the docstring of `purge`
  (`services/notification_service.py:205`) still says that it is called at startup
  rather than from a scheduler;
* a limiter's refusal leaves what earlier limiters of the chain counted, and the key
  map of a limiter grows past its limit while every key is live.

### Bounds

* Three accounts: owner, heir or companion, newcomer. Every precondition in the
  code is about the caller, one other person and whether there is a third.
* Two requests in flight: every hazard listed for the trip is a pair of requests;
  the ownership invariants are proved for any number. Slots are interchangeable,
  so `SYMMETRY Slots` is sound for the invariants and safety properties checked.
* `MaxRows` (rows inserted per person) is 2 so that somebody can leave and come
  back with another id; `MaxEntries` is 1 to 3 so that an entry can be cancelled by
  another and a third still differs; `MaxUses` is at most 2.
* `MaxTokens` 4 and `MaxPasswords` 2: two rotations around a sweep, with the token
  the sweep's own request issues.
* The app in `sessions`: two calls, one that refreshes and one that shares it (a third
  would share it too); one session request at a time on the server and two tokens, so
  one rotation, or sign-in after a sign-out, with all its losses. Overlaps of the app's
  own session requests (a password change during a refresh) and longer chains
  are covered by the theorems, which hold for any number of calls, slots and
  tokens.
* Two connections and one request for the realtime channel: a broadcast with one
  socket that dies and one that does not, a kick with one socket it is aimed at and
  one it is not; any interplay of more requests is covered by the theorems, which
  hold for any number. Liveness speaks of one connection at a time and is checked
  with one; connections are interchangeable in the safety run only.
* `content`: seven loads. `Alone` lets one request at a time assign, depart, close and
  come back, with four rows (a task with two people on it and one more row). `Tasks`,
  `Guest`, `Plan`, `Lists`, `Pins` and `Map` overlap two requests of one kind with
  departures (in `Guest` and `Map` also closures and returns), archiving or deletion. A
  request meets others only through the rows they have committed, and the hazards listed
  are all pairs, or a pair with a departure, which is one step here. The kinds write
  different tables; what writes all of them (`delete_trip`, `depart`) is in every load it
  matters to. In `Map` the owner's companion has the map open, who can be removed, leave
  and come back; the positions of two people do not meet. A `Ttl` of two ticks: with a
  single tick a row that is refreshed between any two of them would vanish for an instant
  each time, and nobody could be seen to stay.
* `feed`: three scenes. `Telling`, every kind of announcement, with amounts one cent on
  either side of the threshold, while the reader takes, leaves and mutes the seat;
  `Scrolling`, two pages under way, a page of one row, at most three rows shown, one
  deletion on its way; `Ageing`, keeps of one and two days and a clock of four, with two
  pages under way while rows are read and purged. Ids {1, 2, 3} of which 1 and 3 are
  written at once by another trip: a tie at a page boundary with a row that arrives
  between.
* `limiter`: limits of 2 in 2 units and 1 in 3 units, one key kept, two keys used, a
  clock of 4: a window passes, a key goes idle and comes back.
* Five people: the smallest group in which a debtor is split over creditors while
  a creditor is split over debtors and both sorted lists have a tie.

### Fairness

The trip, session and app models have none: clients need not send anything, a
connection may drop at any step, and the properties are safety properties.
`SimplifyDebts` has `WF_vars(Next)`, a loop in one function without an await.

`Realtime` has weak fairness on each handler, on each reader and on each request: the
event loop resumes every coroutine whose await is over, and the awaits end, because the
handshake has a timeout of its own (10 s), the watchdog sleeps a fixed time (60 s), and
a send to a peer that no longer answers is ended by the server's ping timeout. Nothing
is assumed of clients (connecting, leaving), of clocks (tokens expiring), of people
(closing accounts, making requests) or of database faults.

`TripContent` has weak fairness on positions under way (`Settle`: they arrive, or are
lost or time out) and on the clock (`TimePasses`), which is one action for all rows and
does not wait for a row to be left alone. Nothing is assumed of the app, which may be killed or
go on sending fixes, nor of its DELETE, which may be lost.

`Feed` and `RateLimit` have none and need none.

## Proofs

TLAPS proves what follows for any set of accounts, codes, payloads, tokens, connections
and requests in flight. The assumptions on the constants are named where they are
declared, and every run evaluates them: the initial people are accounts, payloads satisfy the
schema's validator, announcements are of the kinds the routers make, the endpoints are the
ones modelled, bounds are numbers, the person using the app is not a call, somebody has an
account, limits and windows are not zero; and the tables `users` and `invites`
(`FiniteAssumption`), the people of a ledger (`LedgerAssumption`) and the rows a feed
starts with (`FeedAssumption`) are finite, without which there would be nothing to add
up or to sort.

| Theorems | Module | Invariant they rest on |
|---|---|---|
| `TypeCorrect` | `TripProofs` | `TypeOK` |
| `OneOwnerAtMost`, `TransferIsExclusive`, `DeletedTripsAreEmpty`, the refinement `RoleIsHandedOver` | `TripProofs` | `OwnerInv` |
| `LedgerForgetsNobody`, `LedgerIsNotTheirs` | `TripProofs` | `LedgerInv` |
| `EveryJoinIsCounted` | `TripProofs` | `EveryUseIsCounted` with `TypeOK` |
| `EveryCentIsAccountedFor` | `TripProofs` | `MoneyInv` |
| `ListAndReportAgree` | `TripProofs` | `MoneyInv`, `PartiesInv` |
| `OwnerIsNeverLost`, `SeatsAndRecordsMatch`, `CodesAreLimited`, `NobodyLeavesInDebt`, `EntriesNameMembers`, `ArchiveIsFrozen`, `TripsEndWithTheirPeople`, of `TrackedSpec` | `TripProofs` | `TrackInv` |
| `SuggestionsAreFew`, `NothingIsLeftOpen`, the steps of the refinement `EveryTurnSettles` | `SimplifyProofs` | `PairingInv` |
| `TypeCorrect`, `ForeignKeysHold`, `NobodyLeavesAnythingBehind` | `TripContentProofs` | `TypeOK`, `ParentsInv`, `DeparturesInv` |
| `TheReaderIsToldRight` | `FeedProofs` | `TellingInv` |
| `TheWalkIsFaithful` | `FeedProofs` | `WalkInv` |
| `SessionsAreTyped`, `RotationIsFinal`, `SweepIsFinal`, `ClosedStaysClosed`, of `Sessions` | `AppSessionProofs` | `SessionInv` |
| the implementation `AppImplementsSessions`: `AppSpec => Spec`, so that these hold with the app as the client | `AppSessionProofs` | |
| `AppIsTyped`, `HonestAppIsNeverTakenForAThief`, `RefreshIsShared` | `AppSessionProofs` | `AppInv` |
| `RealtimeIsTyped`, `HangUpsAreFinal`, `NobodyMissesTheNews`, `NoOpenLineIsOrphaned` | `RealtimeProofs` | `RealtimeInv` |
| `LimiterNeverTooMany`, the refinement `LimiterImplementsWindow` | `RateLimitProofs` | `Inv` |

Each theorem is an initialisation lemma, a step lemma with one step per action, and the
fact that the invariant implies the property.

`AtMostOneOwner` is not inductive: a promotion in `HandOver` makes the heir an
owner without looking at who owns the trip by then, and only the demotion in the
same transaction keeps the count at one. That needs the caller to be *the* owner
still, which the compare-and-swap saw one step earlier. The invariant is therefore

    OwnerInv == TypeOK /\ AtMostOneOwner /\ TransferHoldsTheRole /\ DeletedIsEmpty

`TransferHoldsTheRole` carries the compare-and-swap's answer to the commit, kept up
by the row lock (no departure, closing or deletion takes the row away) and by there
being one owner (a second compare-and-swap would have to match the same, locked
row); `DeletedIsEmpty` keeps joins from reviving a deleted trip. The proof splits a
step into the compare-and-swap, the only step that puts a transfer at its commit
(`OnlyTheSwapGetsThere`), and the five commits that change roles
(`OnlyTheseChangeRoles`).

`NobodyIsForgotten` is not inductive either: an entry is committed on the strength of
a members check made a step earlier, and the member may be gone. `LedgerInv` adds
that everybody a request at its commit names is *known* (member, former member or
closed account), and the step rests on `KnownGrows`: while the trip exists nobody
stops being known, because every way out of a trip leaves a former-member row or an
inactive account. `LedgerInv` also says that the deleted trip's ledger is empty.

`SessionInv` adds to the session properties what a request in flight must remember
for them (`Fits`): a rotation about to issue has revoked its token, the mark of a
sweep lies within what is issued, and as long as the account is active it was so
when any request in flight arrived. The steps then rest on tokens only getting
older (`Later`).

`HonestAppNeverReplays` is about the token somebody is about to present, and rests on the
one in storage. `AppInv` therefore says of the stored token that it is unspent, or torn
(its refresh broke off after posting it), or that somebody is past presenting it and about
to replace it (`StoredIsGood`); of a pair on its way from the answer to the storage, that
nothing else in the app holds it and nobody has spent it (`NewIsUnused`, `NewIsOwn`); and
of the answers, that they reach who asked (`Lines`). Whoever presents a token is the only
one refreshing (`SharedRefreshIsRun`, itself part of the invariant), so that after it
nobody else holds the token. Most steps of the app only drop things: `SettlingKeeps` is
proved once for all of them, `StoringKeeps` for a save, `HangingKeeps` for a request,
`AnsweringKeeps` for the server.

`RealtimeInv` follows each request through its loops (`Tracked`): what it still has to
do covers what it owes. What makes that inductive is that a handler registers its
socket once (`Entered` only grows), so of what a request saw registered nothing comes
back: every step is `Calm`, and a calm step leaves every request it does not serve on
track (`CalmKeepsTrack`). `Steady` adds when the server may have closed a line.

The arithmetic rests on `FiniteData`. A sum over a set is a recursive function in the community
modules, and what it yields for every set comes out of an induction over the subsets of a
finite set, ordered by strict inclusion: the library states that this order is
well-founded (`FS_StrictSubsetOrderingWellFounded`) and that a nonempty collection
then has a minimal member (`WFMin`). Stated with the *set* of the subsets that have the
property, no operator is needed as a parameter (`StrongSetInduction`, `SetInduction`). From
there: a sum does not depend on what surrounds its set, one element more adds its value,
sums of sums may be exchanged.

`EveryUseIsCounted` moves two sums at once: `join_by_code` raises the counter in the statement
of the transaction that inserts the row, so every step that changes one changes the other,
whatever count the request had read before (`OnlyJoiningCounts`).

`EveryCentIsSomebodys` needs that a stored expense's shares add up to its amount.
`MoneyInv` says so; it is kept because an even split hands out `amount % n` cents
more than `n` times the quotient, one each, the payer first (`SplitAddsUp`), and an
explicit split is validated. A position is then the sum of what each row does to it
(`NetIs`), an expense or a repayment does nothing to the sum over everybody, and the two
sums are exchanged. `SummaryAgreesWithReport` compares that with the joins of the trips
list, which counts a repayment once per row; it agrees only because nobody repays himself,
which is what `PartiesInv` keeps from the check in `create_settlement` to the table.

`PairingInv` relates what `simplify_debts` carries along to what it is for: the remainders
in the two lists are the positions of the people once the suggestions so far are followed
(`DebtorsMatch`, `CreditorsMatch`), an entry is used up exactly if its index is behind, and
a suggestion is made only with an entry left behind by it (`Turns`). It starts out true because
the order is total on entries of different people, so that a finite set of them can be
listed at all (`ListingExists`), and a listing names everybody once. That every turn is a
`Settle` of `DebtSettlement` and that suggestions are few then hold for any ledger.
`NothingIsLeftOpen` says that when one list is exhausted the other one is too. It needs
that the ledger adds up to nothing, `LedgersAddUp`, a hypothesis that
`EveryCentIsAccountedFor` discharges for what `compute_balances` returns: positions add up
to what the ledger does, and positions of one sign that add up to nothing are zero.

The seven theorems about `TripOverlaps` are about any number of requests in flight,
however they overlap. Their invariant `TrackInv` adds to `OwnerInv` and `MoneyInv` that
every request is fresh (`AllFresh`): as far as it is not behind on a table, what it
remembers of the table from its earlier statements is still what the table says. The part
about the memberships is the caller's row and role, the target's, the people it names,
whether it is alone in its trip; the part about the ledger the expenses it read and the
balance `_ensure_settled` computed; then the uses of a code, the open account, the archive
flag. A step preserves it because what it writes to a table puts every other request that
relies on the table behind (`FreshStays`), and what a request reads is fresh when it has
read it (`EntriesAreFresh`, `DeparturesAreFresh` and so on). A commit then either finds
the tables its checks have seen, or was overtaken.

`ParentsInv` is `NothingOutlivesItsParent` with the types: a commit that inserts a child
looks for its parent in the same step, as the foreign key makes it, and every deletion
takes the children along. `DeparturesInv` adds `ChecksStand`: the people a request has
found to be members are, at its commit, members or departed since the check. A departure
then takes every row about whoever leaves along, and what a commit writes is about members
or makes the name `late`; nothing but leaving ends either (`OnlyLeavingForgets`).
`TellingInv` follows each announcement through `emit`: until it asks for the recipients
`heard` has followed the reader's seat, and a reader among the recipients it found is
rightly so.

`WalkIsFaithful` says nothing of the pages under way, so it is not inductive. `WalkInv` says
of an answered page, long after the table has moved on, that it names nobody twice, that
none of its rows still there lies below its next cursor, and that the cursor it hands out lies
below the one it was asked with (`PageRight`); and of the one page that will be appended,
that it was asked with the cursor the list still has, shares no row with the list, and
covers what was there from the start between the two cursors (`Continues`). What the
server finds is a sorted listing of a finite set (`PageIs`, by `ListingExists` and
`ListingIs`). Most steps only change the table; they cannot hurt, because a row keeps its
time and an id is drawn once (`Follows`): this is what a keyset promises and an offset does
not. Where a refresh overlaps a page, `clean` is false and nothing is claimed; the next
first page makes the claim again, and rests on nothing older (`PageRight`).

The limiter's invariant `Inv` says of each bucket that its deque is the end of its log,
that what the log has before it has aged, that both are in order, and that entries
`Limit` apart lie a window apart (`Spaced`). A key may be dropped because then its
whole log has aged; what has aged stays so, because the clock does not go back.

Only model-checked, and why:

* liveness (`EverybodyEndsSquare`, of which `NothingIsLeftOpen` is the safety part;
  `RevokedIsHungUp`, `EveryCallIsAnswered`, `NobodyStaysOnTheMap`) and the weak fairness
  in `SettlesDebts`, since the proofs stop at ENABLED;
* the properties the findings refute, and those the overlaps listed under Runs do.

## Not modelled, and the plan

Later work, in this order:

1. `TripEventsChannel`, the app's reconnecting socket. Composed with the handlers of
   `Realtime` two connections, one change and one screen exceed ten million states, so
   it is to be modelled against what `Realtime` promises of a connection (registered
   before acknowledged, told of every change until it is closed). Three things that
   model has to show as the code has them: `_connect` looks at `_disposed` before it
   opens the socket and not after, so a screen that is left or paused meanwhile keeps an
   open line (`src/mobile/lib/features/trips/data/trip_events.dart:117`); what changes
   before the first acknowledgement is not fetched; and `_refreshEverything` leaves
   the pins out (`src/mobile/lib/features/trips/presentation/trip_shell.dart:159`).

Of parts that are modelled, left out: names, dates and the trips list's presentation;
the feed's badge with its optimistic counts; the text of the export; the
kick that finds a socket opened after its owner has come back
(`routers/trips.py:244`), which the app takes for the end (close code 4403)
until the screen is opened again, and which no property of one membership sees.

Not planned: password hashing, token signing and invite code generation (ideal
here), field validation and formatting, configuration, logging, metrics,
migrations, the app's screens, themes, translations and generated code.
