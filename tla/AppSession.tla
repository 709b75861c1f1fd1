----------------------------- MODULE AppSession -----------------------------
(***************************************************************************)
(* The app as a client of the sessions of one account: AuthInterceptor,    *)
(* which refreshes once for all the requests that need it, AuthRepository  *)
(* and AuthNotifier on top of it, TokenStorage below.  Every await is a    *)
(* point where the others go on; TokenStorage writes, or deletes, its two  *)
(* entries one after the other.                                            *)
(*                                                                         *)
(* Access token n is the one that came with refresh token n.  A request to *)
(* the session endpoints takes the steps of Sessions; any other request is *)
(* one step of the server, which only looks at the access token.           *)
(***************************************************************************)
EXTENDS Sessions

CONSTANTS
  Clients,   \* bound: who the clients are in one behaviour, "anybody", with any token
             \* they were ever given, or "app", this app and nobody else
  Call,      \* bound: API requests of the app at once
  AppReq,    \* bound: requests of the app the server works on at once
  AppTokens  \* bound: tokens ever issued where the app is the client

ASSUME AppAssumption ==
  /\ Clients \subseteq {"anybody", "app"} /\ AppReq \subseteq Req
  /\ "person" \notin Call /\ 0 \notin Req

VARIABLES
  clients,  \* who the clients are in this behaviour
  store,    \* TokenStorage: an access and a refresh token, 0 where there is none
  screen,   \* AuthNotifier.state: "loading", "out" or "in"
  call,     \* API requests in the app
  ui,       \* what the person has asked for
  line,     \* answers of the session endpoints that the app waits for
  torn      \* ghost: tokens left stored by a refresh that posted them and broke off

appVars == <<store, screen, call, ui, line, torn>>
allVars == <<vars, clients, appVars>>

\* n is the token in hand: the access token a request was sent with, the refresh
\* token read from storage, the pair to be saved, 0 to clear the storage.  The call
\* that runs the refresh is in one of Refreshing, the calls that share it at "await".
Resting    == [pc |-> "idle", n |-> 0]
Refreshing == {"read", "post", "wait", "save", "save2"}
NoAsk      == [pc |-> "idle", act |-> "none", n |-> 0]

\* A line is on the slot of its request until it has the outcome; at first a failure.
Failed == [slot |-> 0, ok |-> FALSE, got |-> 0]
Sender == Call \cup {"person"}
Free   == {r \in AppReq : req[r] = Idle /\ \A x \in Sender : line[x].slot # r}

Shape ==
  /\ clients \in Clients /\ screen \in {"loading", "out", "in"}
  /\ store \in [access : 0..MaxTokens, refresh : 0..MaxTokens]
  /\ call \in [Call -> [pc : Refreshing \cup {"idle", "sent", "await", "replay",
                                              "expired", "expired2", "thrown"},
                        n : 0..MaxTokens]]
  /\ ui \in [pc : {"idle", "build", "me", "post", "wait", "save", "save2"},
             act : {"none", "login", "logout", "change_password", "delete_account"},
             n : 0..MaxTokens]
  /\ line \in [Sender -> [slot : AppReq \cup {0}, ok : BOOLEAN, got : 0..MaxTokens]]
  /\ torn \subseteq 0..MaxTokens

AppTypeOK == TypeOK /\ Shape

\* get_current_user, for a token within its 15 minutes.  Past them it is refused.
Valid(n) == n # 0 /\ active

\* rotated, or about to be
Spent(t) == \/ \E s \in Issued : tokens[s].parent = t
            \/ \E r \in Req : req[r].op = "refresh" /\ req[r].token = t

Hang(x, r) == line' = [line EXCEPT ![x] = [slot |-> r, ok |-> FALSE, got |-> 0]]
CallAt(c, pc) == call[c].pc = pc
SetCall(c, q) == call' = [call EXCEPT ![c] = q]
Person(q)  == ui' = q

\* What the app does on its own.
Local == clients = "app" /\ UNCHANGED <<vars, clients>>

-----------------------------------------------------------------------------
(***************************************************************************)
(* A request with the stored access token (onRequest), its answer          *)
(* (onError), and the refresh if that is a 401.                            *)
(***************************************************************************)
Send(c) ==
  /\ Local /\ screen = "in" /\ call[c] = Resting
  /\ SetCall(c, [pc |-> "sent", n |-> store.access])
  /\ UNCHANGED <<store, screen, ui, line, torn>>

\* The request is over.  AuthNotifier.build waits for its own, and clears the
\* storage whatever the failure.
End(c, ok) ==
  /\ SetCall(c, Resting)
  /\ IF ui.pc # "me" THEN UNCHANGED <<screen, ui>>
     ELSE IF ok THEN screen' = "in" /\ Person(NoAsk)
     ELSE Person([NoAsk EXCEPT !.pc = "save"]) /\ UNCHANGED screen

\* Mutant of Unauthorized: every call refreshes for itself.
UnauthorizedAlone(c) == SetCall(c, [Resting EXCEPT !.pc = "read"])

\* One call runs the refresh, the others share it (_refreshing).
Unauthorized(c) ==
  SetCall(c, [Resting EXCEPT !.pc =
    IF \E d \in Call : call[d].pc \in Refreshing THEN "await" ELSE "read"])

\* 401 also for a token that is past its time, and for a current password that was
\* mistyped; no answer at all is a failure.
AnswerCall(c) ==
  /\ Local /\ CallAt(c, "sent")
  /\ \/ Valid(call[c].n) /\ End(c, TRUE)
     \/ Unauthorized(c) /\ UNCHANGED <<screen, ui>>
     \/ End(c, FALSE)
  /\ UNCHANGED <<store, line, torn>>

\* The future completes for all who share it.
Complete(c, pc) ==
  call' = [d \in Call |->
    IF d = c \/ CallAt(d, "await") THEN [Resting EXCEPT !.pc = pc] ELSE call[d]]

\* Mutant of Release: the calls that share the refresh are forgotten when it fails.
ReleaseOne(c, n) ==
  call' = [d \in Call |->
    IF d = c \/ (CallAt(d, "await") /\ n # 0)
    THEN [Resting EXCEPT !.pc = IF n # 0 THEN "replay" ELSE "expired"]
    ELSE call[d]]

\* With a token, or with null.
Release(c, n) == Complete(c, IF n # 0 THEN "replay" ELSE "expired")

\* An exception that is not Dio's: finally frees the future, which completes with the
\* exception, and the storage keeps what it has.
Throw(c) == Complete(c, "thrown")
Tear(c)  == Throw(c) /\ torn' = torn \cup {store.refresh}

\* The platform's storage may fail in every read, write and delete.
ReadRefresh(c) ==
  /\ Local /\ CallAt(c, "read")
  /\ \/ store.refresh = 0 /\ Release(c, 0)
     \/ store.refresh # 0 /\ SetCall(c, [pc |-> "post", n |-> store.refresh])
     \/ Throw(c)
  /\ UNCHANGED <<store, screen, ui, line, torn>>

\* A dead token is refused, or the server is not reached.
PostRefresh(c) ==
  /\ clients = "app" /\ CallAt(c, "post")
  /\ SetCall(c, [Resting EXCEPT !.pc = "wait"])
  /\ \/ \E r \in Free : FindToken(r) /\ req'[r].token = call[c].n /\ Hang(c, r)
     \/ UNCHANGED <<vars, line>>
  /\ UNCHANGED <<clients, store, screen, ui, torn>>

\* No answer in time is an exception like any other of Dio's: the tokens go.  Not so
\* when the fields of the answer do not cast.
TakeAnswer(c) ==
  /\ Local /\ CallAt(c, "wait") /\ line[c].slot = 0
  /\ \/ SetCall(c, [pc |-> "save", n |-> line[c].got]) /\ UNCHANGED torn
     \/ Tear(c)
  /\ line' = [line EXCEPT ![c] = Failed]
  /\ UNCHANGED <<store, screen, ui>>

SaveAccess(c) ==
  /\ Local /\ CallAt(c, "save")
  /\ \/ /\ store' = [store EXCEPT !.access = call[c].n]
        /\ SetCall(c, [call[c] EXCEPT !.pc = "save2"]) /\ UNCHANGED torn
     \/ Tear(c) /\ UNCHANGED store
  /\ UNCHANGED <<screen, ui, line>>

SaveRefresh(c) ==
  /\ Local /\ CallAt(c, "save2")
  /\ \/ store' = [store EXCEPT !.refresh = call[c].n] /\ Release(c, call[c].n) /\ UNCHANGED torn
     \/ Tear(c) /\ UNCHANGED store
  /\ UNCHANGED <<screen, ui, line>>

\* The original request again, once.
Replay(c) ==
  /\ Local /\ CallAt(c, "replay")
  /\ \E ok \in BOOLEAN : End(c, ok)
  /\ UNCHANGED <<store, line, torn>>

\* onSessionExpired, forceLogout: the storage is cleared once more.
ForceLogout(c) ==
  /\ Local /\ CallAt(c, "expired")
  /\ \/ /\ store' = [store EXCEPT !.access = 0]
        /\ SetCall(c, [call[c] EXCEPT !.pc = "expired2"])
     \/ SetCall(c, [call[c] EXCEPT !.pc = "thrown"]) /\ UNCHANGED store
  /\ UNCHANGED <<screen, ui, line, torn>>

LoggedOut(c) ==
  /\ Local /\ CallAt(c, "expired2")
  /\ \/ /\ store' = [store EXCEPT !.refresh = 0] /\ screen' = "out"
        /\ SetCall(c, Resting)
        /\ Person(IF ui.pc = "me" THEN [NoAsk EXCEPT !.pc = "save"] ELSE ui)
     \/ SetCall(c, [call[c] EXCEPT !.pc = "thrown"]) /\ UNCHANGED <<store, screen, ui>>
  /\ UNCHANGED <<line, torn>>

\* The exception leaves onError, and the request fails, if it ever ends.
Thrown(c) ==
  /\ Local /\ CallAt(c, "thrown")
  /\ End(c, FALSE)
  /\ UNCHANGED <<store, line, torn>>

\* Dio's timeouts, which the server knows nothing of.
GiveUp(x) ==
  /\ Local /\ line[x].slot # 0
  /\ line' = [line EXCEPT ![x] = Failed]
  /\ UNCHANGED <<store, screen, call, ui, torn>>

-----------------------------------------------------------------------------
(***************************************************************************)
(* The person: one thing at a time.  A password change or a closure that   *)
(* is answered with 401 is a call first, see above.                        *)
(***************************************************************************)
Ask(act, Arrive(_)) ==
  /\ clients = "app" /\ ui = NoAsk
  /\ \E r \in Free : Arrive(r) /\ Hang("person", r)
  /\ Person([NoAsk EXCEPT !.pc = "wait", !.act = act])
  /\ UNCHANGED <<clients, store, screen, call, torn>>

SignIn         == screen = "out" /\ Ask("login", Login)
AskNewPassword == screen = "in" /\ Valid(store.access) /\ Ask("change_password", ChangePassword)
AskClosure     == screen = "in" /\ Valid(store.access) /\ Ask("delete_account", DeleteAccount)

ReadForLogout ==
  /\ Local /\ ui = NoAsk /\ screen = "in"
  /\ Person([act |-> "logout", n |-> store.refresh,
             pc |-> IF store.refresh = 0 THEN "save" ELSE "post"])
  /\ UNCHANGED <<store, screen, call, line, torn>>

PostLogout ==
  /\ clients = "app" /\ ui.pc = "post"
  /\ Person([ui EXCEPT !.pc = "wait", !.n = 0])
  /\ \/ \E r \in Free : FindSession(r) /\ req'[r].token = ui.n /\ Hang("person", r)
     \/ UNCHANGED <<vars, line>>
  /\ UNCHANGED <<clients, store, screen, call, torn>>

\* logout clears the storage whatever the answer; one whose fields do not cast is an
\* exception, and so is a storage that fails.
PersonAnswered ==
  LET outcome == line["person"] IN
  /\ Local /\ ui.pc = "wait" /\ outcome.slot = 0
  /\ \/ /\ outcome.ok \/ ui.act = "logout"
        /\ Person([ui EXCEPT !.pc = "save", !.n = outcome.got])
     \/ ui.act # "logout" /\ ~(ui.act = "delete_account" /\ outcome.ok) /\ Person(NoAsk)
  /\ line' = [line EXCEPT !["person"] = Failed]
  /\ UNCHANGED <<store, screen, call, torn>>

PersonSavesAccess ==
  /\ Local /\ ui.pc = "save"
  /\ \/ store' = [store EXCEPT !.access = ui.n] /\ Person([ui EXCEPT !.pc = "save2"])
     \/ Person(NoAsk) /\ UNCHANGED store
  /\ UNCHANGED <<screen, call, line, torn>>

\* After signing in the app asks who it is; that may fail with the tokens stored.
PersonSavesRefresh ==
  /\ Local /\ ui.pc = "save2" /\ Person(NoAsk)
  /\ \/ /\ store' = [store EXCEPT !.refresh = ui.n]
        /\ screen' \in (CASE ui.n = 0          -> {"out"}
                          [] ui.act = "login"  -> {screen, "in"}
                          [] OTHER             -> {screen})
     \/ UNCHANGED <<store, screen>>
  /\ UNCHANGED <<call, line, torn>>

\* The app is killed and started again.
Restart ==
  /\ Local
  /\ line' = [x \in Sender |-> Failed] /\ call' = [c \in Call |-> Resting]
  /\ torn' = IF \E c \in Call : call[c].pc \in {"wait", "save", "save2"}
             THEN torn \cup {store.refresh} ELSE torn
  /\ screen' = "loading" /\ Person([NoAsk EXCEPT !.pc = "build"])
  /\ UNCHANGED store

\* build: without a token nobody is asked, else /auth/me is.
Build(c) ==
  /\ Local /\ ui.pc = "build" /\ call[c] = Resting
  /\ IF store.access = 0
     THEN screen' = "out" /\ Person(NoAsk) /\ UNCHANGED call
     ELSE /\ Person([NoAsk EXCEPT !.pc = "me"])
          /\ SetCall(c, [pc |-> "sent", n |-> store.access])
          /\ UNCHANGED screen
  /\ UNCHANGED <<store, line, torn>>

-----------------------------------------------------------------------------
\* The server is at work on the request in slot r; whoever is on the line hears.
Hear(r, ok, got) ==
  line' = [x \in Sender |-> IF line[x].slot # r THEN line[x]
                            ELSE [slot |-> 0, ok |-> ok, got |-> got]]

Serve(r) ==
  /\ clients = "app"
  /\ \/ /\ LoadUser(r) \/ Revoke(r) \/ WritePassword(r) \/ CloseAccount(r) \/ RevokeAll(r)
        /\ IF req'[r] = Idle THEN Hear(r, req[r].pc # "user", 0) ELSE UNCHANGED line
     \/ /\ Cardinality(Issued) < AppTokens
        /\ IssueRefreshToken(r) /\ Hear(r, TRUE, Cardinality(Issued) + 1)
     \/ Abort(r) /\ Hear(r, FALSE, 0)
  /\ UNCHANGED <<clients, store, screen, call, ui, torn>>

Anybody == clients = "anybody" /\ Next /\ UNCHANGED <<clients, appVars>>

-----------------------------------------------------------------------------
AppInit ==
  /\ Init /\ clients \in Clients
  /\ store = [access |-> 1, refresh |-> 1] /\ screen = "in"
  /\ call = [c \in Call |-> Resting] /\ ui = NoAsk
  /\ line = [x \in Sender |-> Failed] /\ torn = {}

Interceptor(c) ==
  \/ AnswerCall(c) \/ ReadRefresh(c) \/ PostRefresh(c) \/ TakeAnswer(c)
  \/ SaveAccess(c) \/ SaveRefresh(c) \/ Replay(c) \/ ForceLogout(c) \/ LoggedOut(c)
  \/ Thrown(c) \/ GiveUp(c)

AppNext ==
  \/ \E c \in Call : Send(c) \/ Interceptor(c) \/ Build(c)
  \/ Restart \/ SignIn \/ AskNewPassword \/ AskClosure \/ ReadForLogout \/ PostLogout
  \/ PersonAnswered \/ PersonSavesAccess \/ PersonSavesRefresh \/ GiveUp("person")
  \/ \E r \in AppReq : Serve(r)
  \/ Anybody

AppSpec == AppInit /\ [][AppNext]_allVars

-----------------------------------------------------------------------------
\* Whatever goes on at once, lost answers included, the app presents no refresh token
\* that was rotated before: the calls share one refresh, and a refresh that fails with
\* Dio's exception gives its token up.  Left out are the tokens of a refresh that broke
\* off after posting them: the app was killed, an answer did not cast, the storage
\* failed.  Tokens a password change took whose answer was lost are not rotated: the
\* app presents them, and is refused.
HonestAppNeverReplays ==
  \A c \in Call : CallAt(c, "post") /\ call[c].n \notin torn => ~Spent(call[c].n)

\* Nobody is left waiting for a refresh that nobody runs: a call that shares one has
\* somebody in it, on whatever path it ends, and there is never more than one.
SharedRefreshIsRun ==
  /\ \A c \in Call : CallAt(c, "await") => \E d \in Call : call[d].pc \in Refreshing
  /\ \A c, d \in Call : {call[c].pc, call[d].pc} \subseteq Refreshing => c = d

-----------------------------------------------------------------------------
(***************************************************************************)
(* A refresh under way when the person logs out saves its pair afterwards: *)
(* logout waits for nobody.                                                *)
(***************************************************************************)

\* AuthRepository.logout: a session that was ended leaves no tokens on the device.
LogoutIsFinal ==
  [][screen = "out" /\ ui = NoAsk /\ store = [access |-> 0, refresh |-> 0]
       => store' = store]_allVars
=============================================================================
