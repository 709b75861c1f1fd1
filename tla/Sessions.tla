------------------------------ MODULE Sessions ------------------------------
(***************************************************************************)
(* The refresh tokens of one account (auth_service.py).  Access tokens are *)
(* stateless and short-lived, so signing somebody out means revoking rows  *)
(* of refresh_tokens; every endpoint here does it in several commits, and  *)
(* any two of them may interleave.                                         *)
(*                                                                         *)
(* Tokens are numbered in the order they are committed, passwords in the   *)
(* order they are chosen; 0 is no token, and the unusable hash "!" of a    *)
(* closed account.                                                         *)
(***************************************************************************)
EXTENDS Naturals, FiniteSets

CONSTANTS
  Req,           \* request slots
  Ops,           \* the endpoints clients call
  MaxTokens,     \* bound: tokens ever issued
  MaxPasswords   \* bound: passwords ever chosen

AllOps == {"login", "refresh", "logout", "change_password", "delete_account"}

ASSUME SessionAssumption ==
  /\ Ops \subseteq AllOps
  /\ MaxTokens \in Nat \ {0} /\ MaxPasswords \in Nat \ {0}

VARIABLES
  active,      \* users.is_active
  password,    \* users.password_hash: which password it verifies
  passwords,   \* how many passwords were ever chosen
  tokens,      \* refresh_tokens: state, and the token it was rotated from
  req,         \* the requests in flight
  ended        \* ghost: tokens up to this one a completed sweep was to end

vars == <<active, password, passwords, tokens, req, ended>>

Issued == DOMAIN tokens

Idle == [op |-> "idle", pc |-> "idle", token |-> 0, born |-> TRUE, mark |-> 0]

Token == [state : {"live", "expired", "revoked"}, parent : Nat]
Request ==
  [op : Ops \cup {"idle"}, pc : {"idle", "user", "revoke", "hash", "sweep", "issue"},
   token : 0..MaxTokens, born : BOOLEAN, mark : 0..MaxTokens]
Steps(op) ==
  CASE op = "refresh"         -> {"user", "revoke", "issue"}
    [] op = "logout"          -> {"revoke"}
    [] op = "login"           -> {"issue"}
    [] op = "change_password" -> {"hash", "sweep", "issue"}
    [] op = "delete_account"  -> {"hash", "sweep"}
    [] OTHER                  -> {"idle"}

TypeOK ==
  /\ active \in BOOLEAN
  /\ password \in 0..passwords /\ passwords \in Nat
  /\ \E n \in 0..MaxTokens : tokens \in [1..n -> Token]
  /\ req \in [Req -> Request]
  /\ \A r \in Req : req[r].pc \in Steps(req[r].op)
  /\ ended \in Nat

Live(t) == tokens[t].state = "live"
At(r, ops, pc) == req[r].op \in ops /\ req[r].pc = pc
Become(r, q)   == req' = [req EXCEPT ![r] = q]
Goto(r, pc)    == Become(r, [req[r] EXCEPT !.pc = pc])
Answer(r)      == Become(r, Idle)

Set(t, state) == tokens' = [tokens EXCEPT ![t].state = state]

-----------------------------------------------------------------------------
(***************************************************************************)
(* A request arrives and does its first read; one that is refused there    *)
(* leaves no trace.  Clients may send any token they were ever given.      *)
(***************************************************************************)
Accept(r, op, pc, t) ==
  /\ req[r] = Idle /\ op \in Ops
  /\ Become(r, [op |-> op, pc |-> pc, token |-> t, born |-> active,
                mark |-> 0])
  /\ UNCHANGED <<active, password, passwords, tokens, ended>>

\* authenticate: the account is active and the password is the current one.
Login(r) == active /\ password # 0 /\ Accept(r, "login", "issue", 0)

\* rotate_refresh_token's first read: neither revoked nor past expires_at.
FindToken(r) == \E t \in Issued : Live(t) /\ Accept(r, "refresh", "user", t)

\* revoke_refresh_token: only a token that is not revoked yet is written.
FindSession(r) ==
  \E t \in Issued : tokens[t].state # "revoked" /\ Accept(r, "logout", "revoke", t)

\* get_current_user, then the current password is verified against the row it
\* has loaded.
ChangePassword(r) ==
  /\ active /\ password # 0 /\ passwords < MaxPasswords
  /\ Accept(r, "change_password", "hash", 0)

DeleteAccount(r) == active /\ Accept(r, "delete_account", "hash", 0)

\* The connection drops or the process restarts; the open transaction rolls back,
\* what was committed stays.
Abort(r) ==
  /\ req[r] # Idle /\ Answer(r)
  /\ UNCHANGED <<active, password, passwords, tokens, ended>>

-----------------------------------------------------------------------------
\* Mutant of LoadUser: a row is enough.
LoadAnyUser(r) ==
  /\ At(r, {"refresh"}, "user")
  /\ Goto(r, "revoke")
  /\ UNCHANGED <<active, password, passwords, tokens, ended>>

\* rotate_refresh_token's second read: the account still exists and is active.
LoadUser(r) ==
  /\ At(r, {"refresh"}, "user")
  /\ IF active THEN Goto(r, "revoke") ELSE Answer(r)
  /\ UNCHANGED <<active, password, passwords, tokens, ended>>

\* Mutant of Revoke: the successor is issued before its predecessor is revoked.
RevokeLater(r) ==
  /\ At(r, {"refresh", "logout"}, "revoke")
  /\ IF req[r].op = "refresh"
     THEN Goto(r, "issue") /\ UNCHANGED tokens
     ELSE Answer(r) /\ Set(req[r].token, "revoked")
  /\ UNCHANGED <<active, password, passwords, ended>>

\* The row is updated by id, revoked meanwhile or not.
Revoke(r) ==
  /\ At(r, {"refresh", "logout"}, "revoke")
  /\ Set(req[r].token, "revoked")
  /\ IF req[r].op = "refresh" THEN Goto(r, "issue") ELSE Answer(r)
  /\ UNCHANGED <<active, password, passwords, ended>>

Sweep(r) == Become(r, [req[r] EXCEPT !.pc = "sweep", !.mark = Cardinality(Issued)])

\* change_password's first commit.
WritePassword(r) ==
  /\ At(r, {"change_password"}, "hash") /\ passwords < MaxPasswords
  /\ passwords' = passwords + 1 /\ password' = passwords'
  /\ Sweep(r)
  /\ UNCHANGED <<active, tokens, ended>>

\* delete_account's first commit.
CloseAccount(r) ==
  /\ At(r, {"delete_account"}, "hash")
  /\ active' = FALSE /\ password' = 0
  /\ Sweep(r)
  /\ UNCHANGED <<passwords, tokens, ended>>

\* Mutant of RevokeAll: only the newest session is looked up.
RevokeNewest(r) ==
  /\ At(r, {"change_password", "delete_account"}, "sweep")
  /\ Set(Cardinality(Issued), "revoked")
  /\ ended' = IF req[r].mark > ended THEN req[r].mark ELSE ended
  /\ IF req[r].op = "change_password" THEN Goto(r, "issue") ELSE Answer(r)
  /\ UNCHANGED <<active, password, passwords>>

\* Mutant of RevokeAll: closing an account ends as changing its password does.
RevokeAllAndIssue(r) ==
  /\ At(r, {"change_password", "delete_account"}, "sweep")
  /\ tokens' = [t \in Issued |-> [tokens[t] EXCEPT !.state = "revoked"]]
  /\ ended' = IF req[r].mark > ended THEN req[r].mark ELSE ended
  /\ Goto(r, "issue")
  /\ UNCHANGED <<active, password, passwords>>

\* revoke_all_refresh_tokens: one UPDATE over whatever is not revoked by now.
RevokeAll(r) ==
  /\ At(r, {"change_password", "delete_account"}, "sweep")
  /\ tokens' = [t \in Issued |-> [tokens[t] EXCEPT !.state = "revoked"]]
  /\ ended' = IF req[r].mark > ended THEN req[r].mark ELSE ended
  /\ IF req[r].op = "change_password" THEN Goto(r, "issue") ELSE Answer(r)
  /\ UNCHANGED <<active, password, passwords>>

\* issue_refresh_token, after whichever endpoint got here.
IssueRefreshToken(r) ==
  /\ At(r, {"login", "refresh", "change_password"}, "issue")
  /\ Cardinality(Issued) < MaxTokens
  /\ tokens' = [t \in 1..(Cardinality(Issued) + 1) |->
                  IF t \in Issued THEN tokens[t]
                  ELSE [state |-> "live", parent |-> req[r].token]]
  /\ Answer(r)
  /\ UNCHANGED <<active, password, passwords, ended>>

\* expires_at passes.
Expire(t) ==
  /\ Live(t) /\ Set(t, "expired")
  /\ UNCHANGED <<active, password, passwords, req, ended>>

-----------------------------------------------------------------------------
\* Somebody has registered and signed in.
Init ==
  /\ active = TRUE /\ password = 1 /\ passwords = 1
  /\ tokens = [t \in {1} |-> [state |-> "live", parent |-> 0]]
  /\ req = [r \in Req |-> Idle]
  /\ ended = 0

Next ==
  \/ \E r \in Req :
       \/ Login(r) \/ FindToken(r) \/ FindSession(r) \/ ChangePassword(r)
       \/ DeleteAccount(r) \/ Abort(r) \/ LoadUser(r) \/ Revoke(r)
       \/ WritePassword(r) \/ CloseAccount(r) \/ RevokeAll(r)
       \/ IssueRefreshToken(r)
  \/ \E t \in Issued : Expire(t)

Spec == Init /\ [][Next]_vars

-----------------------------------------------------------------------------
(***************************************************************************)
(* Under every interleaving, crashes between the commits included.         *)
(***************************************************************************)

\* A chain of rotations has one end: whatever token a rotation produced, the one
\* it was produced from no longer works (rotate_refresh_token commits the
\* revocation before it issues).
PredecessorIsSpent ==
  \A t \in Issued : tokens[t].parent # 0 => tokens[tokens[t].parent].state = "revoked"

\* No session that was open when the password was changed or the account closed
\* is open once revoke_all_refresh_tokens has run, nor comes back later.
SweepMissesNothing == \A t \in 1..ended : ~Live(t)

\* A rotation that arrives after the account was closed gets no further than the
\* user row, even with a token the sweep has not reached yet.
ClosedAccountsRotateNothing ==
  \A r \in Req : req[r].op = "refresh" /\ req[r].pc \in {"revoke", "issue"} => req[r].born

-----------------------------------------------------------------------------
\* rotate_refresh_token: whoever loses the race for a token gets a revoked one,
\* so a token has one successor at most.
SingleUse ==
  \A s, t \in Issued : tokens[s].parent = tokens[t].parent /\ tokens[s].parent # 0 => s = t

\* change_password: every other session is signed out, so once the answer is on
\* its way nothing is open that a rotation continued from an older session.
PasswordChangeEndsSessions ==
  \A t \in Issued : Live(t) /\ tokens[t].parent # 0 => tokens[t].parent > ended
=============================================================================
