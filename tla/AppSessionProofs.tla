-------------------------- MODULE AppSessionProofs --------------------------
(***************************************************************************)
(* What Sessions promises under every interleaving, for any number of      *)
(* requests, tokens and passwords; that the app does nothing to the        *)
(* sessions that Sessions allows nobody; and that it keeps what AppSession *)
(* promises for any number of calls.                                       *)
(***************************************************************************)
EXTENDS AppSession, FiniteSetTheorems, TLAPS

-----------------------------------------------------------------------------
(***************************************************************************)
(* The server.  SessionInv adds to the properties what the requests in     *)
(* flight have to remember for them (Fits): a rotation about to issue has  *)
(* spent its token, a sweep's mark lies within what has been issued, and   *)
(* while the account is active so was it when any request in flight        *)
(* arrived.                                                                *)
(***************************************************************************)
Fits(q, toks, act) ==
  /\ q.op \in {"refresh", "logout"} => q.token \in DOMAIN toks
  /\ q.op \notin {"refresh", "logout"} => q.token = 0
  /\ q.op = "refresh" /\ q.pc = "issue" => toks[q.token].state = "revoked"
  /\ q.mark <= Cardinality(DOMAIN toks)
  /\ act => q.born
  /\ q.op = "refresh" /\ q.pc \in {"revoke", "issue"} => q.born

ParentsExist == \A t \in Issued : tokens[t].parent # 0 => tokens[t].parent \in Issued
EndedWereIssued == ended <= Cardinality(Issued)

SessionInv ==
  /\ TypeOK /\ PredecessorIsSpent /\ SweepMissesNothing
  /\ ParentsExist /\ EndedWereIssued
  /\ \A r \in Req : Fits(req[r], tokens, active)

-----------------------------------------------------------------------------
(***************************************************************************)
(* The token table, and what fits a request.                               *)
(***************************************************************************)
LEMMA Table ==
  ASSUME TypeOK
  PROVE  \E n \in 0..MaxTokens : /\ tokens \in [1..n -> Token] /\ Issued = 1..n
                                 /\ Cardinality(Issued) = n
<1>1. PICK n \in 0..MaxTokens : tokens \in [1..n -> Token]
  BY DEF TypeOK
<1>2. Issued = 1..n /\ n \in Nat
  BY <1>1, SessionAssumption DEF Issued
<1> QED BY <1>1, <1>2, FS_Interval

\* The account and its tokens only get older: what is issued stays issued, what
\* is revoked stays revoked, who is closed stays closed.
Later ==
  /\ Issued \subseteq Issued'
  /\ Cardinality(Issued) \in Nat /\ Cardinality(Issued)' \in Nat
  /\ Cardinality(Issued) <= Cardinality(Issued)'
  /\ \A t \in Issued : tokens[t].state = "revoked" => tokens'[t].state = "revoked"
  /\ active' => active

RequestsFit ==
  /\ req \in [Req -> Request]
  /\ \A r \in Req : req[r].pc \in Steps(req[r].op)
  /\ \A r \in Req : Fits(req[r], tokens, active)

LEMMA KeepsFitting ==
  ASSUME NEW q \in Request, Later, Fits(q, tokens, active)
  PROVE  Fits(q, tokens', active')
BY SessionAssumption DEF Fits, Later, Issued, Request

LEMMA PutKeepsFitting ==
  ASSUME RequestsFit, Later, NEW r \in Req, NEW q \in Request,
         q.pc \in Steps(q.op), Fits(q, tokens', active'), Become(r, q)
  PROVE  RequestsFit'
<1>1. req' = [p \in Req |-> IF p = r THEN q ELSE req[p]]
  BY DEF Become, RequestsFit
<1>2. ASSUME NEW p \in Req PROVE Fits(req'[p], tokens', active')
  <2>1. CASE p = r
    BY <1>1, <2>1
  <2>2. CASE p # r
    BY <1>1, <2>2, KeepsFitting DEF RequestsFit
  <2> QED BY <2>1, <2>2
<1> QED BY <1>1, <1>2 DEF RequestsFit

LEMMA IdleFits ==
  ASSUME Cardinality(Issued) \in Nat
  PROVE  /\ Idle \in Request /\ Idle.pc \in Steps(Idle.op)
         /\ Fits(Idle, tokens, active)
BY SessionAssumption DEF Idle, Request, Steps, Fits, Issued

-----------------------------------------------------------------------------
(***************************************************************************)
(* Steps that only move a request.                                         *)
(***************************************************************************)
Quiet == UNCHANGED <<active, password, passwords, tokens, ended>>

LEMMA QuietIsLater ==
  ASSUME TypeOK, Quiet
  PROVE  Later
<1>1. Cardinality(Issued) \in Nat
  BY Table, SessionAssumption
<1> QED BY <1>1 DEF Quiet, Later, Issued

LEMMA InvIs == SessionInv <=> /\ RequestsFit
                              /\ active \in BOOLEAN
                              /\ password \in 0..passwords /\ passwords \in Nat
                              /\ \E n \in 0..MaxTokens : tokens \in [1..n -> Token]
                              /\ ended \in Nat
                              /\ PredecessorIsSpent /\ SweepMissesNothing
                              /\ ParentsExist /\ EndedWereIssued
BY DEF SessionInv, TypeOK, RequestsFit

LEMMA QuietStep ==
  ASSUME SessionInv, Quiet, NEW r \in Req, NEW q \in Request, Become(r, q),
         q.pc \in Steps(q.op), Fits(q, tokens, active)
  PROVE  SessionInv'
<1>1. Later
  BY QuietIsLater DEF SessionInv
<1>2. RequestsFit'
  BY <1>1, PutKeepsFitting, InvIs DEF Quiet
<1>3. TypeOK'
  BY <1>2 DEF SessionInv, TypeOK, RequestsFit, Quiet
<1>4. PredecessorIsSpent' /\ SweepMissesNothing' /\ ParentsExist' /\ EndedWereIssued'
  BY DEF SessionInv, Quiet, PredecessorIsSpent, SweepMissesNothing, ParentsExist,
         EndedWereIssued, Issued, Live
<1> QED BY <1>2, <1>3, <1>4 DEF SessionInv, RequestsFit

LEMMA Arrivals ==
  ASSUME SessionInv, NEW r \in Req,
         Login(r) \/ FindToken(r) \/ FindSession(r) \/ ChangePassword(r) \/ DeleteAccount(r)
  PROVE  SessionInv'
<1> DEFINE Q(op, pc, t) == [op |-> op, pc |-> pc, token |-> t, born |-> active, mark |-> 0]
<1>1. PICK n \in 0..MaxTokens : Issued = 1..n /\ Cardinality(Issued) = n
  BY Table DEF SessionInv
<1>2. active \in BOOLEAN
  BY DEF SessionInv, TypeOK
<1>3. PICK op \in Ops, pc \in {"user", "revoke", "hash", "issue"}, t \in 0..MaxTokens :
        /\ Accept(r, op, pc, t)
        /\ pc \in Steps(op)
        /\ pc \in {"issue", "hash"} => t = 0 /\ op \notin {"refresh", "logout"}
        /\ pc \in {"user", "revoke"} => t \in Issued
        /\ pc = "user" <=> op = "refresh"
        /\ pc = "revoke" <=> op = "logout"
  <2>1. CASE Login(r)
    <3>1. Accept(r, "login", "issue", 0)
      BY <2>1 DEF Login
    <3>2. "login" \in Ops /\ "issue" \in Steps("login") /\ 0 \in 0..MaxTokens
      BY <3>1, SessionAssumption DEF Accept, Steps
    <3> QED BY <3>1, <3>2
  <2>2. CASE FindToken(r)
    BY <2>2, <1>1, SessionAssumption DEF FindToken, Accept, Steps
  <2>3. CASE FindSession(r)
    BY <2>3, <1>1, SessionAssumption DEF FindSession, Accept, Steps
  <2>4. CASE ChangePassword(r)
    <3>1. Accept(r, "change_password", "hash", 0)
      BY <2>4 DEF ChangePassword
    <3>2. "change_password" \in Ops /\ "hash" \in Steps("change_password") /\ 0 \in 0..MaxTokens
      BY <3>1, SessionAssumption DEF Accept, Steps
    <3> QED BY <3>1, <3>2
  <2>5. CASE DeleteAccount(r)
    <3>1. Accept(r, "delete_account", "hash", 0)
      BY <2>5 DEF DeleteAccount
    <3>2. "delete_account" \in Ops /\ "hash" \in Steps("delete_account") /\ 0 \in 0..MaxTokens
      BY <3>1, SessionAssumption DEF Accept, Steps
    <3> QED BY <3>1, <3>2
  <2> QED BY <2>1, <2>2, <2>3, <2>4, <2>5
<1>4. Q(op, pc, t) \in Request /\ Q(op, pc, t).pc \in Steps(Q(op, pc, t).op)
  BY <1>2, <1>3, SessionAssumption DEF Request
<1>5. Fits(Q(op, pc, t), tokens, active)
  BY <1>1, <1>2, <1>3, SessionAssumption DEF Fits, Issued
<1>6. Become(r, Q(op, pc, t)) /\ Quiet
  BY <1>3 DEF Accept, Quiet
<1> QED BY <1>4, <1>5, <1>6, QuietStep

LEMMA Aborts ==
  ASSUME SessionInv, NEW r \in Req, Abort(r)
  PROVE  SessionInv'
<1>1. Cardinality(Issued) \in Nat
  BY Table, SessionAssumption DEF SessionInv
<1> QED BY <1>1, IdleFits, QuietStep DEF Abort, Answer, Quiet

LEMMA Loads ==
  ASSUME SessionInv, NEW r \in Req, LoadUser(r)
  PROVE  SessionInv'
<1>1. Cardinality(Issued) \in Nat
  BY Table, SessionAssumption DEF SessionInv
<1>2. CASE active
  <2>1. [req[r] EXCEPT !.pc = "revoke"] \in Request
    BY DEF SessionInv, TypeOK, Request
  <2>2. [req[r] EXCEPT !.pc = "revoke"].pc \in Steps([req[r] EXCEPT !.pc = "revoke"].op)
    BY DEF LoadUser, At, Steps, SessionInv, TypeOK, Request
  <2>3. Fits([req[r] EXCEPT !.pc = "revoke"], tokens, active)
    BY <1>2 DEF SessionInv, TypeOK, Request, Fits, LoadUser, At
  <2> QED BY <1>2, <2>1, <2>2, <2>3, QuietStep DEF LoadUser, Goto, Quiet
<1>3. CASE ~active
  BY <1>1, <1>3, IdleFits, QuietStep DEF LoadUser, Answer, Quiet
<1> QED BY <1>2, <1>3

-----------------------------------------------------------------------------
(***************************************************************************)
(* Steps that write a token.                                               *)
(***************************************************************************)

\* Marking one token, unless it un-revokes it, keeps all that is said of tokens.
LEMMA Marking ==
  ASSUME SessionInv, NEW t \in Issued, NEW state \in {"expired", "revoked"},
         state = "revoked" \/ Live(t), Set(t, state),
         UNCHANGED <<active, password, passwords, ended>>
  PROVE  /\ Later /\ Issued' = Issued /\ tokens'[t].state = state
         /\ \E n \in 0..MaxTokens : tokens' \in [1..n -> Token]
         /\ PredecessorIsSpent' /\ SweepMissesNothing' /\ ParentsExist' /\ EndedWereIssued'
<1>1. PICK n \in 0..MaxTokens : /\ tokens \in [1..n -> Token] /\ Issued = 1..n
                                /\ Cardinality(Issued) = n
  BY Table DEF SessionInv
<1>2. tokens' \in [1..n -> Token] /\ Issued' = Issued
  BY <1>1 DEF Set, Token, Issued
<1>3. \A s \in Issued : /\ tokens'[s].parent = tokens[s].parent
                        /\ s # t => tokens'[s].state = tokens[s].state
  BY <1>1 DEF Set, Token
<1>4. tokens'[t].state = state
  BY <1>1 DEF Set, Token
<1>5. Later
  BY <1>1, <1>2, <1>3, <1>4, SessionAssumption DEF Later, Live
<1>6. PredecessorIsSpent' /\ ParentsExist'
  BY <1>2, <1>3, <1>4 DEF SessionInv, PredecessorIsSpent, ParentsExist, Live
<1>7. \A s \in 1..ended : s \in Issued
  BY <1>1, SessionAssumption DEF SessionInv, EndedWereIssued, TypeOK
<1>8. SweepMissesNothing' /\ EndedWereIssued'
  BY <1>2, <1>3, <1>4, <1>7 DEF SessionInv, SweepMissesNothing, EndedWereIssued, Live
<1> QED BY <1>2, <1>4, <1>5, <1>6, <1>8

LEMMA Revocations ==
  ASSUME SessionInv, NEW r \in Req, Revoke(r)
  PROVE  SessionInv'
<1>1. req[r] \in Request /\ Fits(req[r], tokens, active)
  BY DEF SessionInv, TypeOK
<1>2. req[r].token \in Issued
  BY <1>1 DEF Fits, Revoke, At, Issued
<1>3. UNCHANGED <<active, password, passwords, ended>> /\ Set(req[r].token, "revoked")
  BY DEF Revoke
<1>4. /\ Later /\ Issued' = Issued /\ tokens'[req[r].token].state = "revoked"
      /\ \E n \in 0..MaxTokens : tokens' \in [1..n -> Token]
      /\ PredecessorIsSpent' /\ SweepMissesNothing' /\ ParentsExist' /\ EndedWereIssued'
  BY <1>2, <1>3, Marking
<1>5. RequestsFit'
  <2>1. CASE req[r].op = "refresh"
    <3> DEFINE q == [req[r] EXCEPT !.pc = "issue"]
    <3>1. q \in Request /\ q.pc \in Steps(q.op)
      BY <1>1, <2>1 DEF Request, Steps
    <3>2. Fits(q, tokens', active')
      BY <1>1, <1>3, <1>4, <2>1 DEF Fits, Issued, Request, Revoke, At
    <3> QED BY <1>4, <2>1, <3>1, <3>2, PutKeepsFitting, InvIs DEF Revoke, Goto
  <2>2. CASE req[r].op # "refresh"
    <3>1. Fits(Idle, tokens', active')
      BY <1>4, SessionAssumption DEF Idle, Fits, Later, Issued
    <3> QED BY <1>4, <2>2, <3>1, IdleFits, PutKeepsFitting, InvIs DEF Later, Revoke, Answer
  <2> QED BY <2>1, <2>2
<1> QED BY <1>3, <1>4, <1>5 DEF SessionInv, TypeOK, RequestsFit

LEMMA Expiries ==
  ASSUME SessionInv, NEW t \in Issued, Expire(t)
  PROVE  SessionInv'
<1>1. UNCHANGED <<active, password, passwords, ended, req>> /\ Set(t, "expired") /\ Live(t)
  BY DEF Expire
<1>2. /\ Later /\ Issued' = Issued
      /\ \E n \in 0..MaxTokens : tokens' \in [1..n -> Token]
      /\ PredecessorIsSpent' /\ SweepMissesNothing' /\ ParentsExist' /\ EndedWereIssued'
  BY <1>1, Marking
<1>3. \A r \in Req : Fits(req[r], tokens', active')
  BY <1>2, KeepsFitting DEF SessionInv, TypeOK
<1> QED BY <1>1, <1>2, <1>3 DEF SessionInv, TypeOK

LEMMA AccountWrites ==
  ASSUME SessionInv, NEW r \in Req, WritePassword(r) \/ CloseAccount(r)
  PROVE  SessionInv'
<1>1. req[r] \in Request /\ Fits(req[r], tokens, active) /\ active \in BOOLEAN
  BY DEF SessionInv, TypeOK
<1>2. PICK n \in 0..MaxTokens : Cardinality(Issued) = n
  BY Table DEF SessionInv
<1>3. UNCHANGED <<tokens, ended>> /\ (active' => active) /\ active' \in BOOLEAN
  <2>1. CASE WritePassword(r)
    <3>1. active' = active /\ UNCHANGED <<tokens, ended>>
      BY <2>1 DEF WritePassword
    <3> QED BY <1>1, <3>1
  <2>2. CASE CloseAccount(r)
    <3>1. ~active' /\ active' \in BOOLEAN /\ UNCHANGED <<tokens, ended>>
      BY <2>2 DEF CloseAccount
    <3> QED BY <3>1
  <2> QED BY <2>1, <2>2
<1>4. Later
  BY <1>2, <1>3, SessionAssumption DEF Later, Issued
<1> DEFINE q == [req[r] EXCEPT !.pc = "sweep", !.mark = Cardinality(Issued)]
<1>5. q \in Request /\ q.pc \in Steps(q.op)
  BY <1>1, <1>2 DEF Request, Steps, WritePassword, CloseAccount, At
<1>6. Fits(q, tokens', active')
  BY <1>1, <1>2, <1>3, SessionAssumption DEF Fits, Request, WritePassword, CloseAccount, At, Issued
<1>7. RequestsFit'
  BY <1>4, <1>5, <1>6, PutKeepsFitting, InvIs DEF WritePassword, CloseAccount, Sweep
<1>8. password' \in 0..passwords' /\ passwords' \in Nat
  BY DEF SessionInv, TypeOK, WritePassword, CloseAccount
<1>9. PredecessorIsSpent' /\ SweepMissesNothing' /\ ParentsExist' /\ EndedWereIssued'
  BY <1>3 DEF SessionInv, PredecessorIsSpent, SweepMissesNothing, ParentsExist,
              EndedWereIssued, Issued, Live
<1> QED BY <1>3, <1>7, <1>8, <1>9 DEF SessionInv, TypeOK, RequestsFit

LEMMA Sweeps ==
  ASSUME SessionInv, NEW r \in Req, RevokeAll(r)
  PROVE  SessionInv'
<1>1. req[r] \in Request /\ Fits(req[r], tokens, active) /\ ended \in Nat
  BY DEF SessionInv, TypeOK
<1>2. PICK n \in 0..MaxTokens : /\ tokens \in [1..n -> Token] /\ Issued = 1..n
                                /\ Cardinality(Issued) = n
  BY Table DEF SessionInv
<1>3. tokens' \in [1..n -> Token] /\ Issued' = Issued
  BY <1>2 DEF RevokeAll, Token, Issued
<1>4. \A t \in Issued : tokens'[t].state = "revoked" /\ tokens'[t].parent = tokens[t].parent
  BY <1>2 DEF RevokeAll, Token
<1>5. UNCHANGED <<active, password, passwords>>
  BY DEF RevokeAll
<1>6. Later
  BY <1>2, <1>3, <1>4, <1>5, SessionAssumption DEF Later
<1>7. ended' \in Nat /\ ended' <= n
  BY <1>1, <1>2, SessionAssumption DEF RevokeAll, Fits, Request, SessionInv, EndedWereIssued, Issued
<1>8. PredecessorIsSpent' /\ ParentsExist'
  BY <1>3, <1>4 DEF SessionInv, PredecessorIsSpent, ParentsExist
<1>9. SweepMissesNothing' /\ EndedWereIssued'
  <2>1. \A t \in 1..(ended') : t \in Issued
    BY <1>2, <1>7
  <2> QED BY <1>2, <1>3, <1>4, <1>7, <2>1 DEF SweepMissesNothing, EndedWereIssued, Live
<1>10. RequestsFit'
  <2>1. CASE req[r].op = "change_password"
    <3> DEFINE q == [req[r] EXCEPT !.pc = "issue"]
    <3>1. q \in Request /\ q.pc \in Steps(q.op)
      BY <1>1, <2>1 DEF Request, Steps
    <3>2. Fits(q, tokens', active')
      BY <1>1, <1>3, <1>5, <2>1 DEF Fits, Issued, Request
    <3> QED BY <1>6, <2>1, <3>1, <3>2, PutKeepsFitting, InvIs DEF RevokeAll, Goto
  <2>2. CASE req[r].op # "change_password"
    <3>1. Fits(Idle, tokens', active')
      BY <1>6, SessionAssumption DEF Idle, Fits, Later, Issued
    <3> QED BY <1>6, <2>2, <3>1, IdleFits, PutKeepsFitting, InvIs DEF Later, RevokeAll, Answer
  <2> QED BY <2>1, <2>2
<1> QED BY <1>3, <1>5, <1>7, <1>8, <1>9, <1>10 DEF SessionInv, TypeOK, RequestsFit

LEMMA Issues ==
  ASSUME SessionInv, NEW r \in Req, IssueRefreshToken(r)
  PROVE  SessionInv'
<1>1. req[r] \in Request /\ Fits(req[r], tokens, active)
  BY DEF SessionInv, TypeOK
<1>2. PICK n \in 0..MaxTokens : /\ tokens \in [1..n -> Token] /\ Issued = 1..n
                                /\ Cardinality(Issued) = n
  BY Table DEF SessionInv
<1>3. n + 1 \in 0..MaxTokens /\ n \in Nat
  BY <1>2, SessionAssumption DEF IssueRefreshToken
<1>4. tokens' = [t \in 1..(n + 1) |-> IF t \in 1..n THEN tokens[t]
                                     ELSE [state |-> "live", parent |-> req[r].token]]
  BY <1>2 DEF IssueRefreshToken
<1>5. Issued' = 1..(n + 1) /\ Cardinality(Issued') = n + 1
  BY <1>3, <1>4, FS_Interval DEF Issued
<1>6. /\ \A t \in 1..n : tokens'[t] = tokens[t]
      /\ tokens'[n + 1].state = "live" /\ tokens'[n + 1].parent = req[r].token
  BY <1>3, <1>4
<1>7. tokens' \in [1..(n + 1) -> Token]
  BY <1>1, <1>2, <1>3, <1>4, SessionAssumption DEF Token, Request
<1>8. UNCHANGED <<active, password, passwords, ended>>
  BY DEF IssueRefreshToken
<1>9. Later
  BY <1>2, <1>3, <1>5, <1>6, <1>8 DEF Later
<1>10. req[r].token # 0 => req[r].token \in 1..n /\ tokens[req[r].token].state = "revoked"
  BY <1>1, <1>2 DEF Fits, IssueRefreshToken, At, Issued
<1>11. PredecessorIsSpent' /\ ParentsExist'
  <2>1. \A t \in 1..(n + 1) : t \in 1..n \/ t = n + 1
    BY <1>3
  <2>2. \A t \in 1..n : t \in 1..(n + 1)
    BY <1>3
  <2> QED BY <1>2, <1>5, <1>6, <1>10, <2>1, <2>2
          DEF SessionInv, PredecessorIsSpent, ParentsExist
<1>12. SweepMissesNothing' /\ EndedWereIssued'
  <2>1. ended <= n /\ ended \in Nat
    BY <1>2 DEF SessionInv, EndedWereIssued, TypeOK
  <2>2. \A t \in 1..ended : t \in 1..n
    BY <1>3, <2>1
  <2> QED BY <1>3, <1>5, <1>6, <1>8, <2>1, <2>2
          DEF SessionInv, SweepMissesNothing, EndedWereIssued, Live
<1>13. RequestsFit'
  <2>1. Fits(Idle, tokens', active')
    BY <1>9, SessionAssumption DEF Idle, Fits, Later, Issued
  <2> QED BY <1>9, <2>1, IdleFits, PutKeepsFitting, InvIs DEF Later, IssueRefreshToken, Answer
<1> QED BY <1>3, <1>7, <1>8, <1>11, <1>12, <1>13 DEF SessionInv, TypeOK, RequestsFit

-----------------------------------------------------------------------------
LEMMA SessionStarts == Init => SessionInv
<1> SUFFICES ASSUME Init PROVE SessionInv
  OBVIOUS
<1>1. 1 \in 0..MaxTokens /\ 0 \in 0..MaxTokens
  BY SessionAssumption
<1>2. tokens \in [1..1 -> Token] /\ Issued = 1..1 /\ tokens[1].parent = 0
  BY DEF Init, Token, Issued
<1>3. Cardinality(Issued) = 1
  <2>1. Issued = {1}
    BY DEF Init, Issued
  <2> QED BY <2>1, FS_Singleton
<1>4. TypeOK
  BY <1>1, <1>2, <1>3, IdleFits DEF Init, TypeOK
<1>5. \A r \in Req : Fits(req[r], tokens, active)
  <2>1. Fits(Idle, tokens, active)
    BY <1>3, IdleFits
  <2>2. \A r \in Req : req[r] = Idle
    BY DEF Init
  <2> QED BY <2>1, <2>2
<1>6. PredecessorIsSpent /\ ParentsExist
  BY <1>2 DEF PredecessorIsSpent, ParentsExist
<1>7. SweepMissesNothing /\ EndedWereIssued
  BY <1>3 DEF Init, SweepMissesNothing, EndedWereIssued
<1> QED BY <1>4, <1>5, <1>6, <1>7 DEF SessionInv

LEMMA SessionStep == SessionInv /\ [Next]_vars => SessionInv'
<1> SUFFICES ASSUME SessionInv, [Next]_vars PROVE SessionInv'
  OBVIOUS
<1>1. CASE \E r \in Req : \/ Login(r) \/ FindToken(r) \/ FindSession(r)
                          \/ ChangePassword(r) \/ DeleteAccount(r)
  BY <1>1, Arrivals
<1>2. CASE \E r \in Req : Abort(r) \/ LoadUser(r)
  BY <1>2, Aborts, Loads
<1>3. CASE \E r \in Req : Revoke(r)
  BY <1>3, Revocations
<1>4. CASE \E r \in Req : WritePassword(r) \/ CloseAccount(r)
  BY <1>4, AccountWrites
<1>5. CASE \E r \in Req : RevokeAll(r) \/ IssueRefreshToken(r)
  BY <1>5, Sweeps, Issues
<1>6. CASE \E t \in Issued : Expire(t)
  BY <1>6, Expiries
<1>7. CASE UNCHANGED vars
  BY <1>7 DEF vars, SessionInv, TypeOK, PredecessorIsSpent, SweepMissesNothing,
              ParentsExist, EndedWereIssued, Issued, Live
<1> QED BY <1>1, <1>2, <1>3, <1>4, <1>5, <1>6, <1>7 DEF Next

LEMMA SessionInvariant == Spec => []SessionInv
BY SessionStarts, SessionStep, PTL DEF Spec

\* Rows of refresh_tokens and requests in flight keep their types.
THEOREM SessionsAreTyped == Spec => []TypeOK
<1>1. SessionInv => TypeOK
  BY DEF SessionInv
<1> QED BY <1>1, SessionInvariant, PTL

\* However rotations interleave with each other and with crashes, a token that was
\* rotated never works again.
THEOREM RotationIsFinal == Spec => []PredecessorIsSpent
<1>1. SessionInv => PredecessorIsSpent
  BY DEF SessionInv
<1> QED BY <1>1, SessionInvariant, PTL

\* Once revoke_all_refresh_tokens has run, no token issued before the password
\* change or the closure it belongs to works again.
THEOREM SweepIsFinal == Spec => []SweepMissesNothing
<1>1. SessionInv => SweepMissesNothing
  BY DEF SessionInv
<1> QED BY <1>1, SessionInvariant, PTL

\* A closed account's leftover tokens cannot be rotated by a request that arrives
\* after the closure.
THEOREM ClosedStaysClosed == Spec => []ClosedAccountsRotateNothing
<1>1. SessionInv => ClosedAccountsRotateNothing
  BY DEF SessionInv, Fits, ClosedAccountsRotateNothing
<1> QED BY <1>1, SessionInvariant, PTL

-----------------------------------------------------------------------------
(***************************************************************************)
(* The app.  HonestAppNeverReplays is not inductive.  AppInv follows a new *)
(* pair from the answer to the storage: until it is there nothing else in  *)
(* the app holds it (NewIsUnused, NewIsOwn), whoever posts is alone in     *)
(* refreshing (SharedRefreshIsRun), and a stored token that is spent is    *)
(* about to be replaced (StoredIsGood), or its refresh broke off (torn).   *)
(* Answers go to who asked (Lines).                                        *)
(***************************************************************************)
\* The steps of the app that leave the server alone.
Alone(c) ==
  \/ Send(c) \/ AnswerCall(c) \/ ReadRefresh(c) \/ TakeAnswer(c) \/ SaveAccess(c)
  \/ SaveRefresh(c) \/ Replay(c) \/ ForceLogout(c) \/ LoggedOut(c) \/ Thrown(c)
  \/ GiveUp(c) \/ Build(c)

PersonAlone ==
  \/ Restart \/ ReadForLogout \/ PersonAnswered \/ PersonSavesAccess \/ PersonSavesRefresh
  \/ GiveUp("person")

LEMMA AloneIsLocal ==
  /\ \A c \in Call : Alone(c) => Local
  /\ PersonAlone => Local
<1>1. ASSUME NEW c \in Call, Alone(c) PROVE Local
  BY <1>1 DEF Alone, Send, AnswerCall, ReadRefresh, TakeAnswer, SaveAccess, SaveRefresh,
              Replay, ForceLogout, LoggedOut, Thrown, GiveUp, Build
<1>2. ASSUME PersonAlone PROVE Local
  BY <1>2 DEF PersonAlone, Restart, ReadForLogout, PersonAnswered, PersonSavesAccess,
              PersonSavesRefresh, GiveUp
<1> QED BY <1>1, <1>2

LEMMA FreeIsReq == Free \subseteq Req /\ AppReq \subseteq Req
BY AppAssumption DEF Free

LEMMA AppStep == [AppNext]_allVars => [Next]_vars
<1> SUFFICES ASSUME [AppNext]_allVars PROVE [Next]_vars
  OBVIOUS
<1>1. CASE (\E c \in Call : Alone(c)) \/ PersonAlone
  BY <1>1, AloneIsLocal DEF Local
<1>2. CASE \E c \in Call : PostRefresh(c)
  BY <1>2, FreeIsReq DEF PostRefresh, Next, vars
<1>3. CASE SignIn
  <2>1. \E r \in Req : Login(r)
    BY <1>3, FreeIsReq DEF SignIn, Ask
  <2> QED BY <2>1 DEF Next
<1>4. CASE AskNewPassword
  <2>1. \E r \in Req : ChangePassword(r)
    BY <1>4, FreeIsReq DEF AskNewPassword, Ask
  <2> QED BY <2>1 DEF Next
<1>5. CASE AskClosure
  <2>1. \E r \in Req : DeleteAccount(r)
    BY <1>5, FreeIsReq DEF AskClosure, Ask
  <2> QED BY <2>1 DEF Next
<1>6. CASE PostLogout
  BY <1>6, FreeIsReq DEF PostLogout, Next, vars
<1>7. CASE \E r \in AppReq : Serve(r)
  BY <1>7, FreeIsReq DEF Serve, Next
<1>8. CASE Anybody
  BY <1>8 DEF Anybody
<1>9. CASE UNCHANGED allVars
  BY <1>9 DEF allVars
<1> QED BY <1>1, <1>2, <1>3, <1>4, <1>5, <1>6, <1>7, <1>8, <1>9
        DEF AppNext, Interceptor, Alone, PersonAlone

\* The app, the person and the network do nothing to the sessions that Sessions does
\* not allow anybody: what is proved of it holds of the app's.
THEOREM AppImplementsSessions == AppSpec => Spec
<1>1. AppInit => Init
  BY DEF AppInit
<1> QED BY <1>1, AppStep, PTL DEF AppSpec, Spec
-----------------------------------------------------------------------------
(***************************************************************************)
(* What the app has in hand.  New(x) is a pair that was issued for x and   *)
(* is on its way to the storage: in the answer, or about to be written.    *)
(***************************************************************************)
Waiting(x) == IF x = "person" THEN ui.pc = "wait" ELSE call[x].pc = "wait"
Saving == {"save", "save2"}
Posted == {"wait"} \cup Saving

New(x) ==
  IF line[x].got # 0 THEN line[x].got
  ELSE IF x = "person" THEN (IF ui.pc \in Saving THEN ui.n ELSE 0)
  ELSE IF call[x].pc \in Saving THEN call[x].n ELSE 0

\* Whoever is not waiting has no line; a slot answers one of them.
Lines ==
  /\ \A x \in Sender : ~Waiting(x) => line[x] = Failed
  /\ \A x \in Sender : line[x].slot # 0 => line[x].got = 0
  /\ \A x, y \in Sender : line[x].slot # 0 /\ line[x].slot = line[y].slot => x = y

\* What is stored, presented or given up was issued.
Known ==
  /\ store.refresh \in Issued \cup {0} /\ torn \subseteq Issued \cup {0}
  /\ \A c \in Call : CallAt(c, "post") => call[c].n \in Issued

\* A new pair is nowhere else yet.
Unused(t) ==
  /\ t \in Issued /\ ~Spent(t) /\ t \notin torn /\ t # store.refresh
  /\ \A c \in Call : CallAt(c, "post") => call[c].n # t
NewIsUnused == \A x \in Sender : New(x) # 0 => Unused(New(x))
NewIsOwn    == \A x, y \in Sender : New(x) # 0 /\ New(x) = New(y) => x = y

\* What is stored and spent is being replaced, or was when the refresh broke off.
StoredIsGood ==
  store.refresh \notin torn \cup {0} /\ Spent(store.refresh)
    => \E c \in Call : call[c].pc \in Posted

Core == /\ Lines /\ Known /\ NewIsUnused /\ NewIsOwn /\ StoredIsGood
        /\ SharedRefreshIsRun /\ HonestAppNeverReplays

AppInv ==
  /\ SessionInv /\ Shape
  /\ clients = "app" => Core
  /\ clients = "anybody" => \A c \in Call : call[c] = Resting

-----------------------------------------------------------------------------
(***************************************************************************)
(* Who refreshes.                                                          *)
(***************************************************************************)
\* Stepping within the refresh, or outside of it, changes nothing for the others.
LEMMA StepShared ==
  ASSUME Shape, SharedRefreshIsRun, NEW c \in Call, NEW q, SetCall(c, q),
         q.pc # "await", q.pc \in Refreshing <=> call[c].pc \in Refreshing
  PROVE  SharedRefreshIsRun'
<1>1. \A d \in Call : call'[d] = IF d = c THEN q ELSE call[d]
  BY DEF Shape, SetCall
<1>2. \A d \in Call : call'[d].pc \in Refreshing <=> call[d].pc \in Refreshing
  BY <1>1
<1>3. \A d \in Call : CallAt(d, "await")' => CallAt(d, "await")
  BY <1>1 DEF CallAt
<1> QED BY <1>2, <1>3 DEF SharedRefreshIsRun

\* Whoever is refused first refreshes, the rest share.
LEMMA JoinShared ==
  ASSUME Shape, SharedRefreshIsRun, NEW c \in Call, CallAt(c, "sent"), Unauthorized(c)
  PROVE  SharedRefreshIsRun'
<1> DEFINE running == \E d \in Call : call[d].pc \in Refreshing
<1>1. \A d \in Call : call'[d].pc =
        IF d = c THEN IF running THEN "await" ELSE "read" ELSE call[d].pc
  BY DEF Shape, SetCall, Unauthorized, Resting
<1>2. call[c].pc = "sent" /\ "sent" \notin Refreshing /\ "await" \notin Refreshing
      /\ "read" \in Refreshing
  BY DEF CallAt, Refreshing
<1>3. CASE running
  <2>1. \A d \in Call : call'[d].pc \in Refreshing <=> call[d].pc \in Refreshing
    BY <1>1, <1>2, <1>3
  <2> QED BY <1>3, <2>1 DEF SharedRefreshIsRun
<1>4. CASE ~running
  <2>1. \A d \in Call : call'[d].pc \in Refreshing <=> d = c
    BY <1>1, <1>2, <1>4
  <2> QED BY <2>1 DEF SharedRefreshIsRun
<1> QED BY <1>3, <1>4

\* The end of a refresh is the end for all who share it.
LEMMA CompleteShared ==
  ASSUME Shape, SharedRefreshIsRun, NEW c \in Call, call[c].pc \in Refreshing,
         NEW pc \in {"replay", "expired", "thrown"}, Complete(c, pc)
  PROVE  SharedRefreshIsRun'
<1>1. \A d \in Call : call'[d].pc \in Refreshing \cup {"await"} =>
        d # c /\ call[d].pc # "await" /\ call'[d] = call[d]
  BY DEF Complete, Resting, Refreshing, CallAt
<1>2. \A d \in Call : ~(call'[d].pc \in Refreshing)
  BY <1>1 DEF SharedRefreshIsRun
<1>3. \A d \in Call : ~CallAt(d, "await")'
  BY <1>1 DEF CallAt
<1> QED BY <1>2, <1>3 DEF SharedRefreshIsRun

-----------------------------------------------------------------------------
(***************************************************************************)
(* Steps of the app that hand out nothing and present nothing.             *)
(***************************************************************************)
Settles ==
  /\ UNCHANGED vars
  /\ torn \subseteq torn' /\ torn' \subseteq torn \cup {store.refresh}
  /\ store'.refresh \in {store.refresh, 0}
  /\ \A x \in Sender : /\ New(x)' \in {New(x), 0}
                       /\ line'[x] \in {line[x], Failed}
                       /\ ~Waiting(x)' => line'[x] = Failed
  /\ \A c \in Call : CallAt(c, "post")' => call'[c] = call[c]
  /\ store'.refresh \notin torn' \cup {0} /\ (\E c \in Call : call[c].pc \in Posted)
       => \E c \in Call : call'[c].pc \in Posted

LEMMA SettlingKeeps ==
  ASSUME Core, Settles, SharedRefreshIsRun'
  PROVE  Core'
<1>1. Issued' = Issued /\ \A t : Spent(t)' <=> Spent(t)
  BY DEF Settles, vars, Issued, Spent
<1>2. \A c \in Call : CallAt(c, "post")' => CallAt(c, "post") /\ call'[c] = call[c]
  BY DEF Settles, CallAt
<1>3. Lines'
  BY DEF Core, Settles, Lines, Failed
<1>4. Known'
  BY <1>1, <1>2 DEF Core, Settles, Known
<1>5. NewIsUnused'
  BY <1>1, <1>2 DEF Core, Settles, NewIsUnused, Unused
<1>6. NewIsOwn'
  BY DEF Core, Settles, NewIsOwn
<1>7. StoredIsGood'
  BY <1>1 DEF Core, Settles, StoredIsGood
<1>8. HonestAppNeverReplays'
  BY <1>1, <1>2 DEF Core, Settles, HonestAppNeverReplays
<1> QED BY <1>3, <1>4, <1>5, <1>6, <1>7, <1>8 DEF Core

\* A step of one call that refreshes nothing.
LEMMA CallingSettles ==
  ASSUME Shape, Core, NEW c \in Call, \A d \in Call : d # c => call'[d] = call[d],
         ~(call[c].pc \in Posted), ~(call'[c].pc \in Posted \cup {"post"}),
         UNCHANGED <<vars, store, line, torn>>,
         UNCHANGED ui \/ (~(ui.pc \in Posted) /\ ui'.n = 0 /\ ui'.pc # "wait")
  PROVE  Settles
<1>1. \A d \in Call : d # "person"
  BY AppAssumption
<1>2. \A x \in Sender : Waiting(x)' => Waiting(x) \/ x = "person"
  BY <1>1 DEF Waiting, Posted, Sender
<1>3. \A x \in Sender : ~Waiting(x)' => line[x] = Failed
  BY <1>1 DEF Core, Lines, Waiting, Posted, Sender
<1>4. \A x \in Sender : New(x)' \in {New(x), 0}
  BY <1>1 DEF New, Posted, Saving, Sender
<1>5. \A d \in Call : CallAt(d, "post")' => call'[d] = call[d]
  BY DEF CallAt
<1> QED BY <1>3, <1>4, <1>5 DEF Settles

LEMMA SendCore ==
  ASSUME Shape, Core, NEW c \in Call, Send(c)
  PROVE  Core'
<1>1. /\ call[c].pc = "idle" /\ call'[c].pc = "sent" /\ UNCHANGED <<vars, store, ui, line, torn>>
      /\ \A d \in Call : d # c => call'[d] = call[d]
  BY DEF Send, Local, Resting, SetCall, Shape
<1>2. Settles
  BY <1>1, CallingSettles DEF Posted, Saving
<1>3. SharedRefreshIsRun'
  BY StepShared DEF Core, Send, Resting, Refreshing
<1> QED BY <1>2, <1>3, SettlingKeeps

\* A call that ends may be the one AuthNotifier.build waits for.
LEMMA EndSettles ==
  ASSUME Shape, Core, NEW c \in Call, NEW ok, End(c, ok), ~(call[c].pc \in Posted),
         UNCHANGED <<vars, store, line, torn>>
  PROVE  Settles
<1>1. call'[c].pc = "idle" /\ \A d \in Call : d # c => call'[d] = call[d]
  BY DEF End, Resting, SetCall, Shape
<1>2. UNCHANGED ui \/ (~(ui.pc \in Posted) /\ ui'.n = 0 /\ ui'.pc # "wait")
  BY DEF End, Person, NoAsk, Posted, Saving
<1> QED BY <1>1, <1>2, CallingSettles DEF Posted, Saving

LEMMA AnswerCallCore ==
  ASSUME Shape, Core, NEW c \in Call, AnswerCall(c)
  PROVE  Core'
<1>1. call[c].pc = "sent" /\ UNCHANGED <<vars, store, line, torn>>
  BY DEF AnswerCall, Local, CallAt
<1>2. CASE Unauthorized(c) /\ UNCHANGED ui
  <2>1. call'[c].pc \in {"await", "read"} /\ \A d \in Call : d # c => call'[d] = call[d]
    BY <1>2 DEF Unauthorized, Resting, SetCall, Shape
  <2>2. Settles
    BY <1>1, <1>2, <2>1, CallingSettles DEF Posted, Saving
  <2>3. SharedRefreshIsRun'
    BY <1>1, <1>2, JoinShared DEF Core, CallAt
  <2> QED BY <2>2, <2>3, SettlingKeeps
<1>3. CASE \E ok : End(c, ok)
  <2>1. Settles
    BY <1>1, <1>3, EndSettles DEF Posted, Saving
  <2>2. SharedRefreshIsRun'
    BY <1>1, <1>3, StepShared DEF Core, End, Resting, Refreshing
  <2> QED BY <2>1, <2>2, SettlingKeeps
<1> QED BY <1>2, <1>3 DEF AnswerCall

\* A refresh that breaks off leaves the token it posted to torn.
LEMMA TearKeeps ==
  ASSUME Shape, Core, NEW c \in Call, call[c].pc \in Posted, Tear(c),
         UNCHANGED <<vars, store, ui>>, line' = [line EXCEPT ![c] = Failed]
  PROVE  Core'
<1>1. \A d \in Call : /\ d # "person"
                      /\ call'[d] = call[d] \/ (call'[d].pc = "thrown" /\ call'[d].n = 0)
  BY AppAssumption DEF Tear, Throw, Complete, Resting
<1>2. call'[c].pc = "thrown" /\ c \in Sender
  BY DEF Tear, Throw, Complete, Resting, Sender
<1>3. \A d \in Call : call'[d] # call[d] => d = c \/ call[d].pc = "await"
  BY DEF Tear, Throw, Complete, CallAt
<1>4. \A x \in Sender : line'[x] = IF x = c THEN Failed ELSE line[x]
  BY <1>2 DEF Shape
<1>5. \A x \in Sender : ~Waiting(x)' => line'[x] = Failed
  BY <1>1, <1>3, <1>4 DEF Core, Lines, Waiting, Sender
<1>6. \A x \in Sender : New(x)' \in {New(x), 0}
  <2>1. New("person")' = New("person")
    <3>1. "person" # c /\ "person" \in Sender
      BY <1>1 DEF Sender
    <3> QED BY <1>4, <3>1 DEF New
  <2>2. ASSUME NEW d \in Call, call'[d] = call[d], d # c PROVE New(d)' = New(d)
    <3>1. line'[d] = line[d]
      BY <1>4, <2>2 DEF Sender
    <3> QED BY <1>1, <2>2, <3>1 DEF New
  <2>3. ASSUME NEW d \in Call, call'[d].pc = "thrown", d # c PROVE New(d)' \in {New(d), 0}
    <3>1. line'[d] = line[d]
      BY <1>4, <2>3 DEF Sender
    <3> QED BY <1>1, <2>3, <3>1 DEF New, Saving
  <2>4. New(c)' = 0
    BY <1>1, <1>2, <1>4 DEF New, Saving, Failed
  <2> QED BY <1>1, <2>1, <2>2, <2>3, <2>4 DEF Sender
<1>7. \A d \in Call : CallAt(d, "post")' => call'[d] = call[d]
  BY <1>1 DEF CallAt
<1>8. torn' = torn \cup {store.refresh} /\ store' = store
  BY DEF Tear
<1>9. Settles
  BY <1>4, <1>5, <1>6, <1>7, <1>8 DEF Settles
<1>10. SharedRefreshIsRun'
  BY CompleteShared DEF Core, Tear, Throw, Posted, Saving, Refreshing
<1> QED BY <1>9, <1>10, SettlingKeeps

LEMMA TakeAnswerCore ==
  ASSUME Shape, Core, NEW c \in Call, TakeAnswer(c)
  PROVE  Core'
<1>1. CASE Tear(c)
  BY <1>1, TearKeeps DEF TakeAnswer, Local, CallAt, Posted
<1>2. CASE SetCall(c, [pc |-> "save", n |-> line[c].got]) /\ UNCHANGED torn
  <2>1. Settles
    BY <1>2, AppAssumption DEF Settles, Core, Lines, Shape, TakeAnswer, Local, SetCall,
       CallAt, Failed, Sender, Refreshing, Saving, Posted, Waiting, New
  <2>2. SharedRefreshIsRun'
    BY <1>2, StepShared DEF Core, TakeAnswer, CallAt, Resting, Refreshing, Shape
  <2> QED BY <2>1, <2>2, SettlingKeeps
<1> QED BY <1>1, <1>2 DEF TakeAnswer

\* Whoever saves has had the answer.
LEMMA SavingHasNoLine ==
  ASSUME Shape, Core, NEW c \in Call, call[c].pc \in Saving
  PROVE  c \in Sender /\ c # "person" /\ line[c] = Failed
                     /\ line = [line EXCEPT ![c] = Failed]
<1>1. c \in Sender /\ c # "person" /\ line[c] = Failed
  BY AppAssumption DEF Core, Lines, Waiting, Saving, Sender
<1> QED BY <1>1 DEF Shape

LEMMA SaveAccessCore ==
  ASSUME Shape, Core, NEW c \in Call, SaveAccess(c)
  PROVE  Core'
<1>1. call[c].pc \in Saving /\ call[c].pc = "save"
  BY DEF SaveAccess, CallAt, Saving
<1>2. CASE Tear(c) /\ UNCHANGED store
  BY <1>1, <1>2, SavingHasNoLine, TearKeeps DEF SaveAccess, Local, Posted
<1>3. CASE /\ store' = [store EXCEPT !.access = call[c].n]
           /\ SetCall(c, [call[c] EXCEPT !.pc = "save2"]) /\ UNCHANGED torn
  <2>1. Settles
    BY <1>3, AppAssumption DEF Settles, Core, Lines, Shape, SaveAccess, Local, SetCall,
       CallAt, Failed, Sender, Refreshing, Saving, Posted, Waiting, New
  <2>2. SharedRefreshIsRun'
    BY <1>1, <1>3, StepShared DEF Core, Resting, Refreshing, Shape
  <2> QED BY <2>1, <2>2, SettlingKeeps
<1> QED BY <1>2, <1>3 DEF SaveAccess

LEMMA ReplayCore ==
  ASSUME Shape, Core, NEW c \in Call, Replay(c)
  PROVE  Core'
<1>1. call[c].pc = "replay" /\ UNCHANGED <<vars, store, line, torn>> /\ \E ok : End(c, ok)
  BY DEF Replay, Local, CallAt
<1>2. Settles
  BY <1>1, EndSettles DEF Posted, Saving
<1>3. SharedRefreshIsRun'
  BY <1>1, StepShared DEF Core, End, Resting, Refreshing
<1> QED BY <1>2, <1>3, SettlingKeeps

LEMMA ThrownCore ==
  ASSUME Shape, Core, NEW c \in Call, Thrown(c)
  PROVE  Core'
<1>1. call[c].pc = "thrown" /\ UNCHANGED <<vars, store, line, torn>> /\ End(c, FALSE)
  BY DEF Thrown, Local, CallAt
<1>2. Settles
  BY <1>1, EndSettles DEF Posted, Saving
<1>3. SharedRefreshIsRun'
  BY <1>1, StepShared DEF Core, End, Resting, Refreshing
<1> QED BY <1>2, <1>3, SettlingKeeps

LEMMA ForceLogoutCore ==
  ASSUME Shape, Core, NEW c \in Call, ForceLogout(c)
  PROVE  Core'
<1>1. /\ call[c].pc = "expired" /\ call'[c].pc \in {"expired2", "thrown"}
      /\ \A d \in Call : d # c => call'[d] = call[d]
      /\ UNCHANGED <<vars, ui, line, torn>> /\ store'.refresh = store.refresh
  BY DEF ForceLogout, Local, CallAt, SetCall, Shape
<1>2. Settles
  BY <1>1, AppAssumption DEF Settles, Core, Lines, CallAt, Sender, Saving, Posted, Waiting, New
<1>3. SharedRefreshIsRun'
  BY StepShared DEF Core, ForceLogout, CallAt, Resting, Refreshing, Shape
<1> QED BY <1>2, <1>3, SettlingKeeps

LEMMA LoggedOutCore ==
  ASSUME Shape, Core, NEW c \in Call, LoggedOut(c)
  PROVE  Core'
<1>1. Settles
  BY AppAssumption DEF Settles, Core, Lines, Shape, LoggedOut, Local, SetCall, CallAt,
     Resting, Failed, NoAsk, Person, Sender, Refreshing, Saving, Posted, Waiting, New
<1>2. SharedRefreshIsRun'
  BY StepShared DEF Core, LoggedOut, CallAt, Resting, Refreshing, Shape
<1> QED BY <1>1, <1>2, SettlingKeeps

LEMMA BuildCore ==
  ASSUME Shape, Core, NEW c \in Call, Build(c)
  PROVE  Core'
<1>1. Settles
  <2>1. /\ call[c].pc = "idle" /\ call'[c].pc \in {"idle", "sent"}
        /\ UNCHANGED <<vars, store, line, torn>>
        /\ \A d \in Call : d # c => call'[d] = call[d]
    BY DEF Build, Local, Resting, SetCall, Shape
  <2>2. ~(ui.pc \in Posted) /\ ui'.n = 0 /\ ui'.pc # "wait"
    BY DEF Build, Person, NoAsk, Posted, Saving
  <2> QED BY <2>1, <2>2, CallingSettles DEF Posted, Saving
<1>2. SharedRefreshIsRun'
  <2>1. CASE UNCHANGED call
    BY <2>1 DEF Core, SharedRefreshIsRun, CallAt
  <2>2. CASE SetCall(c, [pc |-> "sent", n |-> store.access])
    BY <2>2, StepShared DEF Core, Build, Resting, Refreshing
  <2> QED BY <2>1, <2>2 DEF Build
<1> QED BY <1>1, <1>2, SettlingKeeps

LEMMA GiveUpCore ==
  ASSUME Shape, Core, NEW x \in Sender, GiveUp(x)
  PROVE  Core'
<1>1. Settles
  BY AppAssumption DEF Settles, Core, Lines, Shape, GiveUp, Local, CallAt, Failed,
     Sender, Refreshing, Saving, Posted, Waiting, New
<1>2. SharedRefreshIsRun'
  BY DEF Core, SharedRefreshIsRun, GiveUp, CallAt
<1> QED BY <1>1, <1>2, SettlingKeeps

LEMMA RestartCore ==
  ASSUME Shape, Core, Restart
  PROVE  Core'
<1>1. Settles
  BY AppAssumption DEF Settles, Core, Lines, Shape, Restart, Local, CallAt, Resting,
     Failed, NoAsk, Person, Sender, Refreshing, Saving, Posted, Waiting, New
<1>2. SharedRefreshIsRun'
  BY DEF Core, SharedRefreshIsRun, Restart, CallAt, Resting, Refreshing
<1> QED BY <1>1, <1>2, SettlingKeeps

LEMMA ReadForLogoutCore ==
  ASSUME Shape, Core, ReadForLogout
  PROVE  Core'
<1>1. Settles
  BY AppAssumption DEF Settles, Core, Lines, Shape, ReadForLogout, Local, CallAt,
     Failed, NoAsk, Person, Sender, Refreshing, Saving, Posted, Waiting, New
<1>2. SharedRefreshIsRun'
  BY DEF Core, SharedRefreshIsRun, ReadForLogout, CallAt, Resting, Refreshing
<1> QED BY <1>1, <1>2, SettlingKeeps

LEMMA PersonAnsweredCore ==
  ASSUME Shape, Core, PersonAnswered
  PROVE  Core'
<1>1. /\ UNCHANGED <<vars, store, call, torn>> /\ ui.pc = "wait"
      /\ line' = [line EXCEPT !["person"] = Failed]
  BY DEF PersonAnswered, Local
<1>2. (ui'.pc = "save" /\ ui'.n = line["person"].got) \/ ui'.pc = "idle"
  <2>1. CASE ui' = [ui EXCEPT !.pc = "save", !.n = line["person"].got]
    BY <2>1 DEF Shape
  <2>2. CASE ui' = NoAsk
    BY <2>2 DEF NoAsk
  <2> QED BY <2>1, <2>2 DEF PersonAnswered, Person
<1>3. "person" \in Sender /\ \A c \in Call : c # "person"
  BY AppAssumption DEF Sender
<1>4. \A x \in Sender : line'[x] = IF x = "person" THEN Failed ELSE line[x]
  BY <1>1 DEF Shape
<1>5. \A x \in Sender : New(x)' \in {New(x), 0}
  BY <1>1, <1>2, <1>3, <1>4 DEF New, Saving, Failed, Sender
<1>6. \A x \in Sender : ~Waiting(x)' => line'[x] = Failed
  BY <1>1, <1>3, <1>4 DEF Core, Lines, Waiting, Sender
<1>7. Settles
  BY <1>1, <1>4, <1>5, <1>6 DEF Settles
<1>8. SharedRefreshIsRun'
  BY <1>1 DEF Core, SharedRefreshIsRun, CallAt
<1> QED BY <1>7, <1>8, SettlingKeeps

LEMMA PersonSavesAccessCore ==
  ASSUME Shape, Core, PersonSavesAccess
  PROVE  Core'
<1>1. Settles
  BY AppAssumption DEF Settles, Core, Lines, Shape, PersonSavesAccess, Local, CallAt,
     Failed, NoAsk, Person, Sender, Refreshing, Saving, Posted, Waiting, New
<1>2. SharedRefreshIsRun'
  BY DEF Core, SharedRefreshIsRun, PersonSavesAccess, CallAt, Resting, Refreshing
<1> QED BY <1>1, <1>2, SettlingKeeps

LEMMA ReadRefreshCore ==
  ASSUME Shape, Core, NEW c \in Call, ReadRefresh(c)
  PROVE  Core'
<1>1. CallAt(c, "read") /\ call[c].pc \in Refreshing /\ UNCHANGED <<vars, store, ui, line, torn>>
  BY DEF ReadRefresh, Local, CallAt, Refreshing
<1>2. CASE \E pc \in {"expired", "thrown"} : Complete(c, pc)
  <2>1. PICK pc \in {"expired", "thrown"} : Complete(c, pc)
    BY <1>2
  <2>2. Settles
    <3>1. \A d \in Call : /\ d # "person"
                          /\ call'[d] = call[d] \/ (call'[d].pc = pc /\ ~(call[d].pc \in Posted))
      BY <1>1, <2>1, AppAssumption DEF Complete, CallAt, Resting, Posted, Saving
    <3>2. \A x \in Sender : New(x)' \in {New(x), 0} /\ (Waiting(x)' <=> Waiting(x))
      BY <1>1, <3>1 DEF New, Waiting, Posted, Saving, Sender
    <3>3. \A d \in Call : CallAt(d, "post")' => call'[d] = call[d]
      BY <3>1 DEF CallAt
    <3>4. \A x \in Sender : ~Waiting(x) => line[x] = Failed
      BY DEF Core, Lines
    <3>5. \A d \in Call : call[d].pc \in Posted => call'[d] = call[d]
      BY <3>1
    <3> QED BY <1>1, <3>2, <3>3, <3>4, <3>5 DEF Settles
  <2>3. SharedRefreshIsRun'
    BY <1>1, <2>1, CompleteShared DEF Core
  <2> QED BY <2>2, <2>3, SettlingKeeps
<1>3. CASE store.refresh # 0 /\ SetCall(c, [pc |-> "post", n |-> store.refresh])
  <2> DEFINE q == [pc |-> "post", n |-> store.refresh]
  <2>1. \A d \in Call : call'[d] = IF d = c THEN q ELSE call[d]
    BY <1>3 DEF SetCall, Shape
  <2>2. SharedRefreshIsRun'
    BY <1>1, <1>3, StepShared DEF Core, Refreshing
  <2>3. Issued' = Issued /\ \A t : Spent(t)' <=> Spent(t)
    BY <1>1 DEF vars, Issued, Spent
  <2>4. \A x \in Sender : New(x)' = New(x) /\ (Waiting(x)' <=> Waiting(x))
    BY <1>1, <2>1, AppAssumption DEF New, Waiting, Saving, Sender, CallAt
  <2>5. \A d \in Call : d # c => ~(call[d].pc \in Refreshing)
    BY <1>1 DEF Core, SharedRefreshIsRun
  <2>6. store.refresh \notin torn => ~Spent(store.refresh)
    BY <1>1, <1>3, <2>5 DEF Core, StoredIsGood, Posted, Saving, Refreshing, CallAt
  <2>7. Lines' /\ Known' /\ NewIsOwn' /\ NewIsUnused'
    BY <1>1, <1>3, <2>1, <2>3, <2>4
       DEF Core, Lines, Known, NewIsOwn, NewIsUnused, Unused, CallAt
  <2>8. StoredIsGood' /\ HonestAppNeverReplays'
    BY <1>1, <2>1, <2>3, <2>6 DEF Core, StoredIsGood, HonestAppNeverReplays, CallAt
  <2> QED BY <2>2, <2>7, <2>8 DEF Core
<1> QED BY <1>2, <1>3 DEF ReadRefresh, Release, Throw

\* A pair reaches the storage.
Stores(x, n) ==
  /\ UNCHANGED <<vars, line, torn>> /\ store'.refresh = n
  /\ New(x)' = 0 /\ New(x) = n
  /\ \A y \in Sender : y # x => New(y)' = New(y)
  /\ \A y \in Sender : Waiting(y)' <=> Waiting(y)
  /\ \A c \in Call : CallAt(c, "post")' => call'[c] = call[c]

LEMMA StoringKeeps ==
  ASSUME Core, NEW x \in Sender, NEW n, Stores(x, n), SharedRefreshIsRun'
  PROVE  Core'
<1>1. Issued' = Issued /\ \A t : Spent(t)' <=> Spent(t)
  BY DEF Stores, vars, Issued, Spent
<1>2. \A c \in Call : CallAt(c, "post")' => CallAt(c, "post") /\ call'[c] = call[c]
  BY DEF Stores, CallAt
<1>3. n # 0 => Unused(n)
  BY DEF Core, Stores, NewIsUnused
<1>4. Lines' /\ NewIsOwn'
  BY DEF Core, Stores, Lines, NewIsOwn
<1>5. Known' /\ StoredIsGood' /\ HonestAppNeverReplays'
  BY <1>1, <1>2, <1>3
     DEF Core, Stores, Known, StoredIsGood, HonestAppNeverReplays, Unused
<1>6. NewIsUnused'
  BY <1>1, <1>2, <1>3 DEF Core, Stores, NewIsUnused, NewIsOwn, Unused
<1> QED BY <1>4, <1>5, <1>6 DEF Core

LEMMA SaveRefreshCore ==
  ASSUME Shape, Core, NEW c \in Call, SaveRefresh(c)
  PROVE  Core'
<1>1. call[c].pc = "save2" /\ call[c].pc \in Saving
  BY DEF SaveRefresh, CallAt, Saving
<1>2. c \in Sender /\ c # "person" /\ line[c] = Failed
  BY <1>1, SavingHasNoLine
<1>3. CASE Tear(c) /\ UNCHANGED store
  BY <1>1, <1>3, SavingHasNoLine, TearKeeps DEF SaveRefresh, Local, Posted
<1>4. CASE /\ store' = [store EXCEPT !.refresh = call[c].n]
           /\ Release(c, call[c].n) /\ UNCHANGED torn
  <2>1. Stores(c, call[c].n)
    BY <1>1, <1>2, <1>4, AppAssumption DEF Stores, Shape, SaveRefresh, Local, Release,
       Complete, CallAt, Resting, Failed, Sender, Saving, Waiting, New
  <2>2. SharedRefreshIsRun'
    BY <1>1, <1>4, CompleteShared DEF Core, Release, Refreshing
  <2> QED BY <1>2, <2>1, <2>2, StoringKeeps
<1> QED BY <1>3, <1>4 DEF SaveRefresh

LEMMA PersonSavesRefreshCore ==
  ASSUME Shape, Core, PersonSavesRefresh
  PROVE  Core'
<1>1. "person" \in Sender /\ ui.pc = "save2" /\ \A c \in Call : c # "person"
  BY AppAssumption DEF Sender, PersonSavesRefresh
<1>2. line["person"] = Failed
  BY <1>1 DEF Core, Lines, Waiting
<1>3. SharedRefreshIsRun'
  BY DEF Core, SharedRefreshIsRun, PersonSavesRefresh, CallAt
<1>4. CASE store' = [store EXCEPT !.refresh = ui.n]
  <2>1. Stores("person", ui.n)
    BY <1>1, <1>2, <1>4 DEF Stores, Shape, PersonSavesRefresh, Local, Person, NoAsk,
       CallAt, Failed, Sender, Saving, Waiting, New
  <2> QED BY <1>1, <1>3, <2>1, StoringKeeps
<1>5. CASE UNCHANGED store
  <2>1. Settles
    BY <1>1, <1>2, <1>5 DEF Settles, Core, Lines, Shape, PersonSavesRefresh, Local,
       Person, NoAsk, CallAt, Failed, Sender, Saving, Posted, Waiting, New
  <2> QED BY <1>3, <2>1, SettlingKeeps
<1> QED BY <1>4, <1>5 DEF PersonSavesRefresh

-----------------------------------------------------------------------------
(***************************************************************************)
(* Steps of the server, and requests that reach it.                        *)
(***************************************************************************)
\* Short of issuing, a request that is worked on spends nothing.
LEMMA WorkSpendsNothing ==
  ASSUME SessionInv, NEW r \in Req,
         LoadUser(r) \/ Revoke(r) \/ WritePassword(r) \/ CloseAccount(r) \/ RevokeAll(r) \/ Abort(r)
  PROVE  Issued' = Issued /\ \A t : Spent(t)' => Spent(t)
<1>1. req \in [Req -> Request] /\ \E n \in 0..MaxTokens : tokens \in [1..n -> Token]
  BY DEF SessionInv, TypeOK
<1>2. Issued' = Issued /\ \A s \in Issued : tokens'[s].parent = tokens[s].parent
  <2>1. CASE UNCHANGED tokens
    BY <2>1 DEF Issued
  <2>2. CASE Set(req[r].token, "revoked")
    BY <1>1, <2>2 DEF Set, Issued, Token
  <2>3. CASE RevokeAll(r)
    BY <1>1, <2>3 DEF RevokeAll, Issued, Token
  <2> QED BY <2>1, <2>2, <2>3 DEF LoadUser, Revoke, WritePassword, CloseAccount, Abort
<1>3. \A p \in Req : \/ req'[p].op = req[p].op /\ req'[p].token = req[p].token
                     \/ req'[p].op = "idle"
  <2>1. \E q : /\ Become(r, q)
               /\ (q.op = req[r].op /\ q.token = req[r].token) \/ q.op = "idle"
    <3>1. CASE Answer(r)
      BY <3>1 DEF Answer, Idle
    <3>2. CASE \E pc : Goto(r, pc)
      BY <1>1, <3>2 DEF Goto, Request
    <3>3. CASE Sweep(r)
      <4> DEFINE q == [req[r] EXCEPT !.pc = "sweep", !.mark = Cardinality(Issued)]
      <4>1. q.op = req[r].op /\ q.token = req[r].token
        BY <1>1 DEF Request
      <4>2. Become(r, q)
        BY <3>3 DEF Sweep
      <4> HIDE DEF q
      <4> QED BY <4>1, <4>2
    <3> QED BY <3>1, <3>2, <3>3
            DEF LoadUser, Revoke, WritePassword, CloseAccount, RevokeAll, Abort
  <2> QED BY <1>1, <2>1 DEF Become
<1> QED BY <1>2, <1>3 DEF Spent

LEMMA IssueSpendsNothing ==
  ASSUME SessionInv, NEW r \in Req, IssueRefreshToken(r)
  PROVE  /\ Issued \subseteq Issued' /\ \A t \in Issued : Spent(t)' => Spent(t)
         /\ \E got : /\ got = Cardinality(Issued) + 1
                     /\ got \in Issued' \ Issued /\ ~Spent(got)'
<1>1. PICK n \in 0..MaxTokens : /\ tokens \in [1..n -> Token] /\ Issued = 1..n
                                /\ Cardinality(Issued) = n
  BY Table DEF SessionInv
<1>2. n \in Nat /\ Issued' = 1..(n + 1)
  BY <1>1, SessionAssumption DEF IssueRefreshToken, Issued
<1>3. /\ \A s \in 1..n : tokens'[s] = tokens[s]
      /\ tokens'[n + 1].parent = req[r].token
  BY <1>1, <1>2 DEF IssueRefreshToken
<1>4. \A p \in Req : req'[p] = IF p = r THEN Idle ELSE req[p]
  BY DEF IssueRefreshToken, Answer, Become, SessionInv, TypeOK
<1>5. \A p \in Req : IF req[p].op = "refresh" THEN req[p].token \in 1..n
                     ELSE p # r \/ req[p].token = 0
  BY <1>1 DEF SessionInv, Fits, IssueRefreshToken, At, Issued
<1>6. \A s \in 1..n : tokens[s].parent \in 1..n \cup {0}
  BY <1>1 DEF SessionInv, ParentsExist
<1>7. \A s \in 1..(n + 1) : s \in 1..n \/ s = n + 1
  BY <1>2
<1>8. \A t \in 1..n : Spent(t)' => Spent(t)
  <2> SUFFICES ASSUME NEW t \in 1..n, Spent(t)' PROVE Spent(t)
    OBVIOUS
  <2>1. t # 0
    BY <1>2
  <2>2. CASE \E s \in Issued' : tokens'[s].parent = t
    BY <1>1, <1>2, <1>3, <1>5, <1>7, <2>1, <2>2 DEF Spent
  <2>3. CASE \E p \in Req : req'[p].op = "refresh" /\ req'[p].token = t
    BY <1>4, <2>3 DEF Spent, Idle
  <2> QED BY <2>2, <2>3 DEF Spent
<1>9. ~Spent(n + 1)'
  <2>1. n + 1 \notin 1..n \cup {0}
    BY <1>2
  <2>2. \A s \in Issued' : tokens'[s].parent # n + 1
    BY <1>2, <1>3, <1>5, <1>6, <1>7, <2>1
  <2>3. \A p \in Req : ~(req'[p].op = "refresh" /\ req'[p].token = n + 1)
    BY <1>4, <1>5, <2>1 DEF Idle
  <2>4. Spent(n + 1)' => \/ \E s \in Issued' : tokens'[s].parent = n + 1
                         \/ \E p \in Req : req'[p].op = "refresh" /\ req'[p].token = n + 1
    BY DEF Spent
  <2> QED BY <2>2, <2>3, <2>4
<1> HIDE DEF Spent
<1>10. n + 1 = Cardinality(Issued) + 1 /\ n + 1 \in Issued' \ Issued
  BY <1>1, <1>2
<1>11. Issued \subseteq Issued' /\ Issued = 1..n
  BY <1>1, <1>2
<1> QED BY <1>8, <1>9, <1>10, <1>11

\* The server goes on; a pair it hands out is a new one.
LEMMA AnsweringKeeps ==
  ASSUME Shape, Core, UNCHANGED <<store, call, ui, torn>>, NEW r, r # 0,
         Issued \subseteq Issued', \A t \in Issued : Spent(t)' => Spent(t), 0 \notin Issued,
         NEW got, got # 0 => got \in Issued' \ Issued /\ ~Spent(got)',
         NEW ok, UNCHANGED line \/ Hear(r, ok, got)
  PROVE  Core'
<1>1. \A x \in Sender : \/ line'[x] = line[x]
                        \/ line[x].slot = r /\ line'[x] = [slot |-> 0, ok |-> ok, got |-> got]
  BY DEF Hear
<1>2. \A x \in Sender : Waiting(x)' <=> Waiting(x)
  BY DEF Waiting
<1>3. \A x \in Sender : line[x].slot = r => Waiting(x) /\ New(x) = 0
  BY AppAssumption DEF Core, Lines, Failed, New, Waiting, Saving, Sender
<1>4. \A x \in Sender : \/ New(x)' = New(x)
                        \/ line[x].slot = r /\ New(x)' \in {got, 0}
  BY <1>1, <1>3, AppAssumption DEF New, Waiting, Saving, Sender
<1>5. SharedRefreshIsRun'
  BY DEF Core, SharedRefreshIsRun, CallAt
<1>6. Lines'
  BY <1>1, <1>2, <1>3 DEF Core, Lines
<1>7. \A t \in Issued : Unused(t) => Unused(t)'
  BY DEF Unused, CallAt
<1>8. got # 0 => Unused(got)'
  BY DEF Core, Known, Unused, CallAt
<1>9. NewIsUnused'
  BY <1>4, <1>7, <1>8 DEF Core, NewIsUnused, Unused
<1>10. NewIsOwn'
  <2>1. \A x \in Sender : New(x) # 0 => New(x) \in Issued
    BY DEF Core, NewIsUnused, Unused
  <2>2. \A x, y \in Sender : line[x].slot = r /\ line[y].slot = r => x = y
    BY DEF Core, Lines
  <2> QED BY <1>4, <2>1, <2>2 DEF Core, NewIsOwn
<1>11. Known' /\ StoredIsGood' /\ HonestAppNeverReplays'
  BY DEF Core, Known, StoredIsGood, HonestAppNeverReplays, CallAt
<1> QED BY <1>5, <1>6, <1>9, <1>10, <1>11 DEF Core

LEMMA ServeCore ==
  ASSUME SessionInv, Shape, Core, NEW r \in AppReq, Serve(r)
  PROVE  Core'
<1>1. r \in Req /\ r # 0 /\ UNCHANGED <<store, call, ui, torn>>
  BY AppAssumption DEF Serve
<1>2. 0 \notin Issued
  BY Table DEF SessionInv
<1>3. CASE /\ \/ LoadUser(r) \/ Revoke(r) \/ WritePassword(r) \/ CloseAccount(r)
              \/ RevokeAll(r) \/ Abort(r)
           /\ \E ok : UNCHANGED line \/ Hear(r, ok, 0)
  <2>1. Issued' = Issued /\ \A t : Spent(t)' => Spent(t)
    BY <1>1, <1>3, WorkSpendsNothing
  <2>2. Issued \subseteq Issued' /\ \A t \in Issued : Spent(t)' => Spent(t)
    BY <2>1
  <2> QED BY <1>1, <1>2, <1>3, <2>2, AnsweringKeeps
<1>4. CASE IssueRefreshToken(r) /\ Hear(r, TRUE, Cardinality(Issued) + 1)
  <2>1. Issued \subseteq Issued' /\ \A t \in Issued : Spent(t)' => Spent(t)
    BY <1>1, <1>4, IssueSpendsNothing
  <2>2. PICK got : got = Cardinality(Issued) + 1 /\ got \in Issued' \ Issued /\ ~Spent(got)'
    BY <1>1, <1>4, IssueSpendsNothing
  <2>3. Hear(r, TRUE, got)
    BY <1>4, <2>2
  <2> QED BY <1>1, <1>2, <2>1, <2>2, <2>3, AnsweringKeeps
<1> QED BY <1>3, <1>4 DEF Serve

\* A request that arrives presents the token it came with, if it is to be rotated.
LEMMA ArrivalSpends ==
  ASSUME SessionInv, NEW r \in Req, NEW op, NEW pc, NEW n, Accept(r, op, pc, n)
  PROVE  /\ Issued' = Issued
         /\ \A t : Spent(t)' => Spent(t) \/ (op = "refresh" /\ t = n)
         /\ req'[r].token = n
<1>1. \A p \in Req : /\ p = r => req'[p].op = op /\ req'[p].token = n
                     /\ p # r => req'[p] = req[p]
  BY DEF Accept, Become, SessionInv, TypeOK
<1>2. UNCHANGED tokens
  BY DEF Accept
<1>3. ASSUME NEW t, Spent(t)' PROVE Spent(t) \/ (op = "refresh" /\ t = n)
  <2>1. CASE \E s \in Issued' : tokens'[s].parent = t
    BY <1>2, <2>1 DEF Issued, Spent
  <2>2. CASE \E p \in Req : req'[p].op = "refresh" /\ req'[p].token = t
    <3>1. PICK p \in Req : req'[p].op = "refresh" /\ req'[p].token = t
      BY <2>2
    <3>2. CASE p = r
      BY <1>1, <3>1, <3>2
    <3>3. CASE p # r
      BY <1>1, <3>1, <3>3 DEF Spent
    <3> QED BY <3>2, <3>3
  <2> QED BY <1>3, <2>1, <2>2 DEF Spent
<1>4. Issued' = Issued
  BY <1>2 DEF Issued
<1> QED BY <1>1, <1>3, <1>4

\* x asks, on a slot that answers nobody.
LEMMA HangingKeeps ==
  ASSUME Shape, Core, NEW x \in Sender, NEW r \in Free, Hang(x, r),
         ~Waiting(x), Waiting(x)', UNCHANGED <<store, torn>>,
         \A y \in Sender : New(y)' = New(y) /\ (y # x => (Waiting(y)' <=> Waiting(y))),
         SharedRefreshIsRun', Issued' = Issued,
         \A c \in Call : CallAt(c, "post")' => call'[c] = call[c],
         \A t : Spent(t)' => Spent(t) \/ \E c \in Call : CallAt(c, "post") /\ call[c].n = t,
         \/ UNCHANGED call /\ (\A t : Spent(t)' => Spent(t))
         \/ (\A c \in Call : ~CallAt(c, "post")') /\ \E c \in Call : call'[c].pc \in Posted
  PROVE  Core'
<1>1. /\ line'[x] = [slot |-> r, ok |-> FALSE, got |-> 0]
      /\ \A y \in Sender : line[y].slot # r /\ (y # x => line'[y] = line[y])
  BY DEF Shape, Hang, Free
<1>2. Lines'
  BY <1>1 DEF Core, Lines, Failed
<1>3. \A c \in Call : CallAt(c, "post")' => CallAt(c, "post") /\ call'[c] = call[c]
  BY DEF CallAt
<1>4. Known' /\ NewIsOwn'
  BY <1>3 DEF Core, Known, NewIsOwn
<1>5. \A t : Unused(t) => Unused(t)'
  BY <1>3 DEF Unused
<1>6. NewIsUnused'
  BY <1>5 DEF Core, NewIsUnused
<1>7. StoredIsGood' /\ HonestAppNeverReplays'
  <2>1. CASE UNCHANGED call /\ \A t : Spent(t)' => Spent(t)
    BY <2>1, <1>3 DEF Core, StoredIsGood, HonestAppNeverReplays
  <2>2. CASE (\A c \in Call : ~CallAt(c, "post")') /\ \E c \in Call : call'[c].pc \in Posted
    BY <2>2 DEF StoredIsGood, HonestAppNeverReplays
  <2> QED BY <2>1, <2>2
<1> QED BY <1>2, <1>4, <1>6, <1>7 DEF Core

LEMMA PostRefreshCore ==
  ASSUME SessionInv, Shape, Core, NEW c \in Call, PostRefresh(c)
  PROVE  Core'
<1>1. /\ call[c].pc = "post" /\ call[c].pc \in Refreshing /\ UNCHANGED <<store, ui, torn>>
      /\ c \in Sender /\ c # "person"
  BY AppAssumption DEF PostRefresh, CallAt, Refreshing, Sender
<1>2. \A d \in Call : call'[d] = IF d = c THEN [Resting EXCEPT !.pc = "wait"] ELSE call[d]
  BY DEF PostRefresh, SetCall, Shape
<1>3. SharedRefreshIsRun'
  BY <1>1, StepShared DEF Core, PostRefresh, Refreshing, Resting
<1>4. line[c] = Failed
  BY <1>1 DEF Core, Lines, Waiting
<1>5. ~Waiting(c) /\ Waiting(c)' /\ \A y \in Sender : y # c => (Waiting(y)' <=> Waiting(y))
  BY <1>1, <1>2 DEF Waiting, Resting, Sender
<1>6. \A d \in Call : CallAt(d, "post") <=> d = c
  BY <1>1 DEF Core, SharedRefreshIsRun, CallAt, Refreshing
<1>7. \A d \in Call : ~CallAt(d, "post")'
  BY <1>2, <1>6 DEF CallAt, Resting
<1>8. \E d \in Call : call'[d].pc \in Posted
  BY <1>2 DEF Posted, Resting
<1>9. CASE UNCHANGED <<vars, line>>
  <2>1. Settles
    BY <1>1, <1>2, <1>4, <1>5, <1>7, <1>8, <1>9
       DEF Settles, Core, Lines, New, Waiting, Resting, Saving, Sender, Failed
  <2> QED BY <1>3, <2>1, SettlingKeeps
<1>10. CASE \E r \in Free : FindToken(r) /\ req'[r].token = call[c].n /\ Hang(c, r)
  <2>1. PICK r \in Free : FindToken(r) /\ req'[r].token = call[c].n /\ Hang(c, r)
    BY <1>10
  <2>2. PICK t \in Issued : Accept(r, "refresh", "user", t)
    BY <2>1 DEF FindToken
  <2>3. /\ Issued' = Issued /\ t = call[c].n
        /\ \A s : Spent(s)' => Spent(s) \/ s = t
    BY <2>1, <2>2, ArrivalSpends, FreeIsReq
  <2>4. \A s : Spent(s)' => Spent(s) \/ \E d \in Call : CallAt(d, "post") /\ call[d].n = s
    BY <2>3, <1>6
  <2>5. \A y \in Sender : New(y)' = New(y)
    BY <1>1, <1>2, <1>4, <2>1 DEF Shape, Hang, New, Failed, Resting, Saving, Sender
  <2> QED BY <1>1, <1>3, <1>5, <1>7, <1>8, <2>1, <2>3, <2>4, <2>5, HangingKeeps
<1> QED BY <1>9, <1>10 DEF PostRefresh

\* The person's requests rotate nothing.
LEMMA PersonHangs ==
  ASSUME SessionInv, Shape, Core, NEW r \in Free, Hang("person", r),
         UNCHANGED <<store, call, torn>>, ui.pc \in {"idle", "post"}, ui'.pc = "wait",
         NEW op, op # "refresh", NEW pc, NEW n, Accept(r, op, pc, n)
  PROVE  Core'
<1>1. "person" \in Sender /\ \A c \in Call : c # "person"
  BY AppAssumption DEF Sender
<1>2. line["person"] = Failed
  BY <1>1 DEF Core, Lines, Waiting
<1>3. /\ ~Waiting("person") /\ Waiting("person")'
      /\ \A y \in Sender : y # "person" => (Waiting(y)' <=> Waiting(y))
  BY DEF Waiting
<1>4. \A y \in Sender : New(y)' = New(y)
  BY <1>1, <1>2 DEF Shape, Hang, New, Failed, Saving, Sender
<1>5. Issued' = Issued /\ \A t : Spent(t)' => Spent(t)
  BY ArrivalSpends, FreeIsReq
<1>6. SharedRefreshIsRun'
  BY DEF Core, SharedRefreshIsRun, CallAt
<1>7. \A c \in Call : CallAt(c, "post")' => call'[c] = call[c]
  OBVIOUS
<1> QED BY <1>1, <1>3, <1>4, <1>5, <1>6, <1>7, HangingKeeps

LEMMA SignInCore ==
  ASSUME SessionInv, Shape, Core, SignIn
  PROVE  Core'
<1>1. PICK r \in Free : Login(r) /\ Hang("person", r)
  BY DEF SignIn, Ask
<1>2. ui.pc = "idle" /\ ui'.pc = "wait" /\ UNCHANGED <<store, call, torn>>
  BY DEF SignIn, Ask, Person, NoAsk
<1> QED BY <1>1, <1>2, PersonHangs DEF Login

LEMMA AskNewPasswordCore ==
  ASSUME SessionInv, Shape, Core, AskNewPassword
  PROVE  Core'
<1>1. PICK r \in Free : ChangePassword(r) /\ Hang("person", r)
  BY DEF AskNewPassword, Ask
<1>2. ui.pc = "idle" /\ ui'.pc = "wait" /\ UNCHANGED <<store, call, torn>>
  BY DEF AskNewPassword, Ask, Person, NoAsk
<1> QED BY <1>1, <1>2, PersonHangs DEF ChangePassword

LEMMA AskClosureCore ==
  ASSUME SessionInv, Shape, Core, AskClosure
  PROVE  Core'
<1>1. PICK r \in Free : DeleteAccount(r) /\ Hang("person", r)
  BY DEF AskClosure, Ask
<1>2. ui.pc = "idle" /\ ui'.pc = "wait" /\ UNCHANGED <<store, call, torn>>
  BY DEF AskClosure, Ask, Person, NoAsk
<1> QED BY <1>1, <1>2, PersonHangs DEF DeleteAccount

LEMMA PostLogoutCore ==
  ASSUME SessionInv, Shape, Core, PostLogout
  PROVE  Core'
<1>1. ui.pc = "post" /\ ui'.pc = "wait" /\ UNCHANGED <<store, call, torn>>
  BY DEF PostLogout, Person, Shape
<1>2. CASE UNCHANGED <<vars, line>>
  <2>1. Settles
    BY <1>1, <1>2, AppAssumption
       DEF Settles, Core, Lines, New, Waiting, Saving, Sender, Failed, CallAt
  <2>2. SharedRefreshIsRun'
    BY <1>1 DEF Core, SharedRefreshIsRun, CallAt
  <2> QED BY <2>1, <2>2, SettlingKeeps
<1>3. CASE \E r \in Free : FindSession(r) /\ Hang("person", r)
  BY <1>1, <1>3, PersonHangs DEF FindSession
<1> QED BY <1>2, <1>3 DEF PostLogout

-----------------------------------------------------------------------------
(***************************************************************************)
(* Each step keeps the types.                                              *)
(***************************************************************************)
LEMMA SendShape ==
  ASSUME Shape, NEW c \in Call, Send(c)
  PROVE  Shape'
BY SessionAssumption, AppAssumption DEF Shape, Send, Local, SetCall, Resting, Sender,
   Refreshing

LEMMA AnswerCallShape ==
  ASSUME Shape, NEW c \in Call, AnswerCall(c)
  PROVE  Shape'
BY SessionAssumption, AppAssumption DEF Shape, AnswerCall, Local, SetCall, CallAt,
   Resting, NoAsk, Person, End, Unauthorized, Sender, Refreshing

LEMMA ReadRefreshShape ==
  ASSUME Shape, NEW c \in Call, ReadRefresh(c)
  PROVE  Shape'
BY SessionAssumption, AppAssumption DEF Shape, ReadRefresh, Local, SetCall, CallAt,
   Release, Throw, Complete, Resting, Sender, Refreshing

LEMMA TakeAnswerShape ==
  ASSUME Shape, NEW c \in Call, TakeAnswer(c)
  PROVE  Shape'
BY SessionAssumption, AppAssumption DEF Shape, TakeAnswer, Tear, Throw, Complete, Local,
   SetCall, CallAt, Resting, Failed, Sender, Refreshing

LEMMA SaveAccessShape ==
  ASSUME Shape, NEW c \in Call, SaveAccess(c)
  PROVE  Shape'
BY SessionAssumption, AppAssumption DEF Shape, SaveAccess, Tear, Throw, Complete, Local,
   SetCall, CallAt, Resting, Sender, Refreshing

LEMMA SaveRefreshShape ==
  ASSUME Shape, NEW c \in Call, SaveRefresh(c)
  PROVE  Shape'
BY SessionAssumption, AppAssumption DEF Shape, SaveRefresh, Tear, Throw, Release, Complete,
   Local, CallAt, Resting, Sender, Refreshing

LEMMA ReplayShape ==
  ASSUME Shape, NEW c \in Call, Replay(c)
  PROVE  Shape'
BY SessionAssumption, AppAssumption DEF Shape, Replay, Local, SetCall, CallAt, Resting,
   NoAsk, Person, End, Sender, Refreshing

LEMMA ThrownShape ==
  ASSUME Shape, NEW c \in Call, Thrown(c)
  PROVE  Shape'
BY SessionAssumption, AppAssumption DEF Shape, Thrown, Local, SetCall, CallAt, Resting,
   NoAsk, Person, End, Sender, Refreshing

LEMMA ForceLogoutShape ==
  ASSUME Shape, NEW c \in Call, ForceLogout(c)
  PROVE  Shape'
BY SessionAssumption, AppAssumption DEF Shape, ForceLogout, Local, SetCall, CallAt,
   Sender, Refreshing

LEMMA LoggedOutShape ==
  ASSUME Shape, NEW c \in Call, LoggedOut(c)
  PROVE  Shape'
<1>1. /\ screen' \in {screen, "out"} /\ store'.refresh \in {store.refresh, 0}
      /\ store'.access = store.access /\ DOMAIN store' = DOMAIN store
      /\ ui' \in {ui, NoAsk, [NoAsk EXCEPT !.pc = "save"]}
      /\ SetCall(c, Resting) \/ SetCall(c, [call[c] EXCEPT !.pc = "thrown"])
      /\ UNCHANGED <<clients, line, torn>>
  BY DEF LoggedOut, Local, Person, Shape
<1>2. store' \in [access : 0..MaxTokens, refresh : 0..MaxTokens]
  BY SessionAssumption DEF Shape, LoggedOut
<1>3. ui' \in [pc : {"idle", "build", "me", "post", "wait", "save", "save2"},
              act : {"none", "login", "logout", "change_password", "delete_account"},
              n : 0..MaxTokens]
  BY <1>1, SessionAssumption DEF Shape, NoAsk
<1>4. call' \in [Call -> [pc : Refreshing \cup {"idle", "sent", "await", "replay",
                                               "expired", "expired2", "thrown"},
                         n : 0..MaxTokens]]
  BY <1>1, SessionAssumption DEF Shape, SetCall, Resting, Refreshing
<1> QED BY <1>1, <1>2, <1>3, <1>4 DEF Shape

LEMMA BuildShape ==
  ASSUME Shape, NEW c \in Call, Build(c)
  PROVE  Shape'
BY SessionAssumption, AppAssumption DEF Shape, Build, Local, SetCall, Resting, NoAsk,
   Person, Sender, Refreshing

LEMMA RestartShape ==
  ASSUME Shape, Restart
  PROVE  Shape'
BY SessionAssumption, AppAssumption DEF Shape, Restart, Local, Resting, Failed, NoAsk,
   Person, Sender, Refreshing

LEMMA ReadForLogoutShape ==
  ASSUME Shape, ReadForLogout
  PROVE  Shape'
BY SessionAssumption, AppAssumption DEF Shape, ReadForLogout, Local, NoAsk, Person,
   Sender, Refreshing

LEMMA PersonAnsweredShape ==
  ASSUME Shape, PersonAnswered
  PROVE  Shape'
<1>1. "person" \in Sender /\ 0 \in 0..MaxTokens
  BY SessionAssumption DEF Sender
<1>2. PICK q : q = line["person"]
  OBVIOUS
<1>3. q \in [slot : AppReq \cup {0}, ok : BOOLEAN, got : 0..MaxTokens]
  BY <1>1, <1>2 DEF Shape
<1>4. ui' = [ui EXCEPT !.pc = "save", !.n = q.got] \/ ui' = NoAsk
  BY <1>2 DEF PersonAnswered, Person
<1>5. ui' \in [pc : {"idle", "build", "me", "post", "wait", "save", "save2"},
              act : {"none", "login", "logout", "change_password", "delete_account"},
              n : 0..MaxTokens]
  <2>1. CASE ui' = [ui EXCEPT !.pc = "save", !.n = q.got]
    <3>1. q.got \in 0..MaxTokens
      BY <1>3
    <3> QED BY <2>1, <3>1 DEF Shape
  <2>2. CASE ui' = NoAsk
    BY <1>1, <2>2 DEF NoAsk
  <2> QED BY <1>4, <2>1, <2>2
<1>6. line' \in [Sender -> [slot : AppReq \cup {0}, ok : BOOLEAN, got : 0..MaxTokens]]
  BY <1>1 DEF Shape, PersonAnswered, Failed
<1> QED BY <1>5, <1>6 DEF Shape, PersonAnswered, Local

LEMMA PersonSavesAccessShape ==
  ASSUME Shape, PersonSavesAccess
  PROVE  Shape'
BY SessionAssumption, AppAssumption DEF Shape, PersonSavesAccess, Local, Person, NoAsk,
   Sender, Refreshing

LEMMA PersonSavesRefreshShape ==
  ASSUME Shape, PersonSavesRefresh
  PROVE  Shape'
BY SessionAssumption, AppAssumption DEF Shape, PersonSavesRefresh, Local, NoAsk, Person,
   Sender, Refreshing

LEMMA GiveUpShape ==
  ASSUME Shape, NEW x \in Sender, GiveUp(x)
  PROVE  Shape'
BY SessionAssumption DEF Shape, GiveUp, Local, Failed

\* Who asks is on the line from then on.
LEMMA HangingKeepsShape ==
  ASSUME Shape, NEW x \in Sender, NEW r \in Free, Hang(x, r)
  PROVE  line' \in [Sender -> [slot : AppReq \cup {0}, ok : BOOLEAN, got : 0..MaxTokens]]
<1>1. [slot |-> r, ok |-> FALSE, got |-> 0]
        \in [slot : AppReq \cup {0}, ok : BOOLEAN, got : 0..MaxTokens]
  BY SessionAssumption DEF Free
<1> QED BY <1>1 DEF Shape, Hang

LEMMA PostRefreshShape ==
  ASSUME Shape, NEW c \in Call, PostRefresh(c)
  PROVE  Shape'
<1>1. line' \in [Sender -> [slot : AppReq \cup {0}, ok : BOOLEAN, got : 0..MaxTokens]]
  BY HangingKeepsShape DEF Shape, PostRefresh, Sender
<1>2. call' \in [Call -> [pc : Refreshing \cup {"idle", "sent", "await", "replay",
                                               "expired", "expired2", "thrown"},
                         n : 0..MaxTokens]]
  BY SessionAssumption DEF Shape, PostRefresh, SetCall, Resting, Refreshing
<1> QED BY <1>1, <1>2 DEF Shape, PostRefresh

LEMMA AskShape ==
  ASSUME Shape, SignIn \/ AskNewPassword \/ AskClosure \/ PostLogout
  PROVE  Shape'
<1>1. "person" \in Sender
  BY DEF Sender
<1>2. line' \in [Sender -> [slot : AppReq \cup {0}, ok : BOOLEAN, got : 0..MaxTokens]]
  BY <1>1, HangingKeepsShape DEF Shape, SignIn, AskNewPassword, AskClosure, PostLogout, Ask
<1>3. ui' \in [pc : {"idle", "build", "me", "post", "wait", "save", "save2"},
              act : {"none", "login", "logout", "change_password", "delete_account"},
              n : 0..MaxTokens]
  <2>1. 0 \in 0..MaxTokens
    BY SessionAssumption
  <2>2. CASE PostLogout
    BY <2>1, <2>2 DEF Shape, PostLogout, Person
  <2>3. CASE \E act \in {"login", "change_password", "delete_account"} :
               ui' = [NoAsk EXCEPT !.pc = "wait", !.act = act]
    BY <2>1, <2>3 DEF NoAsk
  <2>4. CASE SignIn \/ AskNewPassword \/ AskClosure
    BY <2>3, <2>4 DEF SignIn, AskNewPassword, AskClosure, Ask, Person
  <2> QED BY <2>2, <2>4
<1> QED BY <1>2, <1>3 DEF Shape, SignIn, AskNewPassword, AskClosure, PostLogout, Ask

LEMMA ServeShape ==
  ASSUME SessionInv, Shape, NEW r \in AppReq, Serve(r)
  PROVE  Shape'
<1>1. \E ok, got : /\ ok \in BOOLEAN /\ got \in 0..MaxTokens
                   /\ UNCHANGED line \/ Hear(r, ok, got)
  <2>1. CASE IssueRefreshToken(r) /\ Hear(r, TRUE, Cardinality(Issued) + 1)
    <3>1. PICK n \in 0..MaxTokens : Cardinality(Issued) = n
      BY Table DEF SessionInv
    <3>2. n + 1 \in 0..MaxTokens
      BY <2>1, <3>1, SessionAssumption DEF IssueRefreshToken
    <3>3. PICK got : got = n + 1
      OBVIOUS
    <3> QED BY <2>1, <3>1, <3>2, <3>3
  <2>2. CASE \E ok \in BOOLEAN : UNCHANGED line \/ Hear(r, ok, 0)
    BY <2>2, SessionAssumption
  <2>3. (req[r].pc # "user") \in BOOLEAN
    OBVIOUS
  <2> QED BY <2>1, <2>2, <2>3 DEF Serve
<1>2. line' \in [Sender -> [slot : AppReq \cup {0}, ok : BOOLEAN, got : 0..MaxTokens]]
  BY <1>1, SessionAssumption DEF Shape, Hear
<1> QED BY <1>2 DEF Shape, Serve

-----------------------------------------------------------------------------
(***************************************************************************)
(* The invariant.                                                          *)
(***************************************************************************)
LEMMA AppStarts == AppInit => AppInv
<1> SUFFICES ASSUME AppInit PROVE AppInv
  OBVIOUS
<1>1. SessionInv
  BY SessionStarts DEF AppInit
<1>2. Shape
  BY SessionAssumption DEF AppInit, Shape, Resting, NoAsk, Failed
<1>3. \A c \in Call : call[c] = Resting /\ ~(call[c].pc \in Refreshing \cup {"await"})
  BY DEF AppInit, Resting, Refreshing
<1>4. \A x \in Sender : line[x] = Failed /\ New(x) = 0
  BY <1>3, AppAssumption DEF AppInit, New, NoAsk, Saving, Sender, Failed, Resting
<1>5. 1 \in Issued /\ 0 \notin Issued /\ ~Spent(1)
  BY AppAssumption DEF AppInit, Init, Issued, Spent, Idle
<1>6. Lines /\ Known /\ NewIsUnused /\ NewIsOwn
  BY <1>3, <1>4, <1>5
     DEF AppInit, Lines, Known, NewIsUnused, NewIsOwn, CallAt, Refreshing, Failed
<1>7. StoredIsGood /\ SharedRefreshIsRun /\ HonestAppNeverReplays
  BY <1>3, <1>5
     DEF AppInit, StoredIsGood, SharedRefreshIsRun, HonestAppNeverReplays, CallAt, Refreshing
<1> QED BY <1>1, <1>2, <1>3, <1>6, <1>7 DEF AppInv, Core

AppStepKinds ==
  \/ \E c \in Call : \/ Send(c) \/ AnswerCall(c) \/ ReadRefresh(c) \/ TakeAnswer(c)
                     \/ SaveAccess(c) \/ SaveRefresh(c) \/ Replay(c) \/ ForceLogout(c)
                     \/ LoggedOut(c) \/ Thrown(c) \/ Build(c) \/ PostRefresh(c)
  \/ \E x \in Sender : GiveUp(x)
  \/ Restart \/ ReadForLogout \/ PersonAnswered \/ PersonSavesAccess \/ PersonSavesRefresh
  \/ SignIn \/ AskNewPassword \/ AskClosure \/ PostLogout
  \/ \E r \in AppReq : Serve(r)

LEMMA AppKinds == AppNext => AppStepKinds \/ Anybody
BY DEF AppNext, AppStepKinds, Interceptor, Sender

LEMMA KindsAreTheApps == AppStepKinds => clients = "app" /\ UNCHANGED clients
<1>1. \A c \in Call : Alone(c) => Local
  BY AloneIsLocal
<1>2. PersonAlone => Local
  BY AloneIsLocal
<1>3. \A x \in Sender : GiveUp(x) => Local
  BY DEF GiveUp
<1>4. \A c \in Call : PostRefresh(c) => clients = "app" /\ UNCHANGED clients
  BY DEF PostRefresh
<1>5. SignIn \/ AskNewPassword \/ AskClosure \/ PostLogout => clients = "app" /\ UNCHANGED clients
  BY DEF SignIn, AskNewPassword, AskClosure, PostLogout, Ask
<1>6. \A r \in AppReq : Serve(r) => clients = "app" /\ UNCHANGED clients
  BY DEF Serve
<1> QED BY <1>1, <1>2, <1>3, <1>4, <1>5, <1>6 DEF AppStepKinds, Alone, PersonAlone, Local

LEMMA KindsKeep ==
  ASSUME SessionInv, Shape, Core, AppStepKinds
  PROVE  Shape' /\ Core'
<1>1. CASE \E c \in Call : \/ Send(c) \/ AnswerCall(c) \/ ReadRefresh(c) \/ TakeAnswer(c)
                           \/ SaveAccess(c) \/ SaveRefresh(c)
  BY <1>1, SendShape, SendCore, AnswerCallShape, AnswerCallCore, ReadRefreshShape,
     ReadRefreshCore, TakeAnswerShape, TakeAnswerCore, SaveAccessShape, SaveAccessCore,
     SaveRefreshShape, SaveRefreshCore
<1>2. CASE \E c \in Call : \/ Replay(c) \/ ForceLogout(c) \/ LoggedOut(c) \/ Thrown(c)
                           \/ Build(c) \/ PostRefresh(c)
  BY <1>2, ThrownShape, ThrownCore, ReplayShape, ReplayCore, ForceLogoutShape, ForceLogoutCore, LoggedOutShape,
     LoggedOutCore, BuildShape, BuildCore, PostRefreshShape, PostRefreshCore
<1>3. CASE (\E x \in Sender : GiveUp(x)) \/ Restart \/ ReadForLogout
  BY <1>3, GiveUpShape, GiveUpCore, RestartShape, RestartCore, ReadForLogoutShape,
     ReadForLogoutCore
<1>4. CASE PersonAnswered \/ PersonSavesAccess \/ PersonSavesRefresh
  BY <1>4, PersonAnsweredShape, PersonAnsweredCore, PersonSavesAccessShape,
     PersonSavesAccessCore, PersonSavesRefreshShape, PersonSavesRefreshCore
<1>5. CASE SignIn \/ AskNewPassword \/ AskClosure \/ PostLogout
  BY <1>5, AskShape, SignInCore, AskNewPasswordCore, AskClosureCore, PostLogoutCore
<1>6. CASE \E r \in AppReq : Serve(r)
  BY <1>6, ServeShape, ServeCore
<1> QED BY <1>1, <1>2, <1>3, <1>4, <1>5, <1>6 DEF AppStepKinds

LEMMA AppInvStep == AppInv /\ [AppNext]_allVars => AppInv'
<1> SUFFICES ASSUME AppInv, [AppNext]_allVars PROVE AppInv'
  OBVIOUS
<1>1. SessionInv'
  BY AppStep, SessionStep DEF AppInv
<1>2. CASE AppStepKinds
  <2>1. clients = "app" /\ clients' = "app"
    BY <1>2, KindsAreTheApps
  <2>2. Shape' /\ Core'
    BY <1>2, <2>1, KindsKeep DEF AppInv
  <2>3. clients' # "anybody"
    BY <2>1
  <2> QED BY <1>1, <2>2, <2>3 DEF AppInv
<1>3. CASE Anybody
  <2>1. clients = "anybody" /\ clients' = clients /\ UNCHANGED appVars
    BY <1>3 DEF Anybody
  <2>2. Shape'
    BY <2>1 DEF AppInv, Shape, appVars
  <2>3. \A c \in Call : call'[c] = Resting
    BY <2>1 DEF AppInv, appVars
  <2>4. clients' # "app"
    BY <2>1
  <2> QED BY <1>1, <2>2, <2>3, <2>4 DEF AppInv
<1>4. CASE UNCHANGED allVars
  <2>1. UNCHANGED <<vars, clients, store, screen, call, ui, line, torn>>
    BY <1>4 DEF allVars, appVars
  <2>2. Shape'
    BY <2>1 DEF AppInv, Shape
  <2>3. Core => Core'
    <3>1. ASSUME Core PROVE Settles /\ SharedRefreshIsRun'
      BY <2>1, <3>1 DEF Core, Settles, New, Waiting, Lines, SharedRefreshIsRun, CallAt
    <3> QED BY <3>1, SettlingKeeps
  <2> QED BY <1>1, <2>1, <2>2, <2>3 DEF AppInv
<1> QED BY <1>2, <1>3, <1>4, AppKinds

LEMMA AppInvariant == AppSpec => []AppInv
BY AppStarts, AppInvStep, PTL DEF AppSpec

LEMMA RestingIsHarmless ==
  ASSUME \A c \in Call : call[c] = Resting
  PROVE  HonestAppNeverReplays /\ SharedRefreshIsRun
BY DEF HonestAppNeverReplays, SharedRefreshIsRun, CallAt, Resting, Refreshing

\* The app's and the server's state keep their types.
THEOREM AppIsTyped == AppSpec => []AppTypeOK
<1>1. AppInv => AppTypeOK
  BY DEF AppInv, AppTypeOK, SessionInv, Shape
<1> QED BY <1>1, AppInvariant, PTL

\* However many calls the app has, whatever is lost or fails and whenever it is killed or
\* the person signs out and in again: it presents no refresh token that was rotated, but
\* for those of the refreshes that broke off after posting (torn).
THEOREM HonestAppIsNeverTakenForAThief == AppSpec => []HonestAppNeverReplays
<1>1. AppInv => HonestAppNeverReplays
  BY RestingIsHarmless, AppAssumption DEF AppInv, Core, Shape
<1> QED BY <1>1, AppInvariant, PTL

\* No call is left behind by a refresh, and no two refreshes run.
THEOREM RefreshIsShared == AppSpec => []SharedRefreshIsRun
<1>1. AppInv => SharedRefreshIsRun
  BY RestingIsHarmless, AppAssumption DEF AppInv, Core, Shape
<1> QED BY <1>1, AppInvariant, PTL
=============================================================================
