--------------------------- MODULE SessionsProofs ---------------------------
(***************************************************************************)
(* Proofs about Sessions, for any accounts, requests and bounds: types, the *)
(* refinement of SingleSession, and what the lock of the idempotency       *)
(* middleware and the generation counter protect.                          *)
(***************************************************************************)
EXTENDS Sessions, TLAPS

-----------------------------------------------------------------------------
(* Types.                                                                  *)

\* A request that has found its session names an open session of its own account.
RequestsBound ==
    \A r \in Req :
        req[r].pc \in {"found", "authed", "verified"} \/ (req[r].pc = "credentials" /\ req[r].op = "logout") =>
            /\ req[r].session \in Session
            /\ sess[req[r].session].open /\ sess[req[r].session].user = req[r].user

\* A row keeps its type when one of its columns is written.
LEMMA RowTypes ==
    ASSUME NEW x \in Sess
    PROVE  /\ x.user \in User /\ x.gen \in Gen
           /\ [x EXCEPT !.revoked = TRUE] \in Sess
           /\ [x EXCEPT !.rcRevoked = TRUE] \in Sess
           /\ [x EXCEPT !.rotated = TRUE] \in Sess
           /\ \A b \in BOOLEAN : [x EXCEPT !.rotated = b] \in Sess
           /\ \A d \in {"ahead", "idle", "over"} : [x EXCEPT !.time = d] \in Sess
BY DEF Sess

LEMMA RequestTypes ==
    ASSUME NEW x \in Request
    PROVE  /\ x.user \in User /\ x.know \in Password /\ x.session \in Session \cup {NoSession}
           /\ x.op \in Op
           /\ \A pc \in Pc : [x EXCEPT !.pc = pc] \in Request
           /\ \A pc \in Pc, op \in Op : [x EXCEPT !.pc = pc, !.op = op] \in Request
           /\ \A pc \in Pc, op \in Op : [x EXCEPT !.op = op, !.pc = pc] \in Request
BY DEF Request

\* The UPDATEs that revoke rows change nothing but the two flags.
LEMMA RevokeType ==
    ASSUME SessionsTypeOK, NEW u \in User
    PROVE  /\ RevokeSessions(u) \in [Session -> Sess]
           /\ RevokeCredentials(u) \in [Session -> Sess]
           /\ RevokeAll(u) \in [Session -> Sess]
<1> USE DEF SessionsTypeOK, Sess
<1>1. RevokeSessions(u) \in [Session -> Sess]
  BY DEF RevokeSessions, OpenSessions
<1>2. RevokeCredentials(u) \in [Session -> Sess]
  BY DEF RevokeCredentials, OpenSessions
<1>3. RevokeAll(u) \in [Session -> Sess]
  BY DEF RevokeAll, OpenSessions
<1> QED BY <1>1, <1>2, <1>3

LEMMA RotatedType ==
    ASSUME NEW f \in [Session -> Sess], NEW s \in Session, NEW u
    PROVE  [f[s] EXCEPT !.rotated = @ \/ s \in OpenSessions(u)] \in Sess
<1>1. (f[s].rotated \/ s \in OpenSessions(u)) \in BOOLEAN
  OBVIOUS
<1> QED BY <1>1, RowTypes

\* What the next generation and a freed request are.
LEMMA HelperTypes ==
    ASSUME SessionsTypeOK, NEW u \in User
    PROVE  /\ NewGeneration(u) => gen' \in [User -> Gen]
           /\ Idle(u) \in Request
<1>1. NewGeneration(u) => gen' \in [User -> Gen]
  BY CountAssumption DEF NewGeneration, SessionsTypeOK, Gen
<1>2. Idle(u) \in Request
  BY CountAssumption DEF Idle, Request, Pc, Op, Password
<1> QED BY <1>1, <1>2

\* Init
LEMMA TypeInit == Init => SessionsTypeOK
<1> SUFFICES ASSUME Init PROVE SessionsTypeOK
  OBVIOUS
<1>1. PICK v \in User :
         /\ sess = [s \in Session |->
                [user |-> v, gen |-> 0, open |-> FALSE, revoked |-> FALSE,
                 time |-> "ahead", rcRevoked |-> FALSE, rotated |-> FALSE]]
         /\ req = [r \in Req |-> Idle(v)]
  BY DEF Init
<1>2. sess \in [Session -> Sess]
  BY <1>1, CountAssumption DEF Sess, Gen
<1>3. req \in [Req -> Request]
  BY <1>1, CountAssumption DEF Idle, Request, Pc, Op, Password
<1>4. lock \in Req \cup {NoReq}
  BY DEF Init
<1>5. ticket \subseteq Ticket
  BY DEF Init
<1>6. /\ status \in [User -> {"active", "disabled", "deleting"}]
      /\ gen \in [User -> Gen]
      /\ pw \in [User -> Password] /\ known \in [User -> Password] /\ reset \in [User -> Password]
  BY CountAssumption DEF Init, Gen, Password
<1> QED BY <1>2, <1>3, <1>4, <1>5, <1>6 DEF SessionsTypeOK

\* One step per action.
LEMMA TypeNext == SessionsTypeOK /\ RequestsBound /\ [Next]_vars => SessionsTypeOK'
<1> SUFFICES ASSUME SessionsTypeOK, RequestsBound, [Next]_vars PROVE SessionsTypeOK'
  OBVIOUS
<1> USE DEF SessionsTypeOK
<1>0. /\ \A s \in Session : sess[s] \in Sess
      /\ \A r \in Req : req[r] \in Request /\ req[r].user \in User
      /\ \A u \in User : /\ NewGeneration(u) => gen' \in [User -> Gen]
                         /\ Idle(u) \in Request
      /\ \A u \in User : /\ RevokeSessions(u) \in [Session -> Sess]
                         /\ RevokeCredentials(u) \in [Session -> Sess]
                         /\ RevokeAll(u) \in [Session -> Sess]
  BY RevokeType, HelperTypes, RequestTypes
<1>1. ASSUME NEW u \in User, NEW s \in Session, Login(u, s) PROVE SessionsTypeOK'
  <2>1. gen' \in [User -> Gen]
    BY <1>0, <1>1 DEF Login
  <2>2. [user |-> u, gen |-> gen'[u], open |-> TRUE, revoked |-> FALSE,
         time |-> "ahead", rcRevoked |-> FALSE, rotated |-> FALSE] \in Sess
    BY <2>1 DEF Sess
  <2>3. sess' \in [Session -> Sess]
    BY <1>0, <1>1, <2>2 DEF Login
  <2> QED BY <1>1, <2>1, <2>3 DEF Login
<1>2. ASSUME NEW u \in User, AdminResetFRPCredential(u) \/ DeleteUser(u) PROVE SessionsTypeOK'
  <2>1. CASE AdminResetFRPCredential(u)
    <3>1. gen' \in [User -> Gen]
      BY <1>0, <2>1 DEF AdminResetFRPCredential, RotateSecret
    <3>2. \A s \in Session : [RevokeAll(u)[s] EXCEPT !.rotated = @ \/ s \in OpenSessions(u)] \in Sess
      BY <1>0, RotatedType
    <3>3. sess' \in [Session -> Sess]
      BY <2>1, <3>2 DEF AdminResetFRPCredential, RotateSecret
    <3> QED BY <2>1, <3>1, <3>3 DEF AdminResetFRPCredential, RotateSecret
  <2>2. CASE DeleteUser(u)
    BY <1>0, <2>2 DEF DeleteUser
  <2> QED BY <1>2, <2>1, <2>2
<1>3. ASSUME NEW r \in Req, Authenticate(r) PROVE SessionsTypeOK'
  <2>1. ASSUME NEW s \in Session, FindSession(r, s) PROVE SessionsTypeOK'
    <3>1. [pc |-> "found", op |-> "none", user |-> sess[s].user,
           session |-> s, know |-> known[sess[s].user]] \in Request
      BY <1>0, RowTypes DEF Request, Pc, Op
    <3> QED BY <2>1, <3>1 DEF FindSession, userVars
  <2>2. CASE CheckGeneration(r)
    <3> DEFINE s == req[r].session
    <3>1. req' \in [Req -> Request]
      <4>1. [req[r] EXCEPT !.pc = "authed"] \in Request /\ Idle(req[r].user) \in Request
        BY <1>0, RequestTypes DEF Pc
      <4> QED BY <2>2, <4>1 DEF CheckGeneration
    <3>2. sess' \in [Session -> Sess]
      <4>1. \A x \in Session : [sess[x] EXCEPT !.time = "ahead"] \in Sess
        BY <1>0, RowTypes
      <4> QED BY <2>2, <4>1 DEF CheckGeneration
    <3> QED BY <2>2, <3>1, <3>2 DEF CheckGeneration, userVars
  <2> QED BY <1>3, <2>1, <2>2 DEF Authenticate
<1>4. ASSUME NEW r \in Req, Handle(r) PROVE SessionsTypeOK'
  <2>0. /\ req[r].user \in User /\ Idle(req[r].user) \in Request
        /\ \A pc \in Pc, op \in Op : [req[r] EXCEPT !.pc = pc, !.op = op] \in Request
    BY <1>0, RequestTypes
  <2>1. ASSUME NEW pc \in Pc, NEW op \in Op, Goto(r, pc, op) PROVE req' \in [Req -> Request]
    BY <2>0, <2>1 DEF Goto
  <2>2. ASSUME Leave(r) PROVE req' \in [Req -> Request] /\ lock' \in Req \cup {NoReq}
    BY <2>0, <2>2 DEF Leave
  <2>3. CASE LogoutSession(r)
    <3>1. req' \in [Req -> Request]
      BY <2>1, <2>3 DEF LogoutSession, Pc, Op
    <3>2. sess' \in [Session -> Sess]
      <4>1. \A x \in Session : [sess[x] EXCEPT !.revoked = TRUE] \in Sess
        BY <1>0, RowTypes
      <4> QED BY <2>3, <4>1 DEF LogoutSession
    <3> QED BY <2>3, <3>1, <3>2 DEF LogoutSession, Enter, userVars
  <2>4. CASE LogoutCredentials(r)
    <3>1. sess' \in [Session -> Sess]
      <4>1. \A x \in Session : [sess[x] EXCEPT !.rcRevoked = TRUE] \in Sess
        BY <1>0, RowTypes
      <4> QED BY <2>4, <4>1 DEF LogoutCredentials
    <3> QED BY <2>2, <2>4, <3>1 DEF LogoutCredentials, userVars
  <2>5. CASE VerifyPassword(r)
    <3>1. req' \in [Req -> Request]
      BY <2>1, <2>5 DEF VerifyPassword, Pc, Op
    <3> QED BY <2>5, <3>1 DEF VerifyPassword, Enter, userVars
  <2>6. CASE ChangePassword(r)
    <3>1. pw' \in [User -> Password] /\ known' \in [User -> Password]
      <4>1. pw[req[r].user] + 1 \in Password
        <5>1. pw[req[r].user] \in Password
          BY <2>0
        <5>2. pw[req[r].user] < MaxPassword
          BY <2>6 DEF ChangePassword
        <5> QED BY <5>1, <5>2, CountAssumption DEF Password
      <4> QED BY <2>0, <2>6, <4>1 DEF ChangePassword
    <3> QED BY <2>2, <2>6, <3>1 DEF ChangePassword
  <2>7. CASE IssueTicket(r)
    <3>1. sess[req[r].session].gen \in Gen
      BY <1>0, <2>7, RowTypes DEF IssueTicket, RequestsBound
    <3>2. [user |-> req[r].user, gen |-> sess[req[r].session].gen, pw |-> req[r].know] \in Ticket
      BY <1>0, <3>1, RequestTypes DEF Ticket
    <3>3. ticket' \subseteq Ticket
      BY <2>7, <3>2 DEF IssueTicket
    <3> QED BY <2>2, <2>7, <3>3 DEF IssueTicket, userVars
  <2>8. CASE RequireReauthTicket(r)
    <3>1. req' \in [Req -> Request]
      BY <2>1, <2>8 DEF RequireReauthTicket, Pc, Op
    <3> QED BY <2>8, <3>1 DEF RequireReauthTicket, userVars
  <2>9. CASE ResetFRPCredential(r)
    <3> DEFINE u == req[r].user
    <3>1. gen' \in [User -> Gen]
      BY <1>0, <2>0, <2>9 DEF ResetFRPCredential, RotateSecret
    <3>2. \A s \in Session : [RevokeAll(u)[s] EXCEPT !.rotated = @ \/ s \in OpenSessions(u)] \in Sess
      BY <1>0, <2>0, RotatedType
    <3>3. sess' \in [Session -> Sess]
      BY <2>9, <3>2 DEF ResetFRPCredential, RotateSecret
    <3> QED BY <2>2, <2>9, <3>1, <3>3 DEF ResetFRPCredential, RotateSecret
  <2>10. CASE Abandon(r)
    BY <2>2, <2>10 DEF Abandon, userVars
  <2> QED BY <1>4, <2>3, <2>4, <2>5, <2>6, <2>7, <2>8, <2>9, <2>10 DEF Handle
<1>5. ASSUME NEW r \in Req, Administer(r) PROVE SessionsTypeOK'
  <2>0. /\ req[r].user \in User /\ Idle(req[r].user) \in Request
        /\ \A pc \in Pc, op \in Op, u \in User : [Idle(u) EXCEPT !.op = op, !.pc = pc] \in Request
    BY <1>0, RequestTypes
  <2>1. ASSUME NEW u \in User, NEW op \in {"disable", "enable"}, NEW st \in {"active", "disabled"},
               SetUserStatus(r, u, op, st)
        PROVE  SessionsTypeOK'
    <3>1. req' \in [Req -> Request]
      BY <2>0, <2>1 DEF SetUserStatus, Pc, Op
    <3> QED BY <1>0, <2>1, <3>1 DEF SetUserStatus, Enter
  <2>2. ASSUME NEW u \in User, ResetUserPassword(r, u) PROVE SessionsTypeOK'
    <3>1. req' \in [Req -> Request]
      BY <2>0, <2>2 DEF ResetUserPassword, Pc, Op
    <3>2. pw' \in [User -> Password] /\ reset' \in [User -> Password]
      BY <2>2, CountAssumption DEF ResetUserPassword, Password
    <3> QED BY <1>0, <2>2, <3>1, <3>2 DEF ResetUserPassword, Enter
  <2>3. CASE RevokeUserSessions(r)
    <3>1. req' \in [Req -> Request]
      <4>1. [req[r] EXCEPT !.pc = "credentials", !.op = req[r].op] \in Request
        BY <1>0, RequestTypes DEF Pc
      <4> QED BY <2>3, <4>1 DEF RevokeUserSessions, Goto
    <3> QED BY <1>0, <2>0, <2>3, <3>1 DEF RevokeUserSessions, userVars
  <2>4. CASE RevokeUserCredentials(r)
    <3>1. req' \in [Req -> Request] /\ lock' \in Req \cup {NoReq}
      BY <2>0, <2>4 DEF RevokeUserCredentials, Leave
    <3>2. known' \in [User -> Password]
      BY <2>0, <2>4 DEF RevokeUserCredentials
    <3>3. sess' \in [Session -> Sess]
      BY <1>0, <2>0, <2>4 DEF RevokeUserCredentials
    <3> QED BY <2>4, <3>1, <3>2, <3>3 DEF RevokeUserCredentials
  <2> QED BY <1>5, <2>1, <2>2, <2>3, <2>4 DEF Administer
<1>6. ASSUME NEW s \in Session, Expire(s) PROVE SessionsTypeOK'
  <2>1. \A d \in {"ahead", "idle", "over"} : [sess[s] EXCEPT !.time = d] \in Sess
    BY <1>0, RowTypes
  <2>2. sess' \in [Session -> Sess]
    BY <1>6, <2>1 DEF Expire
  <2> QED BY <1>6, <2>2 DEF Expire, userVars
<1>7. ASSUME NEW t \in ticket, ExpireTicket(t) PROVE SessionsTypeOK'
  BY <1>7 DEF ExpireTicket, userVars
<1>8. CASE Crash
  <2>1. \A r \in Req : Idle(req[r].user) \in Request
    BY <1>0
  <2> QED BY <1>8, <2>1 DEF Crash, userVars
<1>9. CASE UNCHANGED vars
  BY <1>9 DEF vars
<1> QED BY <1>1, <1>2, <1>3, <1>4, <1>5, <1>6, <1>7, <1>8, <1>9 DEF Next


-----------------------------------------------------------------------------
(* The inductive invariant.                                                *)

\* No open session is ahead of its account's generation, and no two sessions of an account
\* have the same one.
GenerationsOrdered ==
    /\ \A s \in Session : sess[s].open => sess[s].gen <= gen[sess[s].user]
    /\ \A s, q \in Session :
          sess[s].open /\ sess[q].open /\ sess[s].user = sess[q].user /\ sess[s].gen = sess[q].gen
             => s = q

\* The steps of a handler run under the lock, in the order of the code.
LockHeld ==
    \A r \in Req :
        /\ \/ req[r].pc \in {"sessions", "credentials"}
           \/ req[r].pc = "verified" /\ req[r].op \in {"change", "ticket"}
           => lock = r
        /\ req[r].pc = "sessions" => req[r].op \in {"disable", "reset"}
        /\ req[r].pc = "credentials" => req[r].op \in {"logout", "disable", "enable", "reset"}
        /\ req[r].pc = "credentials" /\ req[r].op = "logout" => sess[req[r].session].revoked

\* A password that a handler has verified under the lock is still the account's.
VerifiedHolds ==
    \A r \in Req :
        req[r].pc = "verified" /\ req[r].op \in {"change", "ticket"} => req[r].know = pw[req[r].user]

\* While the rows of a disabled or reset account are revoked, no login can have opened a session
\* of its new generation: the account is not active, or nobody knows its password yet.
RevokingOld ==
    \A r \in Req :
        req[r].pc \in {"sessions", "credentials"} /\ req[r].op \in {"disable", "reset"} =>
            /\ \A s \in Session : sess[s].open /\ sess[s].user = req[r].user =>
                                   sess[s].gen < gen[req[r].user]
            /\ req[r].op = "disable" => status[req[r].user] # "active"
            /\ req[r].op = "reset" => known[req[r].user] < pw[req[r].user]

PasswordsOrdered == \A u \in User : known[u] <= pw[u] /\ reset[u] <= pw[u]

\* A ticket of the account's generation is not older than the last reset.
TicketsCurrent ==
    \A t \in ticket : /\ t.gen <= gen[t.user]
                      /\ t.gen = gen[t.user] => t.pw >= reset[t.user]

\* A session whose credential is revoked or whose secret is rotated is out of use for good.
CredentialsDead ==
    \A s \in Session :
        sess[s].open /\ (sess[s].rcRevoked \/ sess[s].rotated) =>
            sess[s].revoked \/ sess[s].gen < gen[sess[s].user]

SessionsInv ==
    /\ SessionsTypeOK /\ RequestsBound /\ GenerationsOrdered /\ LockHeld /\ VerifiedHolds
    /\ RevokingOld /\ PasswordsOrdered /\ TicketsCurrent /\ CredentialsDead

\* Init
LEMMA InvInit == Init => SessionsInv
<1> SUFFICES ASSUME Init PROVE SessionsInv
  OBVIOUS
<1>1. SessionsTypeOK
  BY TypeInit
<1>2. (\A s \in Session : ~sess[s].open) /\ (\A r \in Req : req[r].pc = "free")
  BY DEF Init, Idle
<1>3. PasswordsOrdered /\ TicketsCurrent
  BY DEF Init, PasswordsOrdered, TicketsCurrent
<1> QED BY <1>1, <1>2, <1>3 DEF SessionsInv, RequestsBound, GenerationsOrdered, LockHeld,
                              VerifiedHolds, RevokingOld, CredentialsDead

\* A row that names the same session of the same account.
SameRow(x, s) == /\ x.open = sess[s].open /\ x.user = sess[s].user /\ x.gen = sess[s].gen
                 /\ x.rotated = sess[s].rotated /\ x.time = sess[s].time

\* What the three UPDATEs do to a row.
LEMMA RevokedRows ==
    ASSUME SessionsTypeOK, NEW u \in User, NEW s \in Session
    PROVE  /\ SameRow(RevokeSessions(u)[s], s) /\ RevokeSessions(u)[s].rcRevoked = sess[s].rcRevoked
           /\ RevokeSessions(u)[s].revoked <=> (sess[s].revoked \/ (sess[s].open /\ sess[s].user = u))
           /\ SameRow(RevokeCredentials(u)[s], s) /\ RevokeCredentials(u)[s].revoked = sess[s].revoked
           /\ RevokeCredentials(u)[s].rcRevoked <=> (sess[s].rcRevoked \/ (sess[s].open /\ sess[s].user = u))
           /\ SameRow(RevokeAll(u)[s], s)
           /\ RevokeAll(u)[s].revoked <=> (sess[s].revoked \/ (sess[s].open /\ sess[s].user = u))
           /\ RevokeAll(u)[s].rcRevoked <=> (sess[s].rcRevoked \/ (sess[s].open /\ sess[s].user = u))
<1>1. sess[s] \in Sess
  BY DEF SessionsTypeOK
<1>2. /\ RevokeSessions(u)[s] = IF s \in OpenSessions(u) THEN [sess[s] EXCEPT !.revoked = TRUE] ELSE sess[s]
      /\ RevokeCredentials(u)[s] = IF s \in OpenSessions(u) THEN [sess[s] EXCEPT !.rcRevoked = TRUE] ELSE sess[s]
      /\ RevokeAll(u)[s] = IF s \in OpenSessions(u)
                          THEN [sess[s] EXCEPT !.revoked = TRUE, !.rcRevoked = TRUE] ELSE sess[s]
  BY DEF RevokeSessions, RevokeCredentials, RevokeAll
<1>3. s \in OpenSessions(u) <=> sess[s].open /\ sess[s].user = u
  BY DEF OpenSessions
<1>4. CASE s \in OpenSessions(u)
  <2>1. /\ SameRow(RevokeSessions(u)[s], s) /\ RevokeSessions(u)[s].rcRevoked = sess[s].rcRevoked
        /\ RevokeSessions(u)[s].revoked = TRUE
    BY <1>1, <1>2, <1>4 DEF Sess, SameRow
  <2>2. /\ SameRow(RevokeCredentials(u)[s], s) /\ RevokeCredentials(u)[s].revoked = sess[s].revoked
        /\ RevokeCredentials(u)[s].rcRevoked = TRUE
    BY <1>1, <1>2, <1>4 DEF Sess, SameRow
  <2>3. /\ SameRow(RevokeAll(u)[s], s)
        /\ RevokeAll(u)[s].revoked = TRUE /\ RevokeAll(u)[s].rcRevoked = TRUE
    BY <1>1, <1>2, <1>4 DEF Sess, SameRow
  <2> QED BY <1>3, <1>4, <2>1, <2>2, <2>3
<1>5. CASE s \notin OpenSessions(u)
  BY <1>1, <1>2, <1>3, <1>5 DEF Sess, SameRow
<1> QED BY <1>4, <1>5

\* Generations and passwords are numbers.
LEMMA Numbers ==
    ASSUME SessionsTypeOK
    PROVE  /\ \A s \in Session : sess[s].user \in User /\ sess[s].gen \in Nat
           /\ \A u \in User : gen[u] \in Nat /\ pw[u] \in Nat /\ known[u] \in Nat /\ reset[u] \in Nat
           /\ \A r \in Req : req[r].user \in User /\ req[r].know \in Nat
           /\ \A t \in ticket : t.user \in User /\ t.gen \in Nat /\ t.pw \in Nat
<1>1. \A s \in Session : sess[s].user \in User /\ sess[s].gen \in Nat
  BY DEF SessionsTypeOK, Sess, Gen
<1>2. \A u \in User : gen[u] \in Nat /\ pw[u] \in Nat /\ known[u] \in Nat /\ reset[u] \in Nat
  BY DEF SessionsTypeOK, Gen, Password
<1>3. \A r \in Req : req[r].user \in User /\ req[r].know \in Nat
  BY DEF SessionsTypeOK, Request, Password
<1>4. \A t \in ticket : t.user \in User /\ t.gen \in Nat /\ t.pw \in Nat
  BY DEF SessionsTypeOK, Ticket, Gen, Password
<1> QED BY <1>1, <1>2, <1>3, <1>4

\* Login
LEMMA InvLogin ==
    ASSUME SessionsInv, SessionsTypeOK', NEW u \in User, NEW s \in Session, Login(u, s)
    PROVE  SessionsInv'
<1> USE DEF SessionsInv
<1>1. /\ UNCHANGED <<status, pw, known, reset, ticket, req, lock>>
      /\ gen' = [gen EXCEPT ![u] = gen[u] + 1] /\ gen \in [User -> Int]
      /\ status[u] = "active" /\ known[u] = pw[u]
      /\ ~sess[s].open
  BY DEF Login, NewGeneration, NextId, SessionsTypeOK, Gen, Session
<1>2. /\ sess'[s].open /\ sess'[s].user = u /\ sess'[s].gen = gen'[u]
      /\ ~sess'[s].rcRevoked /\ ~sess'[s].rotated
  BY RevokeType DEF Login
<1>3. ASSUME NEW q \in Session, q # s
      PROVE  /\ sess'[q].open = sess[q].open /\ sess'[q].user = sess[q].user /\ sess'[q].gen = sess[q].gen
             /\ sess'[q].rcRevoked = sess[q].rcRevoked /\ sess'[q].rotated = sess[q].rotated
             /\ sess[q].revoked => sess'[q].revoked
  <2>1. sess'[q] = RevokeSessions(u)[q]
    BY <1>3, RevokeType DEF Login
  <2> QED BY <2>1, RevokedRows DEF SameRow
<1>4. RequestsBound'
  BY <1>1, <1>2, <1>3 DEF RequestsBound, SessionsTypeOK
<1>5. GenerationsOrdered'
  <2>1. ASSUME NEW q \in Session, sess'[q].open
        PROVE  sess'[q].gen <= gen'[sess'[q].user]
    BY <1>1, <1>2, <1>3, <2>1, Numbers DEF GenerationsOrdered
  <2>2. ASSUME NEW q \in Session, q # s, sess'[q].open, sess'[q].user = u
        PROVE  sess'[q].gen < gen'[u]
    BY <1>1, <1>3, <2>2, Numbers DEF GenerationsOrdered
  <2>3. ASSUME NEW p \in Session, NEW q \in Session, sess'[p].open, sess'[q].open,
               sess'[p].user = sess'[q].user, sess'[p].gen = sess'[q].gen, p # q
        PROVE  FALSE
    <3>1. CASE p # s /\ q # s
      BY <1>3, <2>3, <3>1 DEF GenerationsOrdered
    <3>2. CASE p = s \/ q = s
      BY <1>2, <2>2, <2>3, <3>2, <1>1, Numbers
    <3> QED BY <3>1, <3>2
  <2> QED BY <2>1, <2>3 DEF GenerationsOrdered
<1>6. LockHeld'
  BY <1>1, <1>2, <1>3 DEF LockHeld, RequestsBound, SessionsTypeOK
<1>7. RevokingOld'
  <2> SUFFICES ASSUME NEW r \in Req,
                      req[r].pc \in {"sessions", "credentials"}, req[r].op \in {"disable", "reset"}
               PROVE  /\ req[r].user # u
                      /\ \A q \in Session : sess'[q].open /\ sess'[q].user = req[r].user =>
                                             sess'[q].gen < gen'[req[r].user]
    BY <1>1 DEF RevokingOld
  <2>1. req[r].user # u
    BY <1>1, Numbers DEF RevokingOld
  <2> QED BY <1>1, <1>2, <1>3, <2>1, Numbers DEF RevokingOld
<1>8. TicketsCurrent'
  BY <1>1, Numbers DEF TicketsCurrent
<1>9. CredentialsDead'
  BY <1>1, <1>2, <1>3, Numbers DEF CredentialsDead
<1>10. VerifiedHolds' /\ PasswordsOrdered'
  BY <1>1 DEF VerifiedHolds, PasswordsOrdered
<1> QED BY <1>4, <1>5, <1>6, <1>7, <1>8, <1>9, <1>10

-----------------------------------------------------------------------------
(* Steps that open no session.                                             *)

\* No session is opened, and none comes back.
RowsKept ==
    \A q \in Session :
        /\ sess'[q].open = sess[q].open /\ sess'[q].user = sess[q].user /\ sess'[q].gen = sess[q].gen
        /\ sess[q].revoked => sess'[q].revoked

\* Nor is a credential touched.
RowsSame == RowsKept /\ \A q \in Session : /\ sess'[q].rcRevoked = sess[q].rcRevoked
                                           /\ sess'[q].rotated = sess[q].rotated

LEMMA RowsInv ==
    ASSUME SessionsInv, SessionsTypeOK', RowsKept, \A u \in User : gen'[u] >= gen[u]
    PROVE  /\ GenerationsOrdered'
           /\ RowsSame => CredentialsDead'
<1>1. /\ \A s \in Session : sess[s].user \in User /\ sess[s].gen \in Nat
      /\ \A u \in User : gen[u] \in Nat /\ gen'[u] \in Nat
  <2>1. \A u \in User : gen'[u] \in Nat
    BY DEF SessionsTypeOK, Gen
  <2> QED BY <2>1, Numbers DEF SessionsInv
<1>2. GenerationsOrdered'
  BY <1>1 DEF GenerationsOrdered, RowsKept, SessionsInv
<1>3. RowsSame => CredentialsDead'
  BY <1>1 DEF CredentialsDead, RowsSame, RowsKept, SessionsInv
<1> QED BY <1>2, <1>3

\* The invariant as far as a request is concerned.
RequestOK(x) ==
    /\ x.pc \in {"found", "authed", "verified"} \/ (x.pc = "credentials" /\ x.op = "logout") =>
          /\ x.session \in Session /\ sess[x.session].open /\ sess[x.session].user = x.user
    /\ x.pc = "sessions" => x.op \in {"disable", "reset"}
    /\ x.pc = "credentials" => x.op \in {"logout", "disable", "enable", "reset"}
    /\ x.pc = "credentials" /\ x.op = "logout" => sess[x.session].revoked

Locking(x) == \/ x.pc \in {"sessions", "credentials"}
              \/ x.pc = "verified" /\ x.op \in {"change", "ticket"}

\* What the request's account must be like under the lock.
AccountOK(x) ==
    /\ x.pc = "verified" /\ x.op \in {"change", "ticket"} => x.know = pw[x.user]
    /\ x.pc \in {"sessions", "credentials"} /\ x.op \in {"disable", "reset"} =>
          /\ \A s \in Session : sess[s].open /\ sess[s].user = x.user => sess[s].gen < gen[x.user]
          /\ x.op = "disable" => status[x.user] # "active"
          /\ x.op = "reset" => known[x.user] < pw[x.user]

LEMMA PerRequest ==
    RequestsBound /\ LockHeld /\ VerifiedHolds /\ RevokingOld <=>
        \A r \in Req : /\ RequestOK(req[r]) /\ AccountOK(req[r])
                       /\ Locking(req[r]) => lock = r
BY DEF RequestsBound, LockHeld, VerifiedHolds, RevokingOld, RequestOK, AccountOK, Locking

\* A request that is not served is no matter to the invariant.
LEMMA FreeRequest ==
    ASSUME NEW x, x.pc = "free" PROVE RequestOK(x) /\ AccountOK(x) /\ ~Locking(x)
BY DEF RequestOK, AccountOK, Locking

\* A request that stays as it is, whatever is revoked and whichever generations grow, as
\* long as its account's status and passwords stay or it is not under the lock.
LEMMA SameRequest ==
    ASSUME SessionsInv, SessionsTypeOK', RowsKept, \A u \in User : gen'[u] >= gen[u],
           NEW r \in Req, req'[r] = req[r],
           \/ ~Locking(req[r])
           \/ UNCHANGED <<pw, known>> /\ \A u \in User : status'[u] = "active" => status[u] = "active"
    PROVE  RequestOK(req[r])' /\ AccountOK(req[r])'
<1> DEFINE x == req[r]
<1>1. /\ \A s \in Session : sess[s].user \in User /\ sess[s].gen \in Nat
      /\ \A u \in User : gen[u] \in Nat /\ gen'[u] \in Nat
      /\ x.user \in User
  <2>1. \A u \in User : gen'[u] \in Nat
    BY DEF SessionsTypeOK, Gen
  <2> QED BY <2>1, Numbers DEF SessionsInv
<1>2. RequestOK(x) /\ AccountOK(x)
  BY PerRequest DEF SessionsInv
<1>3. RequestOK(req[r])'
  BY <1>2 DEF RequestOK, RowsKept
<1>4. AccountOK(req[r])'
  <2>1. CASE ~Locking(x)
    BY <2>1 DEF AccountOK, Locking
  <2>2. CASE UNCHANGED <<pw, known>> /\ \A u \in User : status'[u] = "active" => status[u] = "active"
    BY <1>1, <1>2, <2>2 DEF AccountOK, RowsKept
  <2> QED BY <2>1, <2>2
<1> QED BY <1>3, <1>4

\* What is left to show of a step that opens no session.
LEMMA Conclude ==
    ASSUME SessionsInv, SessionsTypeOK', RowsKept, \A u \in User : gen'[u] >= gen[u],
           CredentialsDead', PasswordsOrdered', TicketsCurrent',
           \A r \in Req : /\ RequestOK(req[r])' /\ AccountOK(req[r])'
                          /\ Locking(req[r])' => lock' = r
    PROVE  SessionsInv'
<1>1. RequestsBound' /\ LockHeld' /\ VerifiedHolds' /\ RevokingOld'
  BY DEF RequestsBound, LockHeld, VerifiedHolds, RevokingOld, RequestOK, AccountOK, Locking
<1>2. GenerationsOrdered'
  BY RowsInv
<1> QED BY <1>1, <1>2 DEF SessionsInv

\* Steps of a request that only read, and the end of a request, a ticket, a deadline or the
\* process.
LEMMA InvQuiet ==
    ASSUME SessionsInv, SessionsTypeOK', UNCHANGED userVars, RowsSame, ticket' \subseteq ticket,
           \A r \in Req : /\ \/ req'[r] = req[r]
                             \/ req'[r].pc = "free"
                             \/ RequestOK(req'[r]) /\ AccountOK(req'[r])
                          /\ Locking(req'[r]) => lock' = r
    PROVE  SessionsInv'
<1>1. /\ \A u \in User : gen'[u] >= gen[u]
      /\ UNCHANGED <<pw, known>> /\ \A u \in User : status'[u] = "active" => status[u] = "active"
  BY Numbers DEF userVars, SessionsInv
<1>2. PasswordsOrdered' /\ TicketsCurrent'
  BY DEF SessionsInv, PasswordsOrdered, TicketsCurrent, userVars
<1>3. RowsKept /\ CredentialsDead'
  BY <1>1, RowsInv DEF RowsSame
<1>4. ASSUME NEW r \in Req PROVE RequestOK(req[r])' /\ AccountOK(req[r])'
  <2>1. CASE req'[r] = req[r]
    BY <1>1, <1>3, <2>1, SameRequest
  <2>2. CASE req'[r].pc = "free"
    BY <2>2 DEF RequestOK, AccountOK
  <2>3. CASE RequestOK(req'[r]) /\ AccountOK(req'[r])
    <3>1. RequestOK(req[r])'
      BY <1>3, <2>3 DEF RequestOK, RowsKept
    <3>2. AccountOK(req[r])'
      BY <1>3, <2>3 DEF AccountOK, RowsKept, userVars
    <3> QED BY <3>1, <3>2
  <2> QED BY <2>1, <2>2, <2>3
<1>5. \A r \in Req : Locking(req[r])' => lock' = r
  BY DEF Locking
<1> QED BY <1>1, <1>2, <1>3, <1>4, <1>5, Conclude

\* The lock: a request that holds it or takes it is the only one in its critical steps.
LEMMA OnlyHolder ==
    ASSUME SessionsInv, NEW r \in Req, lock = r \/ lock = NoReq, NEW x \in Req, x # r
    PROVE  ~Locking(req[x])
<1>1. Locking(req[x]) => lock = x
  BY PerRequest DEF SessionsInv
<1> QED BY <1>1, NoneAssumption

\* An UPDATE of one row.
LEMMA OneRow ==
    ASSUME sess \in [Session -> Sess], NEW s \in Session, NEW y, sess' = [sess EXCEPT ![s] = y],
           y.open = sess[s].open, y.user = sess[s].user, y.gen = sess[s].gen,
           sess[s].revoked => y.revoked
    PROVE  /\ RowsKept
           /\ y.rcRevoked = sess[s].rcRevoked /\ y.rotated = sess[s].rotated => RowsSame
<1>1. sess'[s] = y /\ \A q \in Session : q # s => sess'[q] = sess[q]
  OBVIOUS
<1>2. RowsKept
  BY <1>1 DEF RowsKept
<1>3. ASSUME y.rcRevoked = sess[s].rcRevoked, y.rotated = sess[s].rotated PROVE RowsSame
  BY <1>1, <1>2, <1>3 DEF RowsSame
<1> QED BY <1>2, <1>3

\* Authenticate
LEMMA InvAuthenticate ==
    ASSUME SessionsInv, SessionsTypeOK', NEW r \in Req, Authenticate(r)
    PROVE  SessionsInv'
<1>0. /\ \A x \in Req : Locking(req[x]) => lock = x
      /\ RequestOK(req[r]) /\ req \in [Req -> Request] /\ sess \in [Session -> Sess]
  BY PerRequest DEF SessionsInv, SessionsTypeOK
<1>1. ASSUME NEW s \in Session, FindSession(r, s) PROVE SessionsInv'
  <2>1. RowsSame /\ UNCHANGED userVars /\ ticket' \subseteq ticket /\ lock' = lock
    BY <1>1 DEF FindSession, RowsSame, RowsKept
  <2>2. /\ req'[r].pc = "found" /\ req'[r].session = s /\ req'[r].user = sess[s].user
        /\ sess[s].open /\ \A x \in Req : x # r => req'[x] = req[x]
    BY <1>0, <1>1 DEF FindSession, Live
  <2>3. RequestOK(req'[r]) /\ AccountOK(req'[r]) /\ ~Locking(req'[r])
    BY <2>2 DEF RequestOK, AccountOK, Locking
  <2> QED BY <1>0, <2>1, <2>2, <2>3, InvQuiet
<1>2. CASE CheckGeneration(r)
  <2>0. req[r].pc = "found" /\ req[r].session \in Session /\ ticket' = ticket /\ lock' = lock /\ UNCHANGED userVars
    BY <1>0, <1>2 DEF CheckGeneration, RequestOK
  <2>1. RowsSame
    <3>1. sess' = sess \/ sess' = [sess EXCEPT ![req[r].session] = [sess[req[r].session] EXCEPT !.time = "ahead"]]
      BY <1>2 DEF CheckGeneration
    <3>2. \A x \in Sess : LET y == [x EXCEPT !.time = "ahead"] IN
             /\ y.open = x.open /\ y.user = x.user /\ y.gen = x.gen /\ y.revoked = x.revoked
             /\ y.rcRevoked = x.rcRevoked /\ y.rotated = x.rotated
      BY DEF Sess
    <3>3. CASE sess' = sess
      BY <3>3 DEF RowsSame, RowsKept
    <3>4. CASE sess' = [sess EXCEPT ![req[r].session] = [sess[req[r].session] EXCEPT !.time = "ahead"]]
      <4> DEFINE s == req[r].session
      <4> DEFINE y == [sess[s] EXCEPT !.time = "ahead"]
      <4>1. sess[s] \in Sess
        BY <1>0, <2>0
      <4>2. /\ y.open = sess[s].open /\ y.user = sess[s].user /\ y.gen = sess[s].gen
            /\ y.revoked = sess[s].revoked
            /\ y.rcRevoked = sess[s].rcRevoked /\ y.rotated = sess[s].rotated
        BY <3>2, <4>1
      <4>3. sess' = [sess EXCEPT ![s] = y] /\ s \in Session
        BY <2>0, <3>4
      <4> HIDE DEF y, s
      <4> QED BY <1>0, <4>2, <4>3, OneRow
    <3> QED BY <3>1, <3>3, <3>4
  <2>2. \A x \in Req : x # r => req'[x] = req[x]
    BY <1>0, <1>2 DEF CheckGeneration
  <2>3. \/ req'[r].pc = "free"
        \/ req'[r].pc = "authed" /\ req'[r].session = req[r].session /\ req'[r].user = req[r].user
    BY <1>0, <1>2 DEF CheckGeneration, Idle, Request
  <2>4. req'[r].pc = "free" \/ (RequestOK(req'[r]) /\ AccountOK(req'[r]))
    BY <1>0, <2>0, <2>3 DEF RequestOK, AccountOK
  <2>5. ~Locking(req'[r])
    BY <2>3 DEF Locking
  <2> QED BY <1>0, <2>0, <2>1, <2>2, <2>4, <2>5, InvQuiet
<1> QED BY <1>1, <1>2 DEF Authenticate

-----------------------------------------------------------------------------
(* Handlers.                                                               *)

\* A step of one request, which is under the lock or leaves what others have verified alone.
LEMMA InvStep ==
    ASSUME SessionsInv, SessionsTypeOK', RowsKept, \A u \in User : gen'[u] >= gen[u],
           CredentialsDead', PasswordsOrdered', TicketsCurrent',
           NEW r \in Req, \A x \in Req : x # r => req'[x] = req[x],
           RequestOK(req[r])', AccountOK(req[r])', Locking(req[r])' => lock' = r,
           \/ lock = r \/ lock = NoReq
           \/ /\ UNCHANGED <<pw, known, lock>>
              /\ \A u \in User : status'[u] = "active" => status[u] = "active"
    PROVE  SessionsInv'
<1>1. ASSUME NEW x \in Req, x # r
      PROVE  RequestOK(req[x])' /\ AccountOK(req[x])' /\ (Locking(req[x])' => lock' = x)
  <2>1. req'[x] = req[x]
    BY <1>1
  <2>2. CASE lock = r \/ lock = NoReq
    <3>1. ~Locking(req[x])
      BY <1>1, <2>2, OnlyHolder
    <3>2. RequestOK(req[x])' /\ AccountOK(req[x])'
      BY <2>1, <3>1, SameRequest
    <3>3. ~Locking(req[x])'
      BY <2>1, <3>1 DEF Locking
    <3> QED BY <3>2, <3>3
  <2>3. CASE /\ UNCHANGED <<pw, known, lock>>
             /\ \A u \in User : status'[u] = "active" => status[u] = "active"
    <3>1. RequestOK(req[x])' /\ AccountOK(req[x])'
      BY <2>1, <2>3, SameRequest
    <3>2. Locking(req[x]) => lock = x
      BY PerRequest DEF SessionsInv
    <3>3. Locking(req[x])' => lock' = x
      BY <2>1, <2>3, <3>2 DEF Locking
    <3> QED BY <3>1, <3>3
  <2> QED BY <2>2, <2>3
<1> QED BY <1>1, Conclude

\* A new generation leaves the credentials and the tickets of the account behind.
LEMMA Bump ==
    ASSUME SessionsInv, SessionsTypeOK', RowsKept, NEW u \in User, gen' = [gen EXCEPT ![u] = gen[u] + 1],
           \A q \in Session : sess[q].user # u =>
               sess'[q].rcRevoked = sess[q].rcRevoked /\ sess'[q].rotated = sess[q].rotated,
           ticket' = ticket, \A w \in User : w # u => reset'[w] = reset[w]
    PROVE  /\ \A w \in User : gen'[w] >= gen[w]
           /\ CredentialsDead' /\ TicketsCurrent'
           /\ \A q \in Session : sess'[q].open /\ sess'[q].user = u => sess'[q].gen < gen'[u]
<1>1. /\ \A s \in Session : sess[s].user \in User /\ sess[s].gen \in Nat
      /\ \A w \in User : gen[w] \in Nat /\ gen \in [User -> Gen]
      /\ \A t \in ticket : t.user \in User /\ t.gen \in Nat /\ t.pw \in Nat
  BY Numbers DEF SessionsInv, SessionsTypeOK
<1>2. gen'[u] = gen[u] + 1 /\ \A w \in User : w # u => gen'[w] = gen[w]
  BY <1>1
<1>3. \A w \in User : gen'[w] >= gen[w]
  BY <1>1, <1>2
<1>4. \A q \in Session : sess[q].open => sess[q].gen <= gen[sess[q].user]
  BY DEF SessionsInv, GenerationsOrdered
<1>5. \A q \in Session : sess'[q].open /\ sess'[q].user = u => sess'[q].gen < gen'[u]
  BY <1>1, <1>2, <1>4 DEF RowsKept
<1>6. CredentialsDead'
  <2> SUFFICES ASSUME NEW q \in Session, sess'[q].open, sess'[q].rcRevoked \/ sess'[q].rotated
               PROVE  sess'[q].revoked \/ sess'[q].gen < gen'[sess'[q].user]
    BY DEF CredentialsDead
  <2>1. CASE sess'[q].user = u
    BY <1>5, <2>1
  <2>2. CASE sess'[q].user # u
    <3>1. sess[q].user # u /\ sess[q].open /\ (sess[q].rcRevoked \/ sess[q].rotated)
      BY <2>2 DEF RowsKept
    <3>2. sess[q].revoked \/ sess[q].gen < gen[sess[q].user]
      BY <3>1 DEF SessionsInv, CredentialsDead
    <3> QED BY <1>1, <1>2, <3>1, <3>2 DEF RowsKept
  <2> QED BY <2>1, <2>2
<1>7. TicketsCurrent'
  <2> SUFFICES ASSUME NEW t \in ticket
               PROVE  t.gen <= gen'[t.user] /\ (t.gen = gen'[t.user] => t.pw >= reset'[t.user])
    BY DEF TicketsCurrent
  <2>1. t.gen <= gen[t.user] /\ (t.gen = gen[t.user] => t.pw >= reset[t.user])
    BY DEF SessionsInv, TicketsCurrent
  <2>2. CASE t.user = u
    BY <1>1, <1>2, <2>1, <2>2
  <2>3. CASE t.user # u
    BY <1>1, <1>2, <2>1, <2>3
  <2> QED BY <2>2, <2>3
<1> QED BY <1>3, <1>5, <1>6, <1>7

\* What Goto and Leave make of a request.
LEMMA Moves ==
    ASSUME SessionsInv, NEW r \in Req
    PROVE  /\ \A pc \in Pc, op \in Op : Goto(r, pc, op) =>
                 /\ req'[r].pc = pc /\ req'[r].op = op /\ req'[r].user = req[r].user
                 /\ req'[r].session = req[r].session /\ req'[r].know = req[r].know
                 /\ \A x \in Req : x # r => req'[x] = req[x]
           /\ Leave(r) => /\ req'[r].pc = "free"
                          /\ \A x \in Req : x # r => req'[x] = req[x]
                          /\ lock = r \/ lock' = lock
<1>1. req \in [Req -> Request] /\ req[r] \in Request
  BY DEF SessionsInv, SessionsTypeOK
<1>2. ASSUME NEW pc \in Pc, NEW op \in Op, Goto(r, pc, op)
      PROVE  /\ req'[r].pc = pc /\ req'[r].op = op /\ req'[r].user = req[r].user
             /\ req'[r].session = req[r].session /\ req'[r].know = req[r].know
             /\ \A x \in Req : x # r => req'[x] = req[x]
  <2>1. req' = [req EXCEPT ![r] = [req[r] EXCEPT !.pc = pc, !.op = op]]
    BY <1>2 DEF Goto
  <2> QED BY <1>1, <2>1 DEF Request
<1>3. ASSUME Leave(r)
      PROVE  /\ req'[r].pc = "free" /\ \A x \in Req : x # r => req'[x] = req[x]
             /\ lock = r \/ lock' = lock
  BY <1>1, <1>3 DEF Leave, Idle
<1> QED BY <1>2, <1>3

\* What a request knows of the invariant, and a step that touches no account.
LEMMA Untouched ==
    ASSUME SessionsInv
    PROVE  /\ sess' = sess => RowsSame
           /\ UNCHANGED gen => \A u \in User : gen'[u] >= gen[u]
           /\ UNCHANGED <<gen, reset, ticket>> => TicketsCurrent'
           /\ UNCHANGED <<pw, known, reset>> => PasswordsOrdered'
           /\ \A r \in Req : RequestOK(req[r]) /\ AccountOK(req[r]) /\ (Locking(req[r]) => lock = r)
<1>1. sess' = sess => RowsSame
  BY DEF RowsSame, RowsKept
<1>2. UNCHANGED gen => \A u \in User : gen'[u] >= gen[u]
  BY Numbers DEF SessionsInv
<1>3. UNCHANGED <<gen, reset, ticket>> => TicketsCurrent'
  BY DEF SessionsInv, TicketsCurrent
<1>4. UNCHANGED <<pw, known, reset>> => PasswordsOrdered'
  BY DEF SessionsInv, PasswordsOrdered
<1>5. \A r \in Req : RequestOK(req[r]) /\ AccountOK(req[r]) /\ (Locking(req[r]) => lock = r)
  BY PerRequest DEF SessionsInv
<1> QED BY <1>1, <1>2, <1>3, <1>4, <1>5

\* Logout
LEMMA InvLogout ==
    ASSUME SessionsInv, SessionsTypeOK', NEW r \in Req, LogoutSession(r) \/ LogoutCredentials(r)
    PROVE  SessionsInv'
<1> DEFINE s == req[r].session
<1>0. RequestOK(req[r]) /\ (Locking(req[r]) => lock = r) /\ sess \in [Session -> Sess]
  BY Untouched DEF SessionsInv, SessionsTypeOK
<1>1. s \in Session /\ sess[s] \in Sess /\ sess[s].open /\ sess[s].user = req[r].user
  BY <1>0 DEF LogoutSession, LogoutCredentials, Enter, RequestOK
<1>2. /\ UNCHANGED <<pw, known, reset, gen, ticket>>
      /\ \A u \in User : status'[u] = "active" => status[u] = "active"
  BY DEF LogoutSession, LogoutCredentials, userVars
<1>3. PasswordsOrdered' /\ TicketsCurrent' /\ \A u \in User : gen'[u] >= gen[u]
  BY <1>2, Untouched
<1>4. CASE LogoutSession(r)
  <2> DEFINE y == [sess[s] EXCEPT !.revoked = TRUE]
  <2>1. /\ y.open = sess[s].open /\ y.user = sess[s].user /\ y.gen = sess[s].gen /\ y.revoked = TRUE
        /\ y.rcRevoked = sess[s].rcRevoked /\ y.rotated = sess[s].rotated
    BY <1>1 DEF Sess
  <2>2. sess' = [sess EXCEPT ![s] = y] /\ sess'[s] = y
    BY <1>0, <1>1, <1>4 DEF LogoutSession
  <2> HIDE DEF y
  <2>3. RowsSame /\ RowsKept
    BY <1>0, <1>1, <2>1, <2>2, OneRow DEF RowsSame
  <2>4. CredentialsDead'
    BY <1>3, <2>3, RowsInv
  <2>5. /\ req'[r].pc = "credentials" /\ req'[r].op = "logout" /\ req'[r].user = req[r].user
        /\ req'[r].session = s /\ \A x \in Req : x # r => req'[x] = req[x]
        /\ lock = NoReq /\ lock' = r
    BY <1>4, Moves DEF LogoutSession, Enter, Pc, Op
  <2>6. RequestOK(req[r])' /\ AccountOK(req[r])'
    BY <1>1, <2>1, <2>2, <2>5 DEF RequestOK, AccountOK
  <2> QED BY <1>2, <1>3, <2>3, <2>4, <2>5, <2>6, InvStep
<1>5. CASE LogoutCredentials(r)
  <2> DEFINE y == [sess[s] EXCEPT !.rcRevoked = TRUE]
  <2>1. /\ y.open = sess[s].open /\ y.user = sess[s].user /\ y.gen = sess[s].gen
        /\ y.revoked = sess[s].revoked
    BY <1>1 DEF Sess
  <2>2. /\ sess' = [sess EXCEPT ![s] = y] /\ sess'[s] = y
        /\ \A q \in Session : q # s => sess'[q] = sess[q]
    BY <1>0, <1>1, <1>5 DEF LogoutCredentials
  <2> HIDE DEF y
  <2>3. RowsKept
    BY <1>0, <1>1, <2>1, <2>2, OneRow
  <2>4. sess[s].revoked
    BY <1>0, <1>5 DEF RequestOK, LogoutCredentials
  <2>5. CredentialsDead'
    <3> SUFFICES ASSUME NEW q \in Session, sess'[q].open, sess'[q].rcRevoked \/ sess'[q].rotated
                 PROVE  sess'[q].revoked \/ sess'[q].gen < gen'[sess'[q].user]
      BY DEF CredentialsDead
    <3>1. CASE q = s
      BY <2>1, <2>2, <2>4, <3>1
    <3>2. CASE q # s
      BY <1>2, <2>2, <3>2 DEF SessionsInv, CredentialsDead
    <3> QED BY <3>1, <3>2
  <2>6. req'[r].pc = "free" /\ (\A x \in Req : x # r => req'[x] = req[x]) /\ lock = r
    BY <1>0, <1>5, Moves DEF LogoutCredentials, Locking
  <2>7. RequestOK(req[r])' /\ AccountOK(req[r])' /\ ~Locking(req[r])'
    BY <2>6 DEF RequestOK, AccountOK, Locking
  <2> QED BY <1>2, <1>3, <2>3, <2>5, <2>6, <2>7, InvStep
<1> QED BY <1>4, <1>5

\* RevokeAll, with or without a new secret, touches the rows of one account only.
LEMMA Rotation ==
    ASSUME SessionsInv, NEW u \in User, RotateSecret(u) \/ (NewGeneration(u) /\ sess' = RevokeAll(u))
    PROVE  /\ RowsKept
           /\ gen' = [gen EXCEPT ![u] = gen[u] + 1]
           /\ \A q \in Session : sess[q].user # u =>
                 sess'[q].rcRevoked = sess[q].rcRevoked /\ sess'[q].rotated = sess[q].rotated
<1>1. gen' = [gen EXCEPT ![u] = gen[u] + 1]
  BY DEF RotateSecret, NewGeneration
<1>2. ASSUME NEW q \in Session
      PROVE  /\ sess'[q].open = sess[q].open /\ sess'[q].user = sess[q].user /\ sess'[q].gen = sess[q].gen
             /\ sess[q].revoked => sess'[q].revoked
             /\ sess[q].user # u =>
                   sess'[q].rcRevoked = sess[q].rcRevoked /\ sess'[q].rotated = sess[q].rotated
  <2> DEFINE z == RevokeAll(u)[q]
  <2>1. /\ SameRow(z, q) /\ z \in Sess
        /\ z.revoked <=> (sess[q].revoked \/ (sess[q].open /\ sess[q].user = u))
        /\ z.rcRevoked <=> (sess[q].rcRevoked \/ (sess[q].open /\ sess[q].user = u))
        /\ sess[q] \in Sess
    BY RevokedRows, RevokeType DEF SessionsInv, SessionsTypeOK
  <2>2. \/ sess'[q] = z
        \/ sess'[q] = [z EXCEPT !.rotated = z.rotated \/ q \in OpenSessions(u)]
    BY DEF RotateSecret
  <2>3. sess[q].user # u => q \notin OpenSessions(u)
    BY DEF OpenSessions
  <2> HIDE DEF z
  <2>4. /\ sess'[q].open = z.open /\ sess'[q].user = z.user /\ sess'[q].gen = z.gen
        /\ sess'[q].revoked = z.revoked /\ sess'[q].rcRevoked = z.rcRevoked
    BY <2>1, <2>2 DEF Sess
  <2>5. sess[q].user # u => sess'[q].rotated = z.rotated
    BY <2>1, <2>2, <2>3 DEF Sess
  <2>6. sess[q].user # u => z.rcRevoked = sess[q].rcRevoked
    BY <2>1 DEF Sess
  <2> QED BY <2>1, <2>4, <2>5, <2>6 DEF SameRow
<1> QED BY <1>1, <1>2 DEF RowsKept

\* ChangeCredentials, IssueReauthTicket and the credential reset of a session, and the
\* request that is given up.
LEMMA InvHandle ==
    ASSUME SessionsInv, SessionsTypeOK', NEW r \in Req, Handle(r)
    PROVE  SessionsInv'
<1>0. /\ RequestOK(req[r]) /\ AccountOK(req[r]) /\ (Locking(req[r]) => lock = r)
      /\ req[r].user \in User
  BY Untouched, Numbers DEF SessionsInv
<1>1. CASE LogoutSession(r) \/ LogoutCredentials(r)
  BY <1>1, InvLogout
<1>2. ASSUME UNCHANGED <<userVars, sess, ticket>>
      PROVE  /\ RowsKept /\ CredentialsDead' /\ PasswordsOrdered' /\ TicketsCurrent'
             /\ \A u \in User : gen'[u] >= gen[u]
             /\ UNCHANGED <<pw, known>> /\ \A u \in User : status'[u] = "active" => status[u] = "active"
  <2>1. RowsSame /\ PasswordsOrdered' /\ TicketsCurrent' /\ \A u \in User : gen'[u] >= gen[u]
    BY <1>2, Untouched DEF userVars
  <2>2. RowsKept /\ CredentialsDead'
    BY <2>1, RowsInv DEF RowsSame
  <2> QED BY <1>2, <2>1, <2>2 DEF userVars
<1>3. ASSUME req'[r].pc = "free"
      PROVE  RequestOK(req[r])' /\ AccountOK(req[r])' /\ ~Locking(req[r])'
  BY <1>3 DEF RequestOK, AccountOK, Locking
<1>4. CASE VerifyPassword(r)
  <2>1. /\ UNCHANGED <<userVars, sess, ticket>> /\ lock = NoReq /\ lock' = r
        /\ req[r].pc = "authed" /\ req[r].know = pw[req[r].user]
    BY <1>4 DEF VerifyPassword, Enter
  <2>2. /\ req'[r].pc = "verified" /\ req'[r].op \in {"change", "ticket"} /\ req'[r].user = req[r].user
        /\ req'[r].session = req[r].session /\ req'[r].know = req[r].know
        /\ \A x \in Req : x # r => req'[x] = req[x]
    BY <1>4, Moves DEF VerifyPassword, Pc, Op
  <2>3. RequestOK(req[r])'
    BY <1>0, <2>1, <2>2 DEF RequestOK
  <2>4. AccountOK(req[r])'
    BY <2>1, <2>2 DEF AccountOK, userVars
  <2> QED BY <1>2, <2>1, <2>2, <2>3, <2>4, InvStep
<1>5. CASE ChangePassword(r)
  <2> DEFINE u == req[r].user
  <2>1. /\ UNCHANGED <<status, gen, reset, sess, ticket>> /\ lock = r
        /\ pw' = [pw EXCEPT ![u] = pw[u] + 1] /\ known' = [known EXCEPT ![u] = pw'[u]]
    BY <1>0, <1>5 DEF ChangePassword, Locking
  <2>2. req'[r].pc = "free" /\ \A x \in Req : x # r => req'[x] = req[x]
    BY <1>5, Moves DEF ChangePassword
  <2>3. RowsKept /\ CredentialsDead' /\ TicketsCurrent' /\ \A w \in User : gen'[w] >= gen[w]
    <3>1. RowsSame /\ TicketsCurrent' /\ \A w \in User : gen'[w] >= gen[w]
      BY <2>1, Untouched
    <3> QED BY <3>1, RowsInv DEF RowsSame
  <2>4. PasswordsOrdered'
    <3>1. /\ pw \in [User -> Password] /\ known \in [User -> Password]
          /\ \A w \in User : pw[w] \in Nat /\ known[w] \in Nat /\ reset[w] \in Nat
      BY Numbers DEF SessionsInv, SessionsTypeOK
    <3> QED BY <1>0, <2>1, <3>1 DEF SessionsInv, PasswordsOrdered
  <2> QED BY <1>3, <2>1, <2>2, <2>3, <2>4, InvStep
<1>6. CASE IssueTicket(r)
  <2> DEFINE s == req[r].session
  <2> DEFINE n == [user |-> req[r].user, gen |-> sess[s].gen, pw |-> req[r].know]
  <2>1. UNCHANGED <<userVars, sess>> /\ ticket' = ticket \cup {n} /\ lock = r
    BY <1>0, <1>6 DEF IssueTicket, Locking
  <2>2. req'[r].pc = "free" /\ \A x \in Req : x # r => req'[x] = req[x]
    BY <1>6, Moves DEF IssueTicket
  <2>3. RowsKept /\ CredentialsDead' /\ PasswordsOrdered' /\ \A w \in User : gen'[w] >= gen[w]
    <3>1. RowsSame /\ PasswordsOrdered' /\ \A w \in User : gen'[w] >= gen[w]
      BY <2>1, Untouched DEF userVars
    <3> QED BY <3>1, RowsInv DEF RowsSame
  <2>4. TicketsCurrent'
    <3>1. /\ s \in Session /\ sess[s].open /\ sess[s].user = req[r].user
          /\ req[r].know = pw[req[r].user]
      BY <1>0, <1>6 DEF IssueTicket, RequestOK, AccountOK
    <3>2. sess[s].gen <= gen[req[r].user] /\ req[r].know >= reset[req[r].user]
      BY <1>0, <3>1, Numbers DEF SessionsInv, GenerationsOrdered, PasswordsOrdered
    <3>3. n.user = req[r].user /\ n.gen = sess[s].gen /\ n.pw = req[r].know
      OBVIOUS
    <3> HIDE DEF n
    <3>4. \A t \in ticket : t.gen <= gen[t.user] /\ (t.gen = gen[t.user] => t.pw >= reset[t.user])
      BY DEF SessionsInv, TicketsCurrent
    <3>5. n.gen <= gen[n.user] /\ (n.gen = gen[n.user] => n.pw >= reset[n.user])
      BY <3>2, <3>3
    <3> QED BY <2>1, <3>4, <3>5 DEF TicketsCurrent, userVars
  <2> HIDE DEF n
  <2> QED BY <1>3, <2>1, <2>2, <2>3, <2>4, InvStep
<1>7. CASE RequireReauthTicket(r)
  <2>1. UNCHANGED <<userVars, sess, ticket, lock>> /\ req[r].pc = "authed"
    BY <1>7 DEF RequireReauthTicket
  <2>2. /\ req'[r].pc = "verified" /\ req'[r].op = "rotate" /\ req'[r].user = req[r].user
        /\ req'[r].session = req[r].session
        /\ \A x \in Req : x # r => req'[x] = req[x]
    BY <1>7, Moves DEF RequireReauthTicket, Pc, Op
  <2>3. RequestOK(req[r])' /\ AccountOK(req[r])' /\ ~Locking(req[r])'
    BY <1>0, <2>1, <2>2 DEF RequestOK, AccountOK, Locking
  <2> QED BY <1>2, <2>1, <2>2, <2>3, InvStep
<1>8. CASE ResetFRPCredential(r)
  <2> DEFINE u == req[r].user
  <2>1. RotateSecret(u) /\ UNCHANGED <<status, pw, known, reset, ticket>>
    BY <1>8 DEF ResetFRPCredential, RotateSecret
  <2>2. req'[r].pc = "free" /\ (\A x \in Req : x # r => req'[x] = req[x]) /\ (lock = r \/ lock' = lock)
    BY <1>8, Moves DEF ResetFRPCredential
  <2>3. /\ RowsKept /\ gen' = [gen EXCEPT ![u] = gen[u] + 1]
        /\ \A q \in Session : sess[q].user # u =>
              sess'[q].rcRevoked = sess[q].rcRevoked /\ sess'[q].rotated = sess[q].rotated
    BY <1>0, <2>1, Rotation
  <2>4. CredentialsDead' /\ TicketsCurrent' /\ \A w \in User : gen'[w] >= gen[w]
    BY <1>0, <2>1, <2>3, Bump
  <2>5. PasswordsOrdered'
    BY <2>1, Untouched
  <2> QED BY <1>3, <2>1, <2>2, <2>3, <2>4, <2>5, InvStep
<1>9. CASE Abandon(r)
  <2>1. UNCHANGED <<userVars, sess, ticket>>
    BY <1>9 DEF Abandon
  <2>2. req'[r].pc = "free" /\ (\A x \in Req : x # r => req'[x] = req[x]) /\ (lock = r \/ lock' = lock)
    BY <1>9, Moves DEF Abandon
  <2> QED BY <1>2, <1>3, <2>1, <2>2, InvStep
<1> QED BY <1>1, <1>4, <1>5, <1>6, <1>7, <1>8, <1>9 DEF Handle

\* SetUserStatus, ResetUserPassword and the revocations after them.
LEMMA InvAdminister ==
    ASSUME SessionsInv, SessionsTypeOK', NEW r \in Req, Administer(r)
    PROVE  SessionsInv'
<1>0. /\ RequestOK(req[r]) /\ AccountOK(req[r]) /\ (Locking(req[r]) => lock = r)
      /\ req[r].user \in User /\ req[r] \in Request /\ req \in [Req -> Request]
  BY Untouched, Numbers DEF SessionsInv, SessionsTypeOK
<1>1. ASSUME NEW u \in User, NEW op \in Op, NEW pc \in Pc,
             req' = [req EXCEPT ![r] = [Idle(u) EXCEPT !.op = op, !.pc = pc]]
      PROVE  /\ req'[r].pc = pc /\ req'[r].op = op /\ req'[r].user = u
             /\ \A x \in Req : x # r => req'[x] = req[x]
  BY <1>0, <1>1 DEF Idle
<1>2. ASSUME NEW u \in User, NewGeneration(u), UNCHANGED <<sess, ticket>>,
             \A w \in User : w # u => reset'[w] = reset[w]
      PROVE  /\ RowsKept /\ CredentialsDead' /\ TicketsCurrent' /\ \A w \in User : gen'[w] >= gen[w]
             /\ \A q \in Session : sess'[q].open /\ sess'[q].user = u => sess'[q].gen < gen'[u]
  <2>1. RowsKept /\ gen' = [gen EXCEPT ![u] = gen[u] + 1]
    BY <1>2 DEF RowsKept, NewGeneration
  <2>2. \A q \in Session : sess'[q].rcRevoked = sess[q].rcRevoked /\ sess'[q].rotated = sess[q].rotated
    BY <1>2
  <2> QED BY <1>2, <2>1, <2>2, Bump
<1>3. ASSUME NEW u \in User, NEW op \in Op, NEW st,
             <<op, st>> = <<"disable", "disabled">> \/ <<op, st>> = <<"enable", "active">>,
             SetUserStatus(r, u, op, st)
      PROVE  SessionsInv'
  <2>1. /\ UNCHANGED <<pw, known, reset, sess, ticket>> /\ NewGeneration(u)
        /\ lock = NoReq /\ lock' = r /\ status' = [status EXCEPT ![u] = st]
    BY <1>3 DEF SetUserStatus, Enter
  <2>2. PasswordsOrdered'
    BY <2>1, Untouched
  <2>3. /\ req'[r].pc = IF op = "disable" THEN "sessions" ELSE "credentials"
        /\ req'[r].op = op /\ req'[r].user = u /\ \A x \in Req : x # r => req'[x] = req[x]
    BY <1>1, <1>3 DEF SetUserStatus, Pc
  <2>4. op = "disable" => status'[u] # "active"
    BY <1>3, <2>1 DEF SessionsInv, SessionsTypeOK
  <2>5. RequestOK(req[r])' /\ AccountOK(req[r])'
    BY <1>2, <1>3, <2>1, <2>3, <2>4 DEF RequestOK, AccountOK
  <2> QED BY <1>2, <2>1, <2>2, <2>3, <2>5, InvStep
<1>4. ASSUME NEW u \in User, ResetUserPassword(r, u) PROVE SessionsInv'
  <2>1. /\ UNCHANGED <<status, known, sess, ticket>> /\ NewGeneration(u)
        /\ lock = NoReq /\ lock' = r
        /\ pw' = [pw EXCEPT ![u] = pw[u] + 1] /\ reset' = [reset EXCEPT ![u] = pw'[u]]
    BY <1>4 DEF ResetUserPassword, Enter
  <2>2. /\ pw \in [User -> Password] /\ reset \in [User -> Password]
        /\ \A w \in User : /\ pw[w] \in Nat /\ known[w] \in Nat /\ reset[w] \in Nat
                            /\ known[w] <= pw[w] /\ reset[w] <= pw[w]
    BY Numbers DEF SessionsInv, SessionsTypeOK, PasswordsOrdered
  <2>3. PasswordsOrdered' /\ known'[u] < pw'[u] /\ \A w \in User : w # u => reset'[w] = reset[w]
    BY <2>1, <2>2 DEF PasswordsOrdered
  <2>4. /\ req'[r].pc = "sessions" /\ req'[r].op = "reset" /\ req'[r].user = u
        /\ \A x \in Req : x # r => req'[x] = req[x]
    BY <1>1, <1>4 DEF ResetUserPassword, Pc, Op
  <2>5. RequestOK(req[r])' /\ AccountOK(req[r])'
    BY <1>2, <2>1, <2>3, <2>4 DEF RequestOK, AccountOK
  <2> QED BY <1>2, <2>1, <2>3, <2>4, <2>5, InvStep
<1>5. CASE RevokeUserSessions(r)
  <2>1. /\ UNCHANGED <<userVars, ticket, lock>> /\ req[r].pc = "sessions" /\ lock = r
        /\ sess' = sess \/ sess' = RevokeSessions(req[r].user)
    BY <1>0, <1>5 DEF RevokeUserSessions, Locking
  <2>2. RowsSame /\ RowsKept
    BY <1>0, <2>1, RevokedRows DEF RowsSame, RowsKept, SameRow, SessionsInv
  <2>3. CredentialsDead' /\ PasswordsOrdered' /\ TicketsCurrent' /\ \A w \in User : gen'[w] >= gen[w]
    BY <2>1, <2>2, Untouched, RowsInv DEF userVars
  <2>4. req[r].op \in {"disable", "reset"}
    BY <1>0, <2>1 DEF RequestOK
  <2>5. /\ req'[r].pc = "credentials" /\ req'[r].op = req[r].op /\ req'[r].user = req[r].user
        /\ \A x \in Req : x # r => req'[x] = req[x]
    BY <1>5, <2>4, Moves DEF RevokeUserSessions, Pc, Op
  <2>6. RequestOK(req[r])'
    BY <2>4, <2>5 DEF RequestOK
  <2>7. AccountOK(req[r])'
    BY <1>0, <2>1, <2>2, <2>4, <2>5 DEF AccountOK, RowsKept, userVars
  <2> QED BY <2>1, <2>2, <2>3, <2>5, <2>6, <2>7, InvStep
<1>6. CASE RevokeUserCredentials(r)
  <2> DEFINE u == req[r].user
  <2>1. /\ UNCHANGED <<status, gen, pw, reset, ticket>> /\ lock = r /\ req[r].pc = "credentials"
        /\ req[r].op \in {"disable", "enable", "reset"}
        /\ sess' = sess \/ (req[r].op # "enable" /\ sess' = RevokeCredentials(u))
        /\ known' = [known EXCEPT ![u] = IF req[r].op = "reset" THEN pw[u] ELSE @]
    BY <1>0, <1>6 DEF RevokeUserCredentials, Locking
  <2>2. req'[r].pc = "free" /\ \A x \in Req : x # r => req'[x] = req[x]
    BY <1>6, Moves DEF RevokeUserCredentials
  <2>3. RequestOK(req[r])' /\ AccountOK(req[r])' /\ ~Locking(req[r])'
    BY <2>2 DEF RequestOK, AccountOK, Locking
  <2>4. TicketsCurrent' /\ \A w \in User : gen'[w] >= gen[w]
    BY <2>1, Untouched
  <2>5. PasswordsOrdered'
    <3>1. known \in [User -> Password] /\ \A w \in User : pw[w] \in Nat /\ known[w] \in Nat /\ reset[w] \in Nat
      BY Numbers DEF SessionsInv, SessionsTypeOK
    <3> QED BY <1>0, <2>1, <3>1 DEF SessionsInv, PasswordsOrdered
  <2>6. RowsKept /\ CredentialsDead'
    <3>1. CASE sess' = sess
      BY <2>4, <3>1, Untouched, RowsInv DEF RowsSame
    <3>2. CASE req[r].op # "enable" /\ sess' = RevokeCredentials(u)
      <4>1. /\ RowsKept
            /\ \A q \in Session : sess'[q].rotated = sess[q].rotated /\ sess'[q].revoked = sess[q].revoked
            /\ \A q \in Session : sess'[q].rcRevoked <=> (sess[q].rcRevoked \/ (sess[q].open /\ sess[q].user = u))
        BY <1>0, <3>2, RevokedRows DEF RowsKept, SameRow, SessionsInv
      <4>2. \A q \in Session : sess[q].open /\ sess[q].user = u => sess[q].gen < gen[u]
        BY <1>0, <2>1, <3>2 DEF AccountOK
      <4>3. CredentialsDead'
        BY <2>1, <4>1, <4>2 DEF CredentialsDead, RowsKept, SessionsInv
      <4> QED BY <4>1, <4>3
    <3> QED BY <2>1, <3>1, <3>2
  <2> QED BY <2>1, <2>2, <2>3, <2>4, <2>5, <2>6, InvStep
<1> QED BY <1>3, <1>4, <1>5, <1>6 DEF Administer, Op

\* One step per action.
LEMMA InvNext == SessionsInv /\ [Next]_vars => SessionsInv'
<1> SUFFICES ASSUME SessionsInv, [Next]_vars PROVE SessionsInv'
  OBVIOUS
<1>0. SessionsTypeOK'
  BY TypeNext DEF SessionsInv
<1>1. ASSUME NEW u \in User, NEW s \in Session, Login(u, s) PROVE SessionsInv'
  BY <1>0, <1>1, InvLogin
<1>2. ASSUME NEW u \in User, AdminResetFRPCredential(u) \/ DeleteUser(u) PROVE SessionsInv'
  <2>1. /\ RotateSecret(u) \/ (NewGeneration(u) /\ sess' = RevokeAll(u))
        /\ UNCHANGED <<pw, known, reset, ticket, req, lock>>
        /\ status' = status \/ status' = [status EXCEPT ![u] = "deleting"]
    BY <1>2 DEF AdminResetFRPCredential, DeleteUser, RotateSecret
  <2>2. \A w \in User : status'[w] = "active" => status[w] = "active"
    BY <2>1 DEF SessionsInv, SessionsTypeOK
  <2>3. /\ RowsKept /\ gen' = [gen EXCEPT ![u] = gen[u] + 1]
        /\ \A q \in Session : sess[q].user # u =>
              sess'[q].rcRevoked = sess[q].rcRevoked /\ sess'[q].rotated = sess[q].rotated
    BY <2>1, Rotation
  <2>4. CredentialsDead' /\ TicketsCurrent' /\ \A w \in User : gen'[w] >= gen[w]
    BY <1>0, <2>1, <2>3, Bump
  <2>5. PasswordsOrdered'
    BY <2>1, Untouched
  <2>6. ASSUME NEW r \in Req PROVE RequestOK(req[r])' /\ AccountOK(req[r])' /\ (Locking(req[r])' => lock' = r)
    <3>1. req'[r] = req[r] /\ (Locking(req[r]) => lock = r)
      BY <2>1, Untouched
    <3>2. RequestOK(req[r])' /\ AccountOK(req[r])'
      BY <1>0, <2>1, <2>2, <2>3, <2>4, <3>1, SameRequest
    <3> QED BY <2>1, <3>1, <3>2 DEF Locking
  <2> QED BY <1>0, <2>3, <2>4, <2>5, <2>6, Conclude
<1>3. ASSUME NEW r \in Req, Authenticate(r) \/ Handle(r) \/ Administer(r) PROVE SessionsInv'
  BY <1>0, <1>3, InvAuthenticate, InvHandle, InvAdminister
<1>4. \A r \in Req : Locking(req[r]) => lock = r
  BY Untouched
<1>5. ASSUME NEW s \in Session, Expire(s) PROVE SessionsInv'
  <2>1. UNCHANGED <<userVars, ticket, req, lock>>
    BY <1>5 DEF Expire
  <2>2. PICK d \in {"idle", "over"} : sess' = [sess EXCEPT ![s] = [sess[s] EXCEPT !.time = d]]
    BY <1>5 DEF Expire
  <2> DEFINE y == [sess[s] EXCEPT !.time = d]
  <2>3. sess[s] \in Sess /\ sess \in [Session -> Sess]
    BY DEF SessionsInv, SessionsTypeOK
  <2>4. /\ y.open = sess[s].open /\ y.user = sess[s].user /\ y.gen = sess[s].gen
        /\ y.revoked = sess[s].revoked
        /\ y.rcRevoked = sess[s].rcRevoked /\ y.rotated = sess[s].rotated
    BY <2>3 DEF Sess
  <2>5. sess' = [sess EXCEPT ![s] = y]
    BY <2>2
  <2> HIDE DEF y
  <2>6. RowsSame
    BY <2>3, <2>4, <2>5, OneRow
  <2> QED BY <1>0, <1>4, <2>1, <2>6, InvQuiet
<1>6. ASSUME NEW t \in ticket, ExpireTicket(t) PROVE SessionsInv'
  BY <1>0, <1>4, <1>6, InvQuiet, Untouched DEF ExpireTicket
<1>7. CASE Crash
  <2>1. \A r \in Req : req'[r].pc = "free" /\ ~Locking(req'[r])
    BY <1>7 DEF Crash, Idle, Locking
  <2> QED BY <1>0, <1>7, <2>1, InvQuiet, Untouched DEF Crash
<1>8. CASE UNCHANGED vars
  BY <1>0, <1>4, <1>8, InvQuiet, Untouched DEF vars, userVars
<1> QED BY <1>1, <1>2, <1>3, <1>5, <1>6, <1>7, <1>8 DEF Next

-----------------------------------------------------------------------------
(* Refinement of SingleSession.                                            *)

\* The refinement mapping.
Honours == [u \in User |-> {s \in Session : Honoured(s) /\ sess[s].user = u}]
Opens == [u \in User |-> OpenSessions(u)]

LEMMA SingleStep ==
    ASSUME NEW u \in User,
           \/ Honours' = Honours /\ Opens' = Opens
           \/ Honours' = [Honours EXCEPT ![u] = {}] /\ Opens' = Opens
           \/ \E s \in Session : /\ \A w \in User : s \notin Opens[w]
                                 /\ Honours' = [Honours EXCEPT ![u] = {s}]
                                 /\ Opens' = [Opens EXCEPT ![u] = Opens[u] \cup {s}]
    PROVE  [Single!SNext]_(Single!svars)
<1>1. CASE Honours' = Honours /\ Opens' = Opens
  BY <1>1 DEF Single!svars, Honours, Opens
<1>2. CASE Honours' = [Honours EXCEPT ![u] = {}] /\ Opens' = Opens
  <2>1. Single!Close(u)
    BY <1>2 DEF Single!Close, Honours, Opens
  <2> QED BY <2>1 DEF Single!SNext
<1>3. ASSUME NEW s \in Session, \A w \in User : s \notin Opens[w],
             Honours' = [Honours EXCEPT ![u] = {s}], Opens' = [Opens EXCEPT ![u] = Opens[u] \cup {s}]
      PROVE  [Single!SNext]_(Single!svars)
  <2>1. Single!Open(u, s)
    BY <1>3 DEF Single!Open, Honours, Opens
  <2> QED BY <2>1 DEF Single!SNext
<1> QED BY <1>1, <1>2, <1>3

\* An account has one honoured session at most.
LEMMA AtMostOne ==
    ASSUME SessionsInv, NEW s \in Session, NEW q \in Session, Honoured(s), Honoured(q),
           sess[s].user = sess[q].user
    PROVE  s = q
BY DEF SessionsInv, GenerationsOrdered, Honoured, Live

LEMMA OpensNone ==
    ASSUME SessionsInv, RowsKept, NEW u \in User,
           \A q \in Session : sess[q].user # u => (Honoured(q)' <=> Honoured(q)),
           \A q \in Session : sess[q].user = u /\ Honoured(q)' => Honoured(q)
    PROVE  [Single!SNext]_(Single!svars)
<1>1. Opens' = Opens
  BY DEF Opens, OpenSessions, RowsKept
<1>2. \A w \in User : w # u => Honours'[w] = Honours[w]
  BY DEF Honours, RowsKept
<1>3. Honours'[u] = Honours[u] \/ Honours'[u] = {}
  <2> SUFFICES ASSUME NEW s \in Honours'[u] PROVE Honours'[u] = Honours[u]
    OBVIOUS
  <2>1. s \in Session /\ Honoured(s)' /\ sess'[s].user = u
    BY DEF Honours
  <2>2. sess[s].user = u /\ Honoured(s)
    BY <2>1 DEF RowsKept
  <2>3. Honours[u] = {s}
    BY <2>1, <2>2, AtMostOne DEF Honours
  <2>4. Honours'[u] \subseteq Honours[u]
    BY DEF Honours, RowsKept
  <2> QED BY <2>3, <2>4
<1>4. Honours' = Honours \/ Honours' = [Honours EXCEPT ![u] = {}]
  <2>1. Honours = [w \in User |-> Honours[w]] /\ Honours' = [w \in User |-> Honours'[w]]
    BY DEF Honours
  <2> QED BY <1>2, <1>3, <2>1
<1> QED BY <1>1, <1>4, SingleStep

\* A step that leaves the rows of other accounts as far as Authenticate reads them.
LEMMA OthersHonoured ==
    ASSUME SessionsInv, RowsKept, NEW u \in User,
           \A q \in Session : sess[q].user # u =>
               (sess'[q].revoked <=> sess[q].revoked) /\ sess'[q].time = sess[q].time,
           \A w \in User : w # u => gen'[w] = gen[w] /\ status'[w] = status[w]
    PROVE  \A q \in Session : sess[q].user # u => (Honoured(q)' <=> Honoured(q))
BY Numbers DEF RowsKept, Honoured, Live, SessionsInv

LEMMA SingleLogin ==
    ASSUME SessionsInv, SessionsInv', NEW u \in User, NEW s \in Session, Login(u, s)
    PROVE  [Single!SNext]_(Single!svars)
<1>1. /\ gen' = [gen EXCEPT ![u] = gen[u] + 1] /\ gen \in [User -> Gen] /\ gen'[u] \in Nat
      /\ status' = status /\ status[u] = "active" /\ ~sess[s].open
  BY Numbers DEF Login, NewGeneration, NextId, SessionsInv, SessionsTypeOK, Gen, Session
<1>2. /\ sess'[s].open /\ ~sess'[s].revoked /\ sess'[s].time = "ahead"
      /\ sess'[s].user = u /\ sess'[s].gen = gen'[u]
  BY RevokeType DEF Login, SessionsInv
<1>3. ASSUME NEW q \in Session, q # s
      PROVE  /\ sess'[q].open = sess[q].open /\ sess'[q].user = sess[q].user /\ sess'[q].gen = sess[q].gen
             /\ sess'[q].time = sess[q].time
             /\ sess[q].user # u => (sess'[q].revoked <=> sess[q].revoked)
  <2>1. sess'[q] = RevokeSessions(u)[q]
    BY <1>3, RevokeType DEF Login, SessionsInv
  <2> QED BY <2>1, RevokedRows DEF SameRow, SessionsInv
<1>4. Honoured(s)'
  BY <1>1, <1>2 DEF Honoured, Live
<1>5. ASSUME NEW q \in Session, q # s PROVE Honoured(q)' <=> Honoured(q) /\ sess[q].user # u
  <2>1. CASE sess[q].user = u
    <3>1. sess'[q].user = u
      BY <1>3, <1>5, <2>1
    <3>2. ~Honoured(q)'
      BY <1>2, <1>5, <3>1 DEF Honoured, Live, SessionsInv, GenerationsOrdered
    <3> QED BY <2>1, <3>2
  <2>2. CASE sess[q].user # u
    <3>1. sess[q].user \in User /\ gen'[sess[q].user] = gen[sess[q].user]
      BY <1>1, <2>2, Numbers DEF SessionsInv
    <3> QED BY <1>1, <1>3, <1>5, <2>2, <3>1 DEF Honoured, Live
  <2> QED BY <2>1, <2>2
<1>6. \A w \in User : s \notin Opens[w]
  BY <1>1 DEF Opens, OpenSessions
<1>7. Opens' = [Opens EXCEPT ![u] = Opens[u] \cup {s}]
  <2>1. \A w \in User : Opens'[w] = IF w = u THEN Opens[u] \cup {s} ELSE Opens[w]
    BY <1>1, <1>2, <1>3 DEF Opens, OpenSessions
  <2>2. Opens = [w \in User |-> Opens[w]] /\ Opens' = [w \in User |-> Opens'[w]]
    BY DEF Opens
  <2> QED BY <2>1, <2>2
<1>8. Honours' = [Honours EXCEPT ![u] = {s}]
  <2>0. ~Honoured(s)
    BY <1>1 DEF Honoured, Live
  <2>1. \A w \in User : Honours'[w] = IF w = u THEN {s} ELSE Honours[w]
    <3>1. Honours'[u] = {s}
      BY <1>2, <1>3, <1>4, <1>5 DEF Honours
    <3>2. ASSUME NEW w \in User, w # u PROVE Honours'[w] = Honours[w]
      BY <1>2, <1>3, <1>5, <2>0, <3>2 DEF Honours
    <3> QED BY <3>1, <3>2
  <2>2. Honours = [w \in User |-> Honours[w]] /\ Honours' = [w \in User |-> Honours'[w]]
    BY DEF Honours
  <2> QED BY <2>1, <2>2
<1> QED BY <1>6, <1>7, <1>8, SingleStep

\* A new generation ends the session of its account.
LEMMA SingleBump ==
    ASSUME SessionsInv, RowsKept, NEW u \in User, gen' = [gen EXCEPT ![u] = gen[u] + 1],
           \A q \in Session : sess[q].user # u =>
               (sess'[q].revoked <=> sess[q].revoked) /\ sess'[q].time = sess[q].time,
           \A w \in User : w # u => status'[w] = status[w]
    PROVE  [Single!SNext]_(Single!svars)
<1>1. gen \in [User -> Gen] /\ gen[u] \in Nat /\ \A q \in Session : sess[q].gen \in Nat
  BY Numbers DEF SessionsInv, SessionsTypeOK
<1>2. gen'[u] = gen[u] + 1 /\ \A w \in User : w # u => gen'[w] = gen[w]
  BY <1>1
<1>3. \A q \in Session : sess[q].user # u => (Honoured(q)' <=> Honoured(q))
  BY <1>2, OthersHonoured
<1>4. ASSUME NEW q \in Session, sess[q].user = u, Honoured(q)' PROVE FALSE
  <2>1. sess[q].open /\ sess[q].gen = gen'[u]
    BY <1>4 DEF Honoured, Live, RowsKept
  <2>2. sess[q].gen <= gen[u]
    BY <1>4, <2>1 DEF SessionsInv, GenerationsOrdered
  <2> QED BY <1>1, <1>2, <2>1, <2>2
<1> QED BY <1>3, <1>4, OpensNone

\* A step that keeps accounts and lets at most one account's rows lose their use.
LEMMA SingleRevoke ==
    ASSUME SessionsInv, RowsKept, UNCHANGED <<gen, status>>, NEW u \in User,
           \A q \in Session :
               /\ sess[q].user # u =>
                     (sess'[q].revoked <=> sess[q].revoked) /\ sess'[q].time = sess[q].time
               /\ sess'[q].time # "over" => sess[q].time # "over"
    PROVE  [Single!SNext]_(Single!svars)
<1>1. \A q \in Session : sess[q].user # u => (Honoured(q)' <=> Honoured(q))
  BY OthersHonoured
<1>2. \A q \in Session : sess[q].user = u /\ Honoured(q)' => Honoured(q)
  BY DEF Honoured, Live, RowsKept
<1> QED BY <1>1, <1>2, OpensNone

\* Every step of Sessions is a step of SingleSession or leaves its variables alone.
LEMMA SingleNext == SessionsInv /\ SessionsInv' /\ [Next]_vars => [Single!SNext]_(Single!svars)
<1> SUFFICES ASSUME SessionsInv, SessionsInv', [Next]_vars PROVE [Single!SNext]_(Single!svars)
  OBVIOUS
<1>0. /\ sess \in [Session -> Sess] /\ \A r \in Req : req[r].user \in User /\ RequestOK(req[r])
      /\ \A q \in Session : sess[q] \in Sess /\ sess[q].user \in User
  BY Untouched, Numbers DEF SessionsInv, SessionsTypeOK
<1>1. ASSUME NEW u \in User, NEW s \in Session, Login(u, s) PROVE [Single!SNext]_(Single!svars)
  BY <1>1, SingleLogin
<1>2. ASSUME NEW u \in User, RotateSecret(u) \/ (NewGeneration(u) /\ sess' = RevokeAll(u)),
             \A w \in User : w # u => status'[w] = status[w]
      PROVE  [Single!SNext]_(Single!svars)
  <2>1. RowsKept /\ gen' = [gen EXCEPT ![u] = gen[u] + 1]
    BY <1>2, Rotation
  <2>2. ASSUME NEW q \in Session, sess[q].user # u
        PROVE  (sess'[q].revoked <=> sess[q].revoked) /\ sess'[q].time = sess[q].time
    <3> DEFINE z == RevokeAll(u)[q]
    <3>1. /\ SameRow(z, q) /\ z \in Sess
          /\ z.revoked <=> (sess[q].revoked \/ (sess[q].open /\ sess[q].user = u))
      BY RevokedRows, RevokeType DEF SessionsInv
    <3>2. \/ sess'[q] = z
          \/ sess'[q] = [z EXCEPT !.rotated = z.rotated \/ q \in OpenSessions(u)]
      BY <1>2 DEF RotateSecret
    <3> HIDE DEF z
    <3>3. sess'[q].revoked = z.revoked /\ sess'[q].time = z.time
      BY <3>1, <3>2 DEF Sess
    <3> QED BY <2>2, <3>1, <3>3 DEF SameRow
  <2> QED BY <1>2, <2>1, <2>2, SingleBump
<1>3. ASSUME UNCHANGED <<status, gen, sess>> PROVE [Single!SNext]_(Single!svars)
  <2>1. Honours' = Honours /\ Opens' = Opens
    BY <1>3 DEF Honours, Opens, OpenSessions, Honoured, Live
  <2> QED BY <2>1 DEF Single!svars, Honours, Opens
<1>4. ASSUME NEW s \in Session, NEW y, sess' = [sess EXCEPT ![s] = y], UNCHANGED <<gen, status>>,
             y.open = sess[s].open, y.user = sess[s].user, y.gen = sess[s].gen,
             sess[s].revoked => y.revoked, y.time # "over" => sess[s].time # "over"
      PROVE  [Single!SNext]_(Single!svars)
  <2>1. sess'[s] = y /\ \A q \in Session : q # s => sess'[q] = sess[q]
    BY <1>0, <1>4
  <2>2. RowsKept
    BY <1>0, <1>4, OneRow
  <2>3. ASSUME NEW q \in Session
        PROVE  /\ sess[q].user # sess[s].user =>
                     (sess'[q].revoked <=> sess[q].revoked) /\ sess'[q].time = sess[q].time
               /\ sess'[q].time # "over" => sess[q].time # "over"
    <3>1. CASE q = s
      BY <1>4, <2>1, <3>1
    <3>2. CASE q # s
      BY <2>1, <3>2
    <3> QED BY <3>1, <3>2
  <2>4. sess[s].user \in User
    BY <1>0
  <2> QED BY <1>4, <2>2, <2>3, <2>4, SingleRevoke
<1>5. ASSUME NEW u \in User, AdminResetFRPCredential(u) \/ DeleteUser(u)
      PROVE  [Single!SNext]_(Single!svars)
  <2>1. \A w \in User : w # u => status'[w] = status[w]
    BY <1>5 DEF AdminResetFRPCredential, RotateSecret, DeleteUser, SessionsInv, SessionsTypeOK
  <2> QED BY <1>2, <1>5, <2>1 DEF AdminResetFRPCredential, DeleteUser
<1>6. ASSUME NEW r \in Req, Authenticate(r) PROVE [Single!SNext]_(Single!svars)
  <2>1. CASE sess' = sess
    BY <1>3, <1>6, <2>1 DEF Authenticate, FindSession, CheckGeneration, userVars
  <2>2. CASE sess' # sess
    <3> DEFINE s == req[r].session
    <3> DEFINE y == [sess[s] EXCEPT !.time = "ahead"]
    <3>1. CheckGeneration(r) /\ UNCHANGED <<gen, status>>
      BY <1>6, <2>2 DEF Authenticate, FindSession, CheckGeneration, userVars
    <3>2. s \in Session /\ sess[s] \in Sess
      BY <1>0, <3>1 DEF CheckGeneration, RequestOK
    <3>3. sess' = [sess EXCEPT ![s] = y] /\ sess[s].time = "idle"
      BY <2>2, <3>1 DEF CheckGeneration
    <3>4. y.open = sess[s].open /\ y.user = sess[s].user /\ y.gen = sess[s].gen /\ y.revoked = sess[s].revoked
      BY <3>2 DEF Sess
    <3> HIDE DEF y, s
    <3> QED BY <1>4, <3>1, <3>2, <3>3, <3>4
  <2> QED BY <2>1, <2>2
<1>7. ASSUME NEW r \in Req, Handle(r) PROVE [Single!SNext]_(Single!svars)
  <2> DEFINE s == req[r].session
  <2>1. CASE LogoutSession(r) \/ LogoutCredentials(r)
    <3> DEFINE y == [sess[s] EXCEPT !.revoked = TRUE]
    <3> DEFINE z == [sess[s] EXCEPT !.rcRevoked = TRUE]
    <3>1. UNCHANGED <<gen, status>> /\ (sess' = [sess EXCEPT ![s] = y] \/ sess' = [sess EXCEPT ![s] = z])
      BY <2>1 DEF LogoutSession, LogoutCredentials, userVars
    <3>2. s \in Session /\ sess[s] \in Sess
      BY <1>0, <2>1 DEF LogoutSession, LogoutCredentials, Enter, RequestOK
    <3>3. /\ y.open = sess[s].open /\ y.user = sess[s].user /\ y.gen = sess[s].gen
          /\ y.revoked = TRUE /\ y.time = sess[s].time
      BY <3>2 DEF Sess
    <3>4. /\ z.open = sess[s].open /\ z.user = sess[s].user /\ z.gen = sess[s].gen
          /\ z.revoked = sess[s].revoked /\ z.time = sess[s].time
      BY <3>2 DEF Sess
    <3> HIDE DEF y, z, s
    <3>5. CASE sess' = [sess EXCEPT ![s] = y]
      BY <1>4, <3>1, <3>2, <3>3, <3>5
    <3>6. CASE sess' = [sess EXCEPT ![s] = z]
      BY <1>4, <3>1, <3>2, <3>4, <3>6
    <3> QED BY <3>1, <3>5, <3>6
  <2>2. CASE VerifyPassword(r) \/ ChangePassword(r) \/ IssueTicket(r) \/ RequireReauthTicket(r) \/ Abandon(r)
    BY <1>3, <2>2 DEF VerifyPassword, ChangePassword, IssueTicket, RequireReauthTicket, Abandon, userVars
  <2>3. CASE ResetFRPCredential(r)
    <3>1. RotateSecret(req[r].user) /\ status' = status
      BY <2>3 DEF ResetFRPCredential, RotateSecret
    <3> QED BY <1>0, <1>2, <3>1
  <2> QED BY <1>7, <2>1, <2>2, <2>3 DEF Handle
<1>8. ASSUME NEW r \in Req, Administer(r) PROVE [Single!SNext]_(Single!svars)
  <2>1. ASSUME NEW u \in User, NewGeneration(u), UNCHANGED sess,
               \A w \in User : w # u => status'[w] = status[w]
        PROVE  [Single!SNext]_(Single!svars)
    <3>1. RowsKept /\ gen' = [gen EXCEPT ![u] = gen[u] + 1]
      BY <2>1 DEF RowsKept, NewGeneration
    <3>2. \A q \in Session : (sess'[q].revoked <=> sess[q].revoked) /\ sess'[q].time = sess[q].time
      BY <2>1
    <3> QED BY <2>1, <3>1, <3>2, SingleBump
  <2>2. ASSUME NEW u \in User, NEW op, NEW st, SetUserStatus(r, u, op, st) PROVE [Single!SNext]_(Single!svars)
    <3>1. \A w \in User : w # u => status'[w] = status[w]
      BY <2>2 DEF SetUserStatus, SessionsInv, SessionsTypeOK
    <3> QED BY <2>1, <2>2, <3>1 DEF SetUserStatus
  <2>3. ASSUME NEW u \in User, ResetUserPassword(r, u) PROVE [Single!SNext]_(Single!svars)
    BY <2>1, <2>3 DEF ResetUserPassword
  <2>4. CASE RevokeUserSessions(r) \/ RevokeUserCredentials(r)
    <3> DEFINE u == req[r].user
    <3>1. /\ UNCHANGED <<gen, status>> /\ u \in User
          /\ sess' = sess \/ sess' = RevokeSessions(u) \/ sess' = RevokeCredentials(u)
      BY <1>0, <2>4 DEF RevokeUserSessions, RevokeUserCredentials, userVars
    <3> HIDE DEF u
    <3>2. CASE sess' = sess
      BY <1>3, <3>1, <3>2
    <3>3. CASE sess' = RevokeSessions(u)
      <4>1. \A q \in Session : /\ SameRow(sess'[q], q)
                               /\ sess'[q].revoked <=> (sess[q].revoked \/ (sess[q].open /\ sess[q].user = u))
        BY <3>1, <3>3, RevokedRows DEF SessionsInv
      <4>2. RowsKept
        BY <4>1 DEF RowsKept, SameRow
      <4>3. \A q \in Session : /\ sess[q].user # u => (sess'[q].revoked <=> sess[q].revoked)
                               /\ sess'[q].time = sess[q].time
        BY <4>1 DEF SameRow
      <4> QED BY <3>1, <4>2, <4>3, SingleRevoke
    <3>4. CASE sess' = RevokeCredentials(u)
      <4>1. \A q \in Session : SameRow(sess'[q], q) /\ sess'[q].revoked = sess[q].revoked
        BY <3>1, <3>4, RevokedRows DEF SessionsInv
      <4>2. RowsKept
        BY <4>1 DEF RowsKept, SameRow
      <4>3. \A q \in Session : (sess'[q].revoked <=> sess[q].revoked) /\ sess'[q].time = sess[q].time
        BY <4>1 DEF SameRow
      <4> QED BY <3>1, <4>2, <4>3, SingleRevoke
    <3> QED BY <3>1, <3>2, <3>3, <3>4
  <2> QED BY <1>8, <2>2, <2>3, <2>4 DEF Administer
<1>9. ASSUME NEW s \in Session, Expire(s) PROVE [Single!SNext]_(Single!svars)
  <2>1. PICK d \in {"idle", "over"} : sess' = [sess EXCEPT ![s] = [sess[s] EXCEPT !.time = d]]
    BY <1>9 DEF Expire
  <2> DEFINE y == [sess[s] EXCEPT !.time = d]
  <2>2. /\ y.open = sess[s].open /\ y.user = sess[s].user /\ y.gen = sess[s].gen
        /\ y.revoked = sess[s].revoked
    BY <1>0 DEF Sess
  <2>3. sess' = [sess EXCEPT ![s] = y] /\ UNCHANGED <<gen, status>> /\ sess[s].time # "over"
    BY <1>9, <2>1 DEF Expire, userVars
  <2> HIDE DEF y
  <2> QED BY <1>4, <2>2, <2>3
<1>10. CASE UNCHANGED <<status, gen, sess>>
  BY <1>3, <1>10
<1>11. (\E t \in ticket : ExpireTicket(t)) \/ Crash \/ UNCHANGED vars => UNCHANGED <<status, gen, sess>>
  BY DEF ExpireTicket, Crash, vars, userVars
<1> QED BY <1>1, <1>5, <1>6, <1>7, <1>8, <1>9, <1>10, <1>11 DEF Next

LEMMA SingleInit == Init => Single!SInit
BY DEF Init, Single!SInit, Honoured, Live, OpenSessions

-----------------------------------------------------------------------------
(* The theorems.                                                           *)

LEMMA SessionsInvariant == Spec => []SessionsInv
<1>1. Init => SessionsInv
  BY InvInit
<1>2. SessionsInv /\ [Next]_vars => SessionsInv'
  BY InvNext
<1> QED BY <1>1, <1>2, PTL DEF Spec

\* Every reachable state of the sessions, credentials, tickets, requests and the lock is of
\* the type its columns and handlers give it.
THEOREM SessionsTypeCorrect == Spec => []SessionsTypeOK
<1>1. SessionsInv => SessionsTypeOK
  BY DEF SessionsInv
<1> QED BY <1>1, SessionsInvariant, PTL

\* The statements of Login, Logout, SetUserStatus, ResetUserPassword, ResetFRPCredential and
\* DeleteUser, in any interleaving and cut off anywhere, implement the promise that an account
\* has one honoured session at most and that none comes back.
THEOREM SessionsImplementSingle == Spec => OneSession
<1>1. Init => Single!SInit
  BY SingleInit
<1>2. SessionsInv /\ SessionsInv' /\ [Next]_vars => [Single!SNext]_(Single!svars)
  BY SingleNext
<1> QED BY <1>1, <1>2, SessionsInvariant, PTL DEF Spec, OneSession, Single!SSpec

\* No late or repeated revocation takes the FRP credential of the session that requests are
\* accepted from.
THEOREM CredentialKept == Spec => []CredentialOfSession
<1>1. SessionsInv => CredentialOfSession
  <2> SUFFICES ASSUME SessionsInv, NEW s \in Session, Honoured(s) PROVE FRPAllowed(s)
    BY DEF CredentialOfSession
  <2>1. sess[s].open /\ ~sess[s].revoked /\ sess[s].gen = gen[sess[s].user] /\ sess[s].gen \in Nat
    BY Numbers DEF Honoured, Live, SessionsInv
  <2>2. ~sess[s].rcRevoked /\ ~sess[s].rotated
    BY <2>1 DEF SessionsInv, CredentialsDead
  <2> QED BY <2>1, <2>2 DEF FRPAllowed, Honoured
<1> QED BY <1>1, SessionsInvariant, PTL

\* A ticket that the honoured session can use was issued against a password that no reset has
\* overruled.
THEOREM TicketsOfThisPassword == Spec => []TicketOfThisPassword
<1>1. SessionsInv => TicketOfThisPassword
  BY DEF SessionsInv, TicketsCurrent, TicketOfThisPassword, Honoured
<1> QED BY <1>1, SessionsInvariant, PTL

\* The password is written by a reset or by a request that still knows the password it overwrites.
THEOREM PasswordChangedByOwner == Spec => ChangedByOwner
<1> DEFINE A == \A u \in User : pw'[u] # pw[u] =>
                   \/ reset'[u] # reset[u]
                   \/ \E r \in Req : req[r].op = "change" /\ req[r].user = u /\ req[r].know = pw[u]
<1>1. SessionsInv /\ [Next]_vars => [A]_vars
  <2> SUFFICES ASSUME SessionsInv, [Next]_vars, NEW u \in User, pw'[u] # pw[u], reset'[u] = reset[u]
               PROVE  \E r \in Req : req[r].op = "change" /\ req[r].user = u /\ req[r].know = pw[u]
    OBVIOUS
  <2>1. /\ pw \in [User -> Password] /\ reset \in [User -> Password]
        /\ \A w \in User : pw[w] \in Nat /\ reset[w] \in Nat /\ reset[w] <= pw[w]
        /\ \A r \in Req : req[r].user \in User
    BY Numbers DEF SessionsInv, SessionsTypeOK, PasswordsOrdered
  <2>2. ASSUME NEW r \in Req, NEW w \in User, ResetUserPassword(r, w) PROVE FALSE
    <3>1. pw' = [pw EXCEPT ![w] = pw[w] + 1] /\ reset' = [reset EXCEPT ![w] = pw'[w]]
      BY <2>2 DEF ResetUserPassword
    <3> QED BY <2>1, <3>1
  <2>3. ASSUME NEW r \in Req, ChangePassword(r)
        PROVE  req[r].op = "change" /\ req[r].user = u /\ req[r].know = pw[u]
    <3>1. req[r].user = u
      BY <2>1, <2>3 DEF ChangePassword
    <3>2. req[r].op = "change" /\ req[r].pc = "verified"
      BY <2>3 DEF ChangePassword
    <3> QED BY <3>1, <3>2 DEF SessionsInv, VerifiedHolds
  <2>4. \E r \in Req : ChangePassword(r) \/ \E w \in User : ResetUserPassword(r, w)
    <3> SUFFICES ASSUME ~\E r \in Req : ChangePassword(r) \/ \E w \in User : ResetUserPassword(r, w)
                 PROVE  pw' = pw
      OBVIOUS
    <3>1. ASSUME NEW r \in Req, Authenticate(r) \/ Handle(r) \/ Administer(r) PROVE pw' = pw
      <4>1. CASE Authenticate(r)
        BY <4>1 DEF Authenticate, FindSession, CheckGeneration, userVars
      <4>2. CASE Handle(r)
        BY <4>2 DEF Handle, LogoutSession, LogoutCredentials, VerifyPassword, IssueTicket,
                    RequireReauthTicket, ResetFRPCredential, RotateSecret, Abandon, userVars
      <4>3. CASE Administer(r)
        BY <4>3 DEF Administer, SetUserStatus, RevokeUserSessions, RevokeUserCredentials, userVars
      <4> QED BY <3>1, <4>1, <4>2, <4>3
    <3> QED BY <3>1 DEF Next, Login, AdminResetFRPCredential, RotateSecret, DeleteUser, Expire,
                      ExpireTicket, Crash, vars, userVars
  <2> QED BY <2>2, <2>3, <2>4
<1> QED BY <1>1, SessionsInvariant, PTL DEF Spec, ChangedByOwner

=============================================================================
