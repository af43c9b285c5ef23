------------------------------ MODULE Sessions ------------------------------
(***************************************************************************)
(* Client sessions: Login, the statements of Authenticate, the             *)
(* requests that end or renew an account's authority, reauthentication     *)
(* tickets and FRP runtime credentials (service.go, httpapi.go).           *)
(*                                                                         *)
(* A request is authenticated before it takes the lock of the idempotency  *)
(* middleware, so what it has been told about its session may be old when  *)
(* its handler runs.  Logins, rotations of the FRP secret and deletions of *)
(* accounts do not take the lock.                                          *)
(***************************************************************************)
EXTENDS Integers, FiniteSets

CONSTANTS
    User,           \* accounts with role 'user'
    MaxSessions,    \* bound: sessions ever opened
    Req,            \* requests being served
    NoReq,          \* nobody holds the lock
    MaxGeneration,  \* bound: active_session_generation
    MaxPassword,    \* bound: passwords an account ever has
    MaxTickets      \* bound: tickets in force

ASSUME NoneAssumption == NoReq \notin Req
ASSUME CountAssumption == /\ MaxSessions \in Nat /\ MaxGeneration \in Nat
                          /\ MaxPassword \in Nat /\ MaxTickets \in Nat

VARIABLES
    status,    \* users.status
    gen,       \* users.active_session_generation
    pw,        \* users.password_hash, as the number of the password
    known,     \* the last password its owner has been told or has chosen
    reset,     \* history: the password the last reset has set
    sess,      \* sessions, each with its frp_runtime_credentials row
    ticket,    \* reauth_tickets, with the password that was verified
    req,       \* requests under way
    lock       \* API.writeIdempotencyMu

vars == <<status, gen, pw, known, reset, sess, ticket, req, lock>>
userVars == <<status, gen, pw, known, reset>>

Session == 1..MaxSessions    \* ids, in the order of their creation
NoSession == 0               \* the request of an administrator
Gen == 0..MaxGeneration
Password == 0..MaxPassword

Sess == [user : User, gen : Gen, open : BOOLEAN, revoked : BOOLEAN,
         time : {"ahead", "idle", "over"},  \* which of its deadlines has passed
         rcRevoked : BOOLEAN,  \* its row of frp_runtime_credentials is revoked
         rotated : BOOLEAN]    \* the FRP secret it was given is not the account's any more
Ticket == [user : User, gen : Gen, pw : Password]
Op == {"none", "logout", "change", "ticket", "rotate", "disable", "enable", "reset"}
Pc == {"free", "found", "authed", "verified", "sessions", "credentials"}
Request == [pc : Pc, op : Op, user : User, session : Session \cup {NoSession}, know : Password]

-----------------------------------------------------------------------------
\* What Authenticate looks at first: the row and the account's status.
Live(s) == /\ sess[s].open /\ ~sess[s].revoked /\ sess[s].time # "over"
           /\ status[sess[s].user] = "active"

\* A session whose requests pass both checks of Authenticate, its idle deadline aside.
Honoured(s) == Live(s) /\ sess[s].gen = gen[sess[s].user]

\* authorizeFRP: the runtime credential of s and the FRP secret its Client was given.
FRPAllowed(s) == /\ Live(s) /\ ~sess[s].rcRevoked /\ ~sess[s].rotated
                 /\ sess[s].gen = gen[sess[s].user]

OpenSessions(u) == {s \in Session : sess[s].open /\ sess[s].user = u}

\* UPDATE sessions / frp_runtime_credentials SET revoked_at ... WHERE user_id = u.
RevokeSessions(u) ==
    [s \in Session |-> IF s \in OpenSessions(u) THEN [sess[s] EXCEPT !.revoked = TRUE] ELSE sess[s]]
RevokeCredentials(u) ==
    [s \in Session |-> IF s \in OpenSessions(u) THEN [sess[s] EXCEPT !.rcRevoked = TRUE] ELSE sess[s]]
RevokeAll(u) ==
    [s \in Session |-> IF s \in OpenSessions(u)
                       THEN [sess[s] EXCEPT !.revoked = TRUE, !.rcRevoked = TRUE] ELSE sess[s]]

\* Mutant: the account's status changes without a new generation.
NewGenerationKept(u) == UNCHANGED gen

\* active_session_generation = active_session_generation + 1
NewGeneration(u) == /\ gen[u] < MaxGeneration
                    /\ gen' = [gen EXCEPT ![u] = @ + 1]

Idle(u) == [pc |-> "free", op |-> "none", user |-> u, session |-> NoSession, know |-> 0]

-----------------------------------------------------------------------------
Init ==
    /\ status = [u \in User |-> "active"]
    /\ gen = [u \in User |-> 0]
    /\ pw = [u \in User |-> 0]
    /\ known = [u \in User |-> 0]
    /\ reset = [u \in User |-> 0]
    /\ \E u \in User :
          /\ sess = [s \in Session |->
                [user |-> u, gen |-> 0, open |-> FALSE, revoked |-> FALSE,
                 time |-> "ahead", rcRevoked |-> FALSE, rotated |-> FALSE]]
          /\ req = [r \in Req |-> Idle(u)]
    /\ ticket = {}
    /\ lock = NoReq

-----------------------------------------------------------------------------
(* Login, and the steps of Authenticate.                                   *)

\* s is a fresh id.
NextId(s) == \A q \in Session : sess[q].open <=> q < s

Login(u, s) ==
    /\ status[u] = "active" /\ known[u] = pw[u]
    /\ NextId(s)
    /\ NewGeneration(u)
    /\ sess' = [RevokeSessions(u) EXCEPT ![s] =
          [user |-> u, gen |-> gen'[u], open |-> TRUE, revoked |-> FALSE,
           time |-> "ahead", rcRevoked |-> FALSE, rotated |-> FALSE]]
    /\ UNCHANGED <<status, pw, known, reset, ticket, req, lock>>

\* The SELECT of the session and its account.
FindSession(r, s) ==
    /\ req[r].pc = "free"
    /\ Live(s) /\ sess[s].time = "ahead"
    /\ req' = [req EXCEPT ![r] = [pc |-> "found", op |-> "none", user |-> sess[s].user,
                                  session |-> s, know |-> known[sess[s].user]]]
    /\ UNCHANGED <<userVars, sess, ticket, lock>>

\* The SELECT of the account's generation, which refuses a replaced session, and the UPDATE of
\* the idle deadline, whose errors are ignored.  One step: of a session that is revoked between
\* the two nobody reads the deadline.
CheckGeneration(r) ==
    LET s == req[r].session IN
    /\ req[r].pc = "found"
    /\ IF gen[req[r].user] = sess[s].gen
       THEN /\ req' = [req EXCEPT ![r].pc = "authed"]
            /\ sess' \in {sess, IF sess[s].time = "idle" /\ ~sess[s].revoked
                                THEN [sess EXCEPT ![s].time = "ahead"] ELSE sess}
       ELSE req' = [req EXCEPT ![r] = Idle(@.user)] /\ UNCHANGED sess
    /\ UNCHANGED <<userVars, ticket, lock>>

-----------------------------------------------------------------------------
(* Handlers under the lock of the idempotency middleware.                  *)

\* Mutant: the middleware does not hold its lock while the handler runs.
EnterUnlocked(r, pc) == req[r].pc = pc /\ UNCHANGED lock

\* A handler starts when the lock is free: for a session's request after Authenticate ("authed");
\* an administrator's request ("free") arrives with its own authentication and ticket.
Enter(r, pc) == /\ req[r].pc = pc /\ lock = NoReq
                /\ lock' = r

Goto(r, pc, op) == req' = [req EXCEPT ![r].pc = pc, ![r].op = op]
Leave(r) == /\ req' = [req EXCEPT ![r] = Idle(req[r].user)]
            /\ lock' = IF lock = r THEN NoReq ELSE lock

\* A request that is refused or whose client has gone: its other statements do not run.
Abandon(r) == /\ req[r].pc # "free"
              /\ Leave(r)
              /\ UNCHANGED <<userVars, sess, ticket>>

LogoutSession(r) ==
    /\ Enter(r, "authed")
    /\ sess' = [sess EXCEPT ![req[r].session].revoked = TRUE]
    /\ Goto(r, "credentials", "logout")
    /\ UNCHANGED <<userVars, ticket>>

LogoutCredentials(r) ==
    /\ req[r].pc = "credentials" /\ req[r].op = "logout"
    /\ sess' = [sess EXCEPT ![req[r].session].rcRevoked = TRUE]
    /\ Leave(r)
    /\ UNCHANGED <<userVars, ticket>>

\* ChangeCredentials and IssueReauthTicket read the hash in a statement of its own.
VerifyPassword(r) ==
    /\ Enter(r, "authed")
    /\ req[r].know = pw[req[r].user]
    /\ \/ Goto(r, "verified", "change")
       \/ Goto(r, "verified", "ticket") /\ status[req[r].user] = "active"
    /\ UNCHANGED <<userVars, sess, ticket>>

\* ChangeCredentials: sessions and generation stay as they are.
ChangePassword(r) ==
    LET u == req[r].user IN
    /\ req[r].pc = "verified" /\ req[r].op = "change" /\ pw[u] < MaxPassword
    /\ pw' = [pw EXCEPT ![u] = @ + 1]
    /\ known' = [known EXCEPT ![u] = pw'[u]]
    /\ Leave(r)
    /\ UNCHANGED <<status, gen, reset, sess, ticket>>

IssueTicket(r) ==
    /\ req[r].pc = "verified" /\ req[r].op = "ticket" /\ Cardinality(ticket) < MaxTickets
    /\ ticket' = ticket \cup {[user |-> req[r].user, gen |-> sess[req[r].session].gen,
                               pw |-> req[r].know]}
    /\ Leave(r)
    /\ UNCHANGED <<userVars, sess>>

\* Mutant: the action's name is stored in place of the status it stands for.
SetUserStatusVerb(r, u, op, st) ==
    /\ Enter(r, "free")
    /\ status' = [status EXCEPT ![u] = op]
    /\ NewGeneration(u)
    /\ req' = [req EXCEPT ![r] = [Idle(u) EXCEPT !.op = op, !.pc = "sessions"]]
    /\ UNCHANGED <<pw, known, reset, sess, ticket>>

\* SetUserStatus, whatever the status was; only a disabled account's sessions are revoked.
SetUserStatus(r, u, op, st) ==
    /\ Enter(r, "free")
    /\ status' = [status EXCEPT ![u] = st]
    /\ NewGeneration(u)
    /\ req' = [req EXCEPT ![r] = [Idle(u) EXCEPT !.op = op, !.pc =
          IF op = "disable" THEN "sessions" ELSE "credentials"]]
    /\ UNCHANGED <<pw, known, reset, sess, ticket>>

ResetUserPassword(r, u) ==
    /\ Enter(r, "free") /\ pw[u] < MaxPassword
    /\ pw' = [pw EXCEPT ![u] = @ + 1]
    /\ reset' = [reset EXCEPT ![u] = pw'[u]]
    /\ NewGeneration(u)
    /\ req' = [req EXCEPT ![r] = [Idle(u) EXCEPT !.op = "reset", !.pc = "sessions"]]
    /\ UNCHANGED <<status, known, sess, ticket>>

\* The revocations after SetUserStatus and ResetUserPassword; their errors are ignored.
RevokeUserSessions(r) ==
    /\ req[r].pc = "sessions"
    /\ sess' \in {RevokeSessions(req[r].user), sess}
    /\ Goto(r, "credentials", req[r].op)
    /\ UNCHANGED <<userVars, ticket, lock>>

\* The last statements; the response to a reset tells the new password.
RevokeUserCredentials(r) ==
    LET u == req[r].user IN
    /\ req[r].pc = "credentials" /\ req[r].op \in {"disable", "enable", "reset"}
    /\ sess' \in {sess} \cup IF req[r].op = "enable" THEN {} ELSE {RevokeCredentials(u)}
    /\ known' = [known EXCEPT ![u] = IF req[r].op = "reset" THEN pw[u] ELSE @]
    /\ Leave(r)
    /\ UNCHANGED <<status, gen, pw, reset, ticket>>

-----------------------------------------------------------------------------
(* Transactions that do not take the lock.                                 *)

\* ResetFRPCredential: a new secret, a new generation, and nothing of the old one.
RotateSecret(u) ==
    /\ NewGeneration(u)
    /\ sess' = [s \in Session |-> [RevokeAll(u)[s] EXCEPT !.rotated = @ \/ s \in OpenSessions(u)]]
    /\ UNCHANGED <<status, pw, known, reset, ticket>>

\* A ticket of the request's own generation, which need not be the account's any more.
RequireReauthTicket(r) ==
    /\ req[r].pc = "authed"
    /\ \E t \in ticket : t.user = req[r].user /\ t.gen = sess[req[r].session].gen
    /\ Goto(r, "verified", "rotate")
    /\ UNCHANGED <<userVars, sess, ticket, lock>>

ResetFRPCredential(r) ==
    /\ req[r].pc = "verified" /\ req[r].op = "rotate"
    /\ RotateSecret(req[r].user)
    /\ Leave(r)

AdminResetFRPCredential(u) == RotateSecret(u) /\ UNCHANGED <<req, lock>>

\* DeleteUser, of which only the sessions matter here.
DeleteUser(u) ==
    /\ status[u] # "deleting"
    /\ status' = [status EXCEPT ![u] = "deleting"]
    /\ NewGeneration(u)
    /\ sess' = RevokeAll(u)
    /\ UNCHANGED <<pw, known, reset, ticket, req, lock>>

-----------------------------------------------------------------------------
(* Time, and the end of the process.                                       *)

\* The absolute or the idle deadline of a session passes (nothing asks after a revoked one);
\* a ticket expires.
Expire(s) == /\ sess[s].open /\ ~sess[s].revoked /\ sess[s].time # "over"
             /\ \E d \in {"idle", "over"} : sess' = [sess EXCEPT ![s].time = d]
             /\ UNCHANGED <<userVars, ticket, req, lock>>

ExpireTicket(t) == /\ ticket' = ticket \ {t}
                   /\ UNCHANGED <<userVars, sess, req, lock>>

\* The Server stops and is started again: the database is all that is left.
Crash == /\ req' = [r \in Req |-> Idle(req[r].user)]
         /\ lock' = NoReq
         /\ UNCHANGED <<userVars, sess, ticket>>

-----------------------------------------------------------------------------
Authenticate(r) == \/ \E s \in Session : FindSession(r, s)
                   \/ CheckGeneration(r)

Administer(r) == \/ \E u \in User : \/ SetUserStatus(r, u, "disable", "disabled")
                                    \/ SetUserStatus(r, u, "enable", "active")
                                    \/ ResetUserPassword(r, u)
                 \/ RevokeUserSessions(r) \/ RevokeUserCredentials(r)

Handle(r) == \/ LogoutSession(r) \/ LogoutCredentials(r)
             \/ VerifyPassword(r) \/ ChangePassword(r) \/ IssueTicket(r)
             \/ RequireReauthTicket(r) \/ ResetFRPCredential(r)
             \/ Abandon(r)

Next ==
    \/ \E u \in User : \/ \E s \in Session : Login(u, s)
                       \/ AdminResetFRPCredential(u) \/ DeleteUser(u)
    \/ \E r \in Req : Authenticate(r) \/ Handle(r) \/ Administer(r)
    \/ \E s \in Session : Expire(s)
    \/ \E t \in ticket : ExpireTicket(t)
    \/ Crash

Spec == Init /\ [][Next]_vars

-----------------------------------------------------------------------------
(* Properties.                                                             *)

\* Every variable has its type: statuses of users.status, generations, session rows with
\* their credential, tickets, requests by the step of their handler, and the lock's holder.
SessionsTypeOK ==
    /\ status \in [User -> {"active", "disabled", "deleting"}]
    /\ gen \in [User -> Gen]
    /\ pw \in [User -> Password] /\ known \in [User -> Password] /\ reset \in [User -> Password]
    /\ sess \in [Session -> Sess] /\ ticket \subseteq Ticket
    /\ req \in [Req -> Request] /\ lock \in Req \cup {NoReq}

\* Login, Logout, SetUserStatus, ResetUserPassword, ResetFRPCredential and DeleteUser, whose
\* statements may be cut off, implement SingleSession: an account has one honoured
\* Client session at most, and one that has been replaced or revoked never comes back.
Single == INSTANCE SingleSession WITH
    honoured <- [u \in User |-> {s \in Session : Honoured(s) /\ sess[s].user = u}],
    opened <- [u \in User |-> OpenSessions(u)]
OneSession == Single!SSpec

\* The session that requests are accepted from can run frpc: no revocation, late or
\* repeated, has taken its runtime credential or the secret it was given at login.
CredentialOfSession == \A s \in Session : Honoured(s) => FRPAllowed(s)

\* A ticket that RequireReauthTicket would accept from the honoured session was issued
\* against a password that no ResetUserPassword has overruled.
TicketOfThisPassword ==
    \A t \in ticket, s \in Session :
        Honoured(s) /\ t.user = sess[s].user /\ t.gen = sess[s].gen => t.pw >= reset[t.user]

\* ChangeCredentials verifies the old password in one statement and writes the new one in
\* another: whoever writes still knows the password he overwrites, so a reset stands.
ChangedByOwner ==
    [][\A u \in User : pw'[u] # pw[u] =>
          \/ reset'[u] # reset[u]
          \/ \E r \in Req : req[r].op = "change" /\ req[r].user = u /\ req[r].know = pw[u]]_vars

=============================================================================
