--------------------------- MODULE SingleSession ---------------------------
(***************************************************************************)
(* What the Server promises about Client sessions: an account has at most  *)
(* one session that is honoured, a login opens a new one in its place, and *)
(* a session that is no longer honoured never is again.                    *)
(***************************************************************************)
CONSTANTS User, Session

VARIABLES
    honoured,   \* the sessions of an account that requests are accepted from
    opened      \* the sessions an account has ever had

svars == <<honoured, opened>>

SInit == /\ honoured = [u \in User |-> {}]
         /\ opened = [u \in User |-> {}]

\* A login: the new session takes the place of the one before it.
Open(u, s) ==
    /\ \A w \in User : s \notin opened[w]
    /\ honoured' = [honoured EXCEPT ![u] = {s}]
    /\ opened' = [opened EXCEPT ![u] = @ \cup {s}]

\* Logout, expiry, a new generation, a disabled account.
Close(u) == /\ honoured' = [honoured EXCEPT ![u] = {}]
            /\ UNCHANGED opened

SNext == \E u \in User : Close(u) \/ \E s \in Session : Open(u, s)

SSpec == SInit /\ [][SNext]_svars

=============================================================================
