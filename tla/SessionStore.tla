---------------------------- MODULE SessionStore ----------------------------
(***************************************************************************)
(* What the authentication routes promise of accounts and sessions,        *)
(* whatever calls they make to the repository and in whatever order: an    *)
(* account for each email; a token for who gave the account's password or  *)
(* presented a token whose session was live; a session for each token,     *)
(* which nothing ends but a request that presents the token.  AuthSessions *)
(* implements this with lookups, inserts and deletions outside any         *)
(* transaction, some of whose errors are ignored.                          *)
(*                                                                         *)
(* Nothing is assumed of the tokens that clients send.                     *)
(***************************************************************************)
EXTENDS Naturals

CONSTANTS
    Req,            \* the requests of a behaviour
    AllOps,         \* the routes
    Seed,           \* the accounts that are there at the start
    None,           \* no value
    Aborted,        \* no answer
    RefreshExpiry,  \* the life of a session that a login opens
    ResetExpiry     \* the life of a session that a refresh opens

VARIABLES
    now,    \* the clock, in seconds
    users,  \* the accounts
    live,   \* the sessions: their token, its owner, and how long they last
    op,     \* what was asked
    arg,    \* with which credentials or token
    pair,   \* the token that was granted
    reply   \* what was answered

vars == <<now, users, live, op, arg, pair, reply>>

Init ==
    /\ now = 0
    /\ users = Seed
    /\ live = {}
    /\ op = [r \in Req |-> None]
    /\ arg = [r \in Req |-> None]
    /\ pair = [r \in Req |-> None]
    /\ reply = [r \in Req |-> None]

Pending(r) == op[r] # None /\ reply[r] = None

Asked(r, o) == Pending(r) /\ op[r] = o

Answer(r, statuses) == \E s \in statuses : reply' = [reply EXCEPT ![r] = s]

Receive(r) ==
    /\ op[r] = None /\ reply[r] = None
    /\ op'[r] \in AllOps
    /\ op' = [op EXCEPT ![r] = op'[r]]
    /\ arg' = [arg EXCEPT ![r] = arg'[r]]
    /\ UNCHANGED <<now, users, live, pair, reply>>

Refuse(r) ==
    /\ op[r] = None /\ reply[r] = None
    /\ Answer(r, {400, 429})
    /\ UNCHANGED <<now, users, live, op, arg, pair>>

Register(r) ==
    /\ Asked(r, "Register")
    /\ \A u \in users : u.email # arg[r].email
    /\ users' = users \cup {[id |-> r, email |-> arg[r].email,
                             password |-> arg[r].password]}
    /\ Answer(r, {201, 500})
    /\ UNCHANGED <<now, live, op, arg, pair>>

\* A token of this second.
Grant(r, user) ==
    /\ pair[r] = None
    /\ pair' = [pair EXCEPT
                  ![r] = [type |-> "refresh", user |-> user, iat |-> now]]
    /\ UNCHANGED <<now, users, live, op, arg, reply>>

GrantLogin(r) ==
    /\ Asked(r, "Login")
    /\ \E u \in users : /\ u.email = arg[r].email
                        /\ u.password = arg[r].password
                        /\ Grant(r, u.id)

GrantRefresh(r) ==
    /\ Asked(r, "Refresh")
    /\ \E s \in live : s.token = arg[r] /\ now <= s.until /\ Grant(r, s.user)

Lifetime(r) == IF op[r] = "Login" THEN RefreshExpiry ELSE ResetExpiry

\* The token that was granted becomes a session, with its answer: it lasts
\* for its lifetime from the second of the token, or a later one.
Open(r) ==
    /\ Asked(r, "Login") \/ Asked(r, "Refresh")
    /\ pair[r] # None
    /\ \A s \in live : s.token # pair[r]
    /\ \E t \in pair[r].iat..now :
          live' = live \cup {[token |-> pair[r], user |-> pair[r].user,
                              until |-> t + Lifetime(r)]}
    /\ Answer(r, IF op[r] = "Login" THEN {200, 500} ELSE {200})
    /\ UNCHANGED <<now, users, op, arg, pair>>

\* The session of the token that was sent ends: a logout and a session that
\* has expired are answered, a refresh that was granted its token goes on.
Close(r) ==
    /\ \E s \in live :
          /\ s.token = arg[r]
          /\ live' = live \ {s}
          /\ \/ Asked(r, "Logout") /\ Answer(r, {200, 500})
             \/ /\ Asked(r, "Refresh") /\ pair[r] = None /\ s.until <= now
                /\ Answer(r, {401})
             \/ Asked(r, "Refresh") /\ pair[r] # None /\ UNCHANGED reply
    /\ UNCHANGED <<now, users, op, arg, pair>>

\* The answers that may come without an effect.  A refresh is not refused
\* once it was granted its token, whether its session can be stored or not,
\* and a logout succeeds if there is no session to end.
Refusals(r) ==
    CASE op[r] \in {"Register", "Login", "RequestReset"} -> {500}
      [] op[r] = "Refresh" -> IF pair[r] = None THEN {401} ELSE {200}
      [] op[r] = "Logout" -> IF \E s \in live : s.token = arg[r]
                               THEN {500} ELSE {200, 500}
      [] op[r] = "ResetPassword" -> {400}

NoEffect(r) ==
    /\ Pending(r)
    /\ Answer(r, Refusals(r))
    /\ UNCHANGED <<now, users, live, op, arg, pair>>

\* The connections of some requests break: they are not answered any more.
Abort ==
    /\ \E some \in SUBSET {r \in Req : Pending(r)} :
          reply' = [r \in Req |-> IF r \in some THEN Aborted ELSE reply[r]]
    /\ UNCHANGED <<now, users, live, op, arg, pair>>

Tick == now' = now + 1 /\ UNCHANGED <<users, live, op, arg, pair, reply>>

Next ==
    \/ \E r \in Req :
          \/ Receive(r) \/ Refuse(r) \/ Register(r)
          \/ GrantLogin(r) \/ GrantRefresh(r) \/ Open(r) \/ Close(r)
          \/ NoEffect(r)
    \/ Abort
    \/ Tick

Spec == Init /\ [][Next]_vars

=============================================================================
