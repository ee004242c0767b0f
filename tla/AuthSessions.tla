---------------------------- MODULE AuthSessions ----------------------------
(***************************************************************************)
(* Accounts, refresh tokens and sessions of the authentication service.    *)
(*                                                                         *)
(* Each element of Req is one HTTP request.  A handler                     *)
(* (internal/handler/auth_handler.go) runs in its own goroutine and calls  *)
(* the service (internal/service/auth_service.go), which makes a sequence  *)
(* of PostgreSQL calls (internal/repository/user_repository.go) outside    *)
(* any transaction.  There is one action per database call, so the steps   *)
(* of concurrent requests interleave between any two calls.                *)
(*                                                                         *)
(* A UUID drawn by a request (the id of the account or of the session it   *)
(* inserts) is the request itself: a request inserts at most one row.      *)
(* The clock counts seconds, the resolution of the NumericDate claims of   *)
(* a token.  A token is the record of the claims that are signed; the HMAC *)
(* of equal claims is equal, so equal records are equal strings.           *)
(***************************************************************************)
EXTENDS Naturals, FiniteSets

CONSTANTS
    Req,             \* the HTTP requests of a behaviour
    Ops,             \* the routes they may be sent to
    Email, Password, \* what a client may type
    Seed,            \* the rows of the users table when the server starts
    None,            \* no value
    RefreshExpiry,   \* JWTConfig.RefreshTokenExpiry, in seconds
    ResetExpiry,     \* JWTConfig.ResetTokenExpiry, in seconds
    MaxTime,         \* bound on the clock
    MaxFaults        \* bound on the failing database calls

AllOps == {"Register", "Login", "Refresh", "Logout", "RequestReset",
           "ResetPassword"}

\* The connection is closed without a status.
Aborted == 0

Status == {200, 201, 400, 401, 429, 500, Aborted}

Credential == [email : Email, password : Password]
UserId     == {u.id : u \in Seed} \cup Req
User       == [id : UserId, email : Email, password : Password]
Token      == [type : {"access", "refresh"}, user : UserId, iat : Nat]
Session    == [id : Req, user : UserId, token : Token, expiresAt : Nat]

ASSUME OpsAssumption == Ops \subseteq AllOps

\* The ids of the rows found at start were drawn before any request of this
\* behaviour, and the users table has a unique index on email.
ASSUME SeedAssumption ==
    /\ \A u \in Seed : /\ u.id \notin Req
                       /\ u.email \in Email
                       /\ u.password \in Password
                       /\ u = [id |-> u.id, email |-> u.email,
                               password |-> u.password]
    /\ \A u, v \in Seed : (u.email = v.email \/ u.id = v.id) => u = v

ASSUME ExpiryAssumption == RefreshExpiry \in Nat /\ ResetExpiry \in Nat

ASSUME BoundAssumption == MaxTime \in Nat /\ MaxFaults \in Nat

ASSUME NoneAssumption ==
    /\ None \notin Token
    /\ None \notin Session
    /\ None \notin Credential \cup Email
    /\ None \notin AllOps
    /\ None \notin Status

VARIABLES
    now,       \* the clock, in seconds
    users,     \* table users
    sessions,  \* table sessions
    pc,        \* the next database call of a request
    op,        \* the route of a request
    arg,       \* its body: credentials, an email, or a token
    ses,       \* the session row it has read
    pair,      \* the refresh token it has signed
    reply,     \* the HTTP status answered, or Aborted
    faults     \* failing database calls so far

local == <<op, arg, ses, pair>>
vars  == <<now, users, sessions, pc, local, reply, faults>>

Steps == {"reg_lookup", "reg_insert", "login_lookup", "login_insert",
          "ref_user", "ref_find", "ref_expire", "ref_delete", "ref_create",
          "out_find", "out_delete", "pr_lookup", "rp_validate"}

Entry == [Register |-> "reg_lookup", Login |-> "login_lookup",
          Refresh |-> "ref_user", Logout |-> "out_find",
          RequestReset |-> "pr_lookup", ResetPassword |-> "rp_validate"]

Init ==
    /\ now = 0
    /\ users = Seed
    /\ sessions = {}
    /\ pc = [r \in Req |-> "idle"]
    /\ op = [r \in Req |-> None]
    /\ arg = [r \in Req |-> None]
    /\ ses = [r \in Req |-> None]
    /\ pair = [r \in Req |-> None]
    /\ reply = [r \in Req |-> None]
    /\ faults = 0

-----------------------------------------------------------------------------
(* Tokens.                                                                 *)

\* Nothing in the claims but the second tells two tokens of one user apart
\* (there is no jti).
GenerateRefreshToken(u) == [type |-> "refresh", user |-> u, iat |-> now]

ExpiryOf(t) == t.iat + RefreshExpiry

\* ValidateRefreshToken: not expired, and of the right type.
ValidRefreshToken(t) == now < ExpiryOf(t) /\ t.type = "refresh"

\* The refresh token of an answered login or refresh, and the access token
\* that comes with it: what a client can put into a later request.
Granted(r) == op[r] \in {"Login", "Refresh"} /\ reply[r] = 200

Delivered == UNION {{pair[r], [pair[r] EXCEPT !.type = "access"]} :
                       r \in {q \in Req : Granted(q)}}

-----------------------------------------------------------------------------
(* The repository.  A call that fails with an error other than "no rows"   *)
(* is a fault: the statement may or may not have taken effect.             *)

Fault == faults < MaxFaults /\ faults' = faults + 1

NoFault == UNCHANGED faults

CreateUserNoIndex(u, ok) == ok /\ users' = users \cup {u} /\ NoFault

CreateUser(u, ok) ==
    LET taken == \E v \in users : v.email = u.email \/ v.id = u.id
    IN  \/ ok /\ ~taken /\ users' = users \cup {u} /\ NoFault
        \/ ~ok /\ taken /\ UNCHANGED users /\ NoFault
        \/ /\ ~ok /\ Fault
           /\ \/ UNCHANGED users
              \/ ~taken /\ users' = users \cup {u}

CreateSessionNoIndex(s, ok) ==
    ok /\ sessions' = sessions \cup {s} /\ NoFault

CreateSessionOnePerUser(s, ok) ==
    LET taken == \E t \in sessions : t.user = s.user
    IN  /\ ok <=> ~taken
        /\ sessions' = IF ok THEN sessions \cup {s} ELSE sessions
        /\ NoFault

CreateSession(s, ok) ==
    LET taken == \E t \in sessions : t.token = s.token \/ t.id = s.id
    IN  \/ ok /\ ~taken /\ sessions' = sessions \cup {s} /\ NoFault
        \/ ~ok /\ taken /\ UNCHANGED sessions /\ NoFault
        \/ /\ ~ok /\ Fault
           /\ \/ UNCHANGED sessions
              \/ ~taken /\ sessions' = sessions \cup {s}

DeleteSessionsOfUser(i, ok) ==
    LET users_of == {s.user : s \in {t \in sessions : t.id = i}}
    IN  ok /\ sessions' = {s \in sessions : s.user \notin users_of} /\ NoFault

\* DELETE ... WHERE id = $1; ErrNotFound when no row is affected.
DeleteSession(i, ok) ==
    LET rows == {s \in sessions : s.id = i}
    IN  \/ ok /\ rows # {} /\ sessions' = sessions \ rows /\ NoFault
        \/ ~ok /\ rows = {} /\ UNCHANGED sessions /\ NoFault
        \/ ~ok /\ Fault /\ sessions' \in {sessions, sessions \ rows}

-----------------------------------------------------------------------------
(* Control of a request.                                                   *)

At(r, step) == pc[r] = step

Goto(r, step) == pc' = [pc EXCEPT ![r] = step] /\ UNCHANGED reply

Answer(r, status) ==
    /\ pc' = [pc EXCEPT ![r] = "done"]
    /\ reply' = [reply EXCEPT ![r] = status]

\* The status a handler answers when the service returns an error.
ErrorStatus(r) == IF op[r] = "Refresh" THEN 401 ELSE 500

\* A read that fails: every service function returns the error.
Reads == {"reg_lookup", "login_lookup", "ref_user", "ref_find", "out_find",
          "pr_lookup"}

ReadFails(r) ==
    /\ pc[r] \in Reads
    /\ Fault
    /\ Answer(r, ErrorStatus(r))
    /\ UNCHANGED <<now, users, sessions, local>>

\* The bodies a client can send to a route.
Bodies(o) ==
    CASE o \in {"Register", "Login"} -> Credential
      [] o = "RequestReset"          -> Email
      [] OTHER                       -> Delivered

Arrive(r) ==
    /\ At(r, "idle")
    /\ \E o \in Ops : \E a \in Bodies(o) :
          /\ op' = [op EXCEPT ![r] = o]
          /\ arg' = [arg EXCEPT ![r] = a]
          /\ Goto(r, Entry[o])
    /\ UNCHANGED <<now, users, sessions, ses, pair, faults>>

\* applyRateLimit refuses the request, or its body does not parse or validate.
Refuse(r) ==
    /\ At(r, "idle")
    /\ \E status \in {429, 400} : Answer(r, status)
    /\ UNCHANGED <<now, users, sessions, local, faults>>

-----------------------------------------------------------------------------
(* Register.                                                               *)

\* GetUserByEmail; the handler's test for ErrUserAlreadyExists compares with
\* a fresh errors.New and never matches, so a taken email answers 500.
RegisterLookup(r) ==
    /\ At(r, "reg_lookup")
    /\ IF \E u \in users : u.email = arg[r].email
         THEN Answer(r, 500)
         ELSE Goto(r, "reg_insert")
    /\ UNCHANGED <<now, users, sessions, local, faults>>

RegisterInsert(r) ==
    /\ At(r, "reg_insert")
    /\ \E ok \in BOOLEAN :
          /\ CreateUser([id |-> r, email |-> arg[r].email,
                         password |-> arg[r].password], ok)
          /\ Answer(r, IF ok THEN 201 ELSE 500)
    /\ UNCHANGED <<now, sessions, local>>

-----------------------------------------------------------------------------
(* Login.                                                                  *)

VerifyEmailOnly(u, c) == u.email = c.email

\* The row of the email, and the password its hash was made from.
Verify(u, c) == u.email = c.email /\ u.password = c.password

\* GetUserByEmail, VerifyPassword, and the two tokens are signed.
LoginLookup(r) ==
    /\ At(r, "login_lookup")
    /\ \/ \E u \in users :
             /\ Verify(u, arg[r])
             /\ pair' = [pair EXCEPT ![r] = GenerateRefreshToken(u.id)]
             /\ Goto(r, "login_insert")
       \/ /\ ~\E u \in users : Verify(u, arg[r])
          /\ Answer(r, 500)
          /\ UNCHANGED pair
    /\ UNCHANGED <<now, users, sessions, op, arg, ses, faults>>

LoginInsertResetExpiry(r) ==
    /\ At(r, "login_insert")
    /\ \E ok \in BOOLEAN :
          /\ CreateSession([id |-> r, user |-> pair[r].user,
                            token |-> pair[r],
                            expiresAt |-> pair[r].iat + ResetExpiry], ok)
          /\ Answer(r, IF ok THEN 200 ELSE 500)
    /\ UNCHANGED <<now, users, local>>

LoginInsertIgnoresError(r) ==
    /\ At(r, "login_insert")
    /\ \E ok \in BOOLEAN :
          CreateSession([id |-> r, user |-> pair[r].user, token |-> pair[r],
                         expiresAt |-> pair[r].iat + RefreshExpiry], ok)
    /\ Answer(r, 200)
    /\ UNCHANGED <<now, users, local>>

\* CreateSession; the end of the session was reckoned when its token was
\* signed.
LoginInsert(r) ==
    /\ At(r, "login_insert")
    /\ \E ok \in BOOLEAN :
          /\ CreateSession([id |-> r, user |-> pair[r].user,
                            token |-> pair[r],
                            expiresAt |-> pair[r].iat + RefreshExpiry], ok)
          /\ Answer(r, IF ok THEN 200 ELSE 500)
    /\ UNCHANGED <<now, users, local>>

-----------------------------------------------------------------------------
(* Refresh.                                                                *)

\* ValidateRefreshToken and GetUserById.
RefreshUser(r) ==
    /\ At(r, "ref_user")
    /\ IF ValidRefreshToken(arg[r]) /\ \E u \in users : u.id = arg[r].user
         THEN Goto(r, "ref_find")
         ELSE Answer(r, 401)
    /\ UNCHANGED <<now, users, sessions, local, faults>>

\* GetSessionByToken, the expiry test on the row, and the new pair is signed.
\* expires_at has a fraction of a second that the clock here has not: in the
\* very second it falls into, time.Now().After may answer either way.
RefreshFind(r) ==
    /\ At(r, "ref_find")
    /\ \/ /\ ~\E s \in sessions : s.token = arg[r]
          /\ Answer(r, 401)
          /\ UNCHANGED <<ses, pair>>
       \/ \E s \in sessions :
             /\ s.token = arg[r]
             /\ ses' = [ses EXCEPT ![r] = s]
             /\ \/ /\ now >= s.expiresAt
                   /\ Goto(r, "ref_expire")
                   /\ UNCHANGED pair
                \/ /\ now <= s.expiresAt
                   /\ pair' = [pair EXCEPT
                                 ![r] = GenerateRefreshToken(arg[r].user)]
                   /\ Goto(r, "ref_delete")
    /\ UNCHANGED <<now, users, sessions, op, arg, faults>>

\* The row has expired: it is deleted, whatever that returns, and 401.
RefreshExpire(r) ==
    /\ At(r, "ref_expire")
    /\ \E ok \in BOOLEAN : DeleteSession(ses[r].id, ok)
    /\ Answer(r, 401)
    /\ UNCHANGED <<now, users, local>>

RefreshDeleteForgotten(r) ==
    /\ At(r, "ref_delete")
    /\ Goto(r, "ref_create")
    /\ UNCHANGED <<now, users, sessions, local, faults>>

\* The old session is deleted; an error, "no rows" included, is only logged.
RefreshDelete(r) ==
    /\ At(r, "ref_delete")
    /\ \E ok \in BOOLEAN : DeleteSession(ses[r].id, ok)
    /\ Goto(r, "ref_create")
    /\ UNCHANGED <<now, users, local>>

RefreshCreateOldToken(r) ==
    /\ At(r, "ref_create")
    /\ \E ok \in BOOLEAN : \E t \in pair[r].iat..now :
          CreateSession([id |-> r, user |-> arg[r].user, token |-> arg[r],
                         expiresAt |-> t + ResetExpiry], ok)
    /\ Answer(r, 200)
    /\ UNCHANGED <<now, users, local>>

\* The new session lives for ResetTokenExpiry from a moment t between the
\* signing of its token and the INSERT (the deletion lies in between); an error
\* is only logged.
RefreshCreate(r) ==
    /\ At(r, "ref_create")
    /\ \E ok \in BOOLEAN : \E t \in pair[r].iat..now :
          CreateSession([id |-> r, user |-> arg[r].user, token |-> pair[r],
                         expiresAt |-> t + ResetExpiry], ok)
    /\ Answer(r, 200)
    /\ UNCHANGED <<now, users, local>>

-----------------------------------------------------------------------------
(* Logout.                                                                 *)

\* GetSessionByToken; the token is not validated, an unknown one answers 200.
LogoutFind(r) ==
    /\ At(r, "out_find")
    /\ \/ /\ ~\E s \in sessions : s.token = arg[r]
          /\ Answer(r, 200)
          /\ UNCHANGED ses
       \/ \E s \in sessions :
             /\ s.token = arg[r]
             /\ ses' = [ses EXCEPT ![r] = s]
             /\ Goto(r, "out_delete")
    /\ UNCHANGED <<now, users, sessions, op, arg, pair, faults>>

LogoutDeleteIgnoresError(r) ==
    /\ At(r, "out_delete")
    /\ \E ok \in BOOLEAN : DeleteSession(ses[r].id, ok)
    /\ Answer(r, 200)
    /\ UNCHANGED <<now, users, local>>

\* DeleteSession; "no rows" is returned and answered as 500.
LogoutDelete(r) ==
    /\ At(r, "out_delete")
    /\ \E ok \in BOOLEAN :
          /\ DeleteSession(ses[r].id, ok)
          /\ Answer(r, IF ok THEN 200 ELSE 500)
    /\ UNCHANGED <<now, users, local>>

-----------------------------------------------------------------------------
(* Password reset.                                                         *)

\* An unknown email answers 500; for a known one CreatePasswordReset panics
\* and net/http drops the connection.  No reset token ever leaves the server.
RequestReset(r) ==
    /\ At(r, "pr_lookup")
    /\ Answer(r, IF \E u \in users : u.email = arg[r]
                   THEN Aborted ELSE 500)
    /\ UNCHANGED <<now, users, sessions, local, faults>>

\* ValidateResetToken refuses every token a client can hold.
ResetPassword(r) ==
    /\ At(r, "rp_validate")
    /\ Answer(r, 400)
    /\ UNCHANGED <<now, users, sessions, local, faults>>

-----------------------------------------------------------------------------
(* The process.                                                            *)

InFlight(r) == pc[r] \notin {"idle", "done"}

\* The server is killed or Shutdown times out: the requests in flight get no
\* answer, the tables stay.  It is started again before the next request.
Crash ==
    /\ \E r \in Req : InFlight(r)
    /\ pc' = [r \in Req |-> IF InFlight(r) THEN "done" ELSE pc[r]]
    /\ reply' = [r \in Req |-> IF InFlight(r) THEN Aborted ELSE reply[r]]
    /\ UNCHANGED <<now, users, sessions, local, faults>>

Tick ==
    /\ now < MaxTime
    /\ now' = now + 1
    /\ UNCHANGED <<users, sessions, pc, local, reply, faults>>

\* Every request has been served and the bounded clock has run out.
Finished ==
    /\ now = MaxTime
    /\ \A r \in Req : At(r, "done")
    /\ UNCHANGED vars

Serve(r) ==
    \/ ReadFails(r)
    \/ RegisterLookup(r) \/ RegisterInsert(r)
    \/ LoginLookup(r) \/ LoginInsert(r)
    \/ RefreshUser(r) \/ RefreshFind(r) \/ RefreshExpire(r)
    \/ RefreshDelete(r) \/ RefreshCreate(r)
    \/ LogoutFind(r) \/ LogoutDelete(r)
    \/ RequestReset(r) \/ ResetPassword(r)

Next ==
    \/ \E r \in Req : Arrive(r) \/ Refuse(r) \/ Serve(r)
    \/ Crash
    \/ Tick
    \/ Finished

Spec == Init /\ [][Next]_vars

-----------------------------------------------------------------------------
(* Properties.                                                             *)

\* Every variable has its type.
TypeOK ==
    /\ now \in 0..MaxTime
    /\ users \subseteq User
    /\ sessions \subseteq Session
    /\ pc \in [Req -> Steps \cup {"idle", "done"}]
    /\ op \in [Req -> AllOps \cup {None}]
    /\ arg \in [Req -> Credential \cup Email \cup Token \cup {None}]
    /\ ses \in [Req -> Session \cup {None}]
    /\ pair \in [Req -> Token \cup {None}]
    /\ reply \in [Req -> Status \cup {None}]
    /\ faults \in 0..MaxFaults

\* Two requests that register one email at once do not both get an account
\* (the lookup and the insert of Register are separate calls), an account
\* that was promised with 201 is there with the credentials sent, and no
\* account appears that no registration asked for.
OneAccountPerEmail ==
    /\ \A u, v \in users : u.email = v.email => u = v
    /\ \A r \in Req : reply[r] = 201 =>
          \E u \in users : u.id = r /\ Verify(u, arg[r])
    /\ \A u \in users \ Seed : op[u.id] = "Register"

LoggedIn(i) ==
    \E r \in Req : \E u \in users :
        /\ op[r] = "Login" /\ u.id = i
        /\ u.email = arg[r].email /\ u.password = arg[r].password

\* Every session goes back, through any number of refreshes, to a login in
\* which the credentials of the session's own account were given.
SessionFromLogin ==
    \A s \in sessions : LoggedIn(s.user)

\* A refresh token names one session, and the session and the token agree on
\* the user: what refresh (user of the token, row of the session) and logout
\* (row found by the token, deleted by its id) rely on.
TokenNamesSession ==
    /\ \A s, t \in sessions : s.token = t.token => s = t
    /\ \A s \in sessions : s.user = s.token.user /\ s.token.type = "refresh"

Presented(t, qs) == \E q \in qs : op[q] \in {"Refresh", "Logout"} /\ arg[q] = t

\* A refresh token answered by a login stays good until it is presented:
\* whatever the other requests, failing calls and crashes do, the session
\* is stored and lives at least as long as the token.
LoginTokenLive ==
    \A r \in Req :
        op[r] = "Login" /\ reply[r] = 200 /\ ~Presented(pair[r], Req) =>
            \E s \in sessions : /\ s.token = pair[r]
                                /\ s.expiresAt >= ExpiryOf(s.token)

\* As long as no database call has failed, a refresh token answered by a
\* refresh is stored too, although the result of CreateSession is ignored:
\* the only refusal left is that of an equal token, which is then there.
RefreshTokenLive ==
    \A r \in Req :
        faults = 0 /\ Granted(r) /\ ~Presented(pair[r], Req) =>
            \E s \in sessions : s.token = pair[r]

\* The session a refresh has found does not survive its answer, nor a logout
\* that got its answer, whichever of the racing requests deleted it.
PresentedSessionGone ==
    \A r \in Req :
        faults = 0 /\ ses[r] # None /\ pc[r] = "done" /\ reply[r] # Aborted
            => ses[r] \notin sessions

\* A token of a login, presented to refresh and to nothing else, is never
\* refused while it is valid and no database call fails.  The exception is a
\* second in which the user got two equal tokens: the session of one may have
\* been used up with the other.
FirstUseAccepted ==
    \A r, q \in Req :
        /\ faults = 0
        /\ op[r] = "Login" /\ reply[r] = 200
        /\ op[q] = "Refresh" /\ arg[q] = pair[r] /\ reply[q] = 401
        /\ ~Presented(pair[r], Req \ {q})
        /\ \A p \in Req \ {r} : pair[p] # pair[r]
        => now >= ExpiryOf(pair[r])

\* A login with the credentials of an account succeeds while no database call
\* fails, unless the user got an equal token in the same second.
LoginSucceeds ==
    \A r \in Req : \A u \in Seed :
        /\ faults = 0
        /\ op[r] = "Login" /\ Verify(u, arg[r]) /\ reply[r] = 500
        => \E q \in Req \ {r} : pair[q] = pair[r]

\* A token is spent when no session holds it, no request is about to store
\* it, and its second is over.  A spent token is spent for good: neither
\* refresh nor login ever stores it again.
Spent(t) ==
    /\ t.iat < now
    /\ \A s \in sessions : s.token # t
    /\ \A r \in Req : InFlight(r) => pair[r] # t

SpentForGood ==
    [][\A r \in Req : Granted(r) /\ Spent(pair[r]) => Spent(pair[r])']_vars

\* When a logout is answered 200 no session holds the token it was sent, even
\* if another request deleted or replaced the session in between.
LogoutRevokes ==
    [][\A r \in Req : op[r] = "Logout" /\ reply[r] # 200 /\ reply'[r] = 200
          => \A s \in sessions' : s.token # arg[r]]_vars

-----------------------------------------------------------------------------
(* The inductive invariant behind the safety properties.                   *)

\* Control: the route decides the calls a request makes, and a request is
\* answered when it ends and not before.
ControlInv ==
    \A r \in Req :
        /\ pc[r] = "idle" => op[r] = None /\ ses[r] = None /\ pair[r] = None
        /\ pc[r] # "done" => reply[r] = None
        /\ pc[r] \in {"reg_lookup", "reg_insert"} =>
              op[r] = "Register" /\ arg[r] \in Credential
        /\ pc[r] \in {"login_lookup", "login_insert"} =>
              op[r] = "Login" /\ arg[r] \in Credential
        /\ pc[r] \in {"ref_user", "ref_find", "ref_expire", "ref_delete",
                     "ref_create"} => op[r] = "Refresh"
        /\ pc[r] \in {"out_find", "out_delete"} => op[r] = "Logout"
        /\ pc[r] = "pr_lookup" => op[r] = "RequestReset"
        /\ pc[r] = "rp_validate" => op[r] = "ResetPassword"

\* Data of a request: what it has signed, read and been sent agree.
DataInv ==
    \A r \in Req :
        /\ pair[r] # None => /\ pair[r].type = "refresh"
                            /\ pair[r].iat <= now
                            /\ LoggedIn(pair[r].user)
        /\ pc[r] = "login_insert" => pair[r] # None
        /\ pc[r] \in {"ref_delete", "ref_create"} =>
              pair[r] # None /\ pair[r].user = arg[r].user
        /\ Granted(r) => pair[r] # None
        /\ op[r] \in {"Refresh", "Logout"} =>
              arg[r] \in Token /\ LoggedIn(arg[r].user)
        /\ pc[r] \in {"ref_expire", "ref_delete", "out_delete"} =>
              ses[r] # None

\* The sessions table against the requests: a row carries the token its
\* inserter signed, and a row that was read is one that was inserted.
RowInv ==
    /\ \A s \in sessions : /\ pc[s.id] = "done"
                           /\ pair[s.id] = s.token
                           /\ s.user = s.token.user
    /\ \A r \in Req : ses[r] # None =>
          /\ op[r] \in {"Refresh", "Logout"}
          /\ ses[r].token = arg[r]
          /\ pc[ses[r].id] = "done"
          /\ pair[ses[r].id] = ses[r].token

SafetyInv ==
    /\ TypeOK
    /\ ControlInv
    /\ DataInv
    /\ RowInv
    /\ OneAccountPerEmail
    /\ TokenNamesSession
    /\ LoginTokenLive

\* What holds besides, mostly as long as no database call has failed.
\* A request has signed and read nothing before its call for it, and a refresh
\* token it was sent is one that was answered.
ProgressInv ==
    \A r \in Req :
        /\ pair[r] # None =>
              pc[r] \in {"login_insert", "ref_delete", "ref_create", "done"}
        /\ ses[r] # None =>
              pc[r] \in {"ref_expire", "ref_delete", "ref_create",
                         "out_delete", "done"}
        /\ op[r] \in {"Refresh", "Logout"} /\ arg[r].type = "refresh" =>
              \E p \in Req : Granted(p) /\ pair[p] = arg[r]

\* Accounts are never deleted.
SeedInv == Seed \subseteq users

\* No row has the id of a session that was found and then deleted.
ClosedInv ==
    \A r \in Req :
        /\ faults = 0 /\ ses[r] # None
        /\ pc[r] = "ref_create" \/ (pc[r] = "done" /\ reply[r] # Aborted)
        => \A s \in sessions : s.id # ses[r].id

\* The token was signed before the login was refused, and so was its equal.
RefusedInv ==
    \A r \in Req : \A u \in Seed :
        /\ faults = 0
        /\ op[r] = "Login" /\ Verify(u, arg[r]) /\ reply[r] = 500
        => /\ pair[r] # None
           /\ \E q \in Req \ {r} : pair[q] = pair[r]

\* The token of the login r is presented by the refresh q and by nothing else.
SoleUse(r, q) ==
    /\ faults = 0
    /\ op[r] = "Login" /\ reply[r] = 200
    /\ op[q] = "Refresh" /\ arg[q] = pair[r]
    /\ ~Presented(pair[r], Req \ {q})
    /\ \A p \in Req \ {r} : pair[p] # pair[r]

\* Its session waits for that refresh, which finds it expired, or is refused,
\* only when the token has expired.
SoleUseInv ==
    \A r, q \in Req :
        SoleUse(r, q) =>
            /\ pc[q] \in {"ref_user", "ref_find"} =>
                  \E s \in sessions : /\ s.token = pair[r]
                                      /\ s.expiresAt >= ExpiryOf(s.token)
            /\ pc[q] = "ref_expire" \/ reply[q] = 401 =>
                  now >= ExpiryOf(pair[r])

\* A row that was read stays as it is until it is deleted, and one that had
\* expired has.
ReadInv ==
    \A r \in Req : ses[r] # None =>
        /\ \A s \in sessions : s.id = ses[r].id => s = ses[r]
        /\ pc[r] = "ref_expire" => ses[r].expiresAt <= now

QuietInv ==
    /\ ProgressInv
    /\ SeedInv
    /\ ReadInv
    /\ ClosedInv
    /\ RefusedInv
    /\ RefreshTokenLive
    /\ SoleUseInv

-----------------------------------------------------------------------------
(* What the routes promise, without the calls they make.                   *)

\* The sessions as a client knows them, by their tokens.
Live ==
    {[token |-> s.token, user |-> s.user, until |-> s.expiresAt] :
        s \in sessions}

Store == INSTANCE SessionStore WITH live <- Live

\* The lookups, inserts and deletions of concurrent requests amount to tokens
\* that are granted to who may have them, for the account that is theirs,
\* and to sessions that are opened once for a token and ended by it.
ImplementsStore == Store!Spec

-----------------------------------------------------------------------------
(* What the source says of itself and the code does not do.                *)

\* cmd/server/main.go:50 gives refresh tokens "7 days": the session a refresh
\* token needs does not end before the token.  The session that a refresh
\* creates is given ResetTokenExpiry instead (auth_service.go:361).
SessionOutlivesToken ==
    \A s \in sessions : s.expiresAt >= ExpiryOf(s.token)

=============================================================================
