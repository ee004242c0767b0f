--------------------------- MODULE AccessControl ---------------------------
(***************************************************************************)
(* Access tokens, roles, and accounts that change while tokens are out.    *)
(*                                                                         *)
(* AuthRequired and RequireRole (internal/handler/middleware.go) decide by *)
(* the claims that were signed when the token was granted; no row is read. *)
(* Here an account may be given another role or be deleted, by the calls   *)
(* of internal/repository/user_repository.go that no route makes yet,      *)
(* while logins, refreshes and requests to protected routes are under way. *)
(* As in AuthSessions there is one action per call to the database.  The   *)
(* logins are those with the right password, and no call fails: what a     *)
(* failing call does to sessions is the subject of AuthSessions.           *)
(*                                                                         *)
(* past is a history variable: which account had which role in which       *)
(* second.                                                                 *)
(***************************************************************************)
EXTENDS Naturals

CONSTANTS
    Req,             \* the requests of a behaviour
    Ops,             \* what they are
    Account,         \* ids of accounts
    Seed,            \* the rows of the users table when the server starts
    None,            \* no value
    AccessExpiry,    \* JWTConfig.AccessTokenExpiry, in seconds
    RefreshExpiry,   \* JWTConfig.RefreshTokenExpiry
    ResetExpiry,     \* JWTConfig.ResetTokenExpiry
    MaxTime          \* bound on the clock

Roles == {"user", "admin"}

AllOps == {"Login", "Refresh", "Profile", "AdminUsers", "CreateResume",
           "UpdateUser", "DeleteUser", "LogoutAll"}

\* The routes behind AuthRequired; those of one resume are in Resumes.
Protected == {"Profile", "AdminUsers", "CreateResume"}

User    == [id : Account, role : Roles]
Claims  == [type : {"access", "refresh"}, user : Account, role : Roles,
            iat : Nat]
Session == [id : Req, user : Account, token : Claims, expiresAt : Nat]
Request == [op : AllOps, user : Account \cup {None}, role : Roles \cup {None},
            token : Claims \cup {None}]
Status  == {200, 201, 401, 403, 404, 500}

ASSUME SeedAssumption ==
    /\ Seed \subseteq User
    /\ \A u, v \in Seed : u.id = v.id => u = v

ASSUME ExpiryAssumption ==
    /\ AccessExpiry \in Nat /\ RefreshExpiry \in Nat /\ ResetExpiry \in Nat
    /\ MaxTime \in Nat

ASSUME OpsAssumption == Ops \subseteq AllOps

ASSUME NoneAssumption ==
    None \notin User \cup Claims \cup Session \cup Request \cup Status

VARIABLES
    now,       \* the clock, in seconds
    users,     \* table users
    sessions,  \* table sessions
    resumes,   \* table resumes: the request that inserted it and its owner
    past,      \* [at, id, role]: the roles of each second (history)
    pc,        \* the next database call of a request
    req,       \* what it asks for
    began,     \* the second it arrived
    acct,      \* the users row it has read
    ses,       \* the session row it has read
    grant,     \* the refresh token it has signed
    reply      \* the status answered

tables == <<users, sessions, resumes>>
local  == <<req, began, acct, ses, grant>>
vars   == <<now, tables, past, pc, local, reply>>

At2(t, rows) == {[at |-> t, id |-> u.id, role |-> u.role] : u \in rows}

Init ==
    /\ now = 0
    /\ users = Seed
    /\ sessions = {} /\ resumes = {}
    /\ past = At2(0, Seed)
    /\ pc = [r \in Req |-> "idle"]
    /\ req = [r \in Req |-> None]
    /\ began = [r \in Req |-> 0]
    /\ acct = [r \in Req |-> None]
    /\ ses = [r \in Req |-> None]
    /\ grant = [r \in Req |-> None]
    /\ reply = [r \in Req |-> None]

-----------------------------------------------------------------------------
(* Tokens.                                                                 *)

At(r, step) == pc[r] = step

Goto(r, step) == pc' = [pc EXCEPT ![r] = step] /\ UNCHANGED reply

Answer(r, status) ==
    /\ pc' = [pc EXCEPT ![r] = "done"]
    /\ reply' = [reply EXCEPT ![r] = status]

Asks(r, o) == req[r] # None /\ req[r].op = o

\* The claims of both tokens of a pair, but for the type.
GenerateRefreshToken(u) ==
    [type |-> "refresh", user |-> u.id, role |-> u.role, iat |-> now]

AccessOf(t) == [t EXCEPT !.type = "access"]

\* Logins and refreshes that were answered with a pair.
Granted(r) == (Asks(r, "Login") \/ Asks(r, "Refresh")) /\ reply[r] = 200

\* What clients hold.
Delivered == UNION {{grant[r], AccessOf(grant[r])} :
                       r \in {q \in Req : Granted(q)}}

ValidRefreshToken(t) == now < t.iat + RefreshExpiry /\ t.type = "refresh"

ValidAccessAnyType(t) == now < t.iat + AccessExpiry

\* ValidateAccessToken.
ValidAccessToken(t) == now < t.iat + AccessExpiry /\ t.type = "access"

-----------------------------------------------------------------------------
(* The requests arrive.                                                    *)

FirstCall == [Login |-> "login_lookup", Refresh |-> "ref_user",
              Profile |-> "auth", AdminUsers |-> "auth",
              CreateResume |-> "auth", UpdateUser |-> "update",
              DeleteUser |-> "delete", LogoutAll |-> "logout_all"]

Bodies(o) ==
    LET body(u, ro, t) == [op |-> o, user |-> u, role |-> ro, token |-> t]
    IN  IF o \in {"Login", "DeleteUser", "LogoutAll"}
          THEN {body(u, None, None) : u \in Account}
        ELSE IF o = "UpdateUser"
          THEN {body(u, ro, None) : u \in Account, ro \in Roles}
          ELSE {body(None, None, t) : t \in Delivered}

Arrive(r) ==
    /\ At(r, "idle")
    /\ \E o \in Ops : \E b \in Bodies(o) :
          /\ req' = [req EXCEPT ![r] = b]
          /\ Goto(r, FirstCall[o])
    /\ began' = [began EXCEPT ![r] = now]
    /\ UNCHANGED <<now, tables, past, acct, ses, grant>>

-----------------------------------------------------------------------------
(* Login and refresh.                                                      *)

\* GetUserByEmail, and the pair is signed.
LoginLookup(r) ==
    /\ At(r, "login_lookup")
    /\ \/ \E u \in users :
             /\ u.id = req[r].user
             /\ grant' = [grant EXCEPT ![r] = GenerateRefreshToken(u)]
             /\ Goto(r, "login_insert")
       \/ /\ \A u \in users : u.id # req[r].user
          /\ Answer(r, 500)
          /\ UNCHANGED grant
    /\ UNCHANGED <<now, tables, past, req, began, acct, ses>>

CreateSessionUnchecked(s, ok) ==
    /\ ok <=> \A t \in sessions : t.token # s.token
    /\ sessions' = IF ok THEN sessions \cup {s} ELSE sessions

\* The INSERT is refused by the unique index on the token and by the foreign
\* key to users.
CreateSession(s, ok) ==
    /\ ok <=> /\ \A t \in sessions : t.token # s.token
              /\ \E u \in users : u.id = s.user
    /\ sessions' = IF ok THEN sessions \cup {s} ELSE sessions

LoginInsert(r) ==
    /\ At(r, "login_insert")
    /\ \E ok \in BOOLEAN :
          /\ CreateSession([id |-> r, user |-> grant[r].user,
                            token |-> grant[r],
                            expiresAt |-> grant[r].iat + RefreshExpiry], ok)
          /\ Answer(r, IF ok THEN 200 ELSE 500)
    /\ UNCHANGED <<now, users, resumes, past, local>>

\* ValidateRefreshToken and GetUserById: the role is read here.
RefreshUser(r) ==
    /\ At(r, "ref_user")
    /\ \/ \E u \in users :
             /\ ValidRefreshToken(req[r].token)
             /\ u.id = req[r].token.user
             /\ acct' = [acct EXCEPT ![r] = u]
             /\ Goto(r, "ref_find")
       \/ /\ \/ ~ValidRefreshToken(req[r].token)
             \/ \A u \in users : u.id # req[r].token.user
          /\ Answer(r, 401)
          /\ UNCHANGED acct
    /\ UNCHANGED <<now, tables, past, req, began, ses, grant>>

\* GetSessionByToken, and the pair is signed with the row read before.
RefreshFind(r) ==
    /\ At(r, "ref_find")
    /\ \/ /\ \A s \in sessions : s.token # req[r].token
          /\ Answer(r, 401)
          /\ UNCHANGED <<ses, grant>>
       \/ \E s \in sessions :
             /\ s.token = req[r].token
             /\ ses' = [ses EXCEPT ![r] = s]
             /\ \/ /\ now >= s.expiresAt
                   /\ Goto(r, "ref_expire")
                   /\ UNCHANGED grant
                \/ /\ now <= s.expiresAt
                   /\ grant' = [grant EXCEPT
                                  ![r] = GenerateRefreshToken(acct[r])]
                   /\ Goto(r, "ref_delete")
    /\ UNCHANGED <<now, tables, past, req, began, acct>>

DeleteSession(s) == sessions' = {t \in sessions : t.id # s.id}

RefreshExpire(r) ==
    /\ At(r, "ref_expire")
    /\ DeleteSession(ses[r])
    /\ Answer(r, 401)
    /\ UNCHANGED <<now, users, resumes, past, local>>

RefreshDelete(r) ==
    /\ At(r, "ref_delete")
    /\ DeleteSession(ses[r])
    /\ Goto(r, "ref_create")
    /\ UNCHANGED <<now, users, resumes, past, local>>

\* The session ends ResetExpiry after a moment t between the signing of its
\* token and the INSERT.  A refused INSERT, as for an account deleted
\* meanwhile, is only logged: the pair is answered.
RefreshCreate(r) ==
    /\ At(r, "ref_create")
    /\ \E ok \in BOOLEAN : \E t \in grant[r].iat..now :
          CreateSession([id |-> r, user |-> grant[r].user,
                         token |-> grant[r],
                         expiresAt |-> t + ResetExpiry], ok)
    /\ Answer(r, 200)
    /\ UNCHANGED <<now, users, resumes, past, local>>

-----------------------------------------------------------------------------
(* Protected routes.                                                       *)

\* RequireRole("admin") stands before one route only.
RequireRole(r) == Asks(r, "AdminUsers") => req[r].token.role = "admin"

\* AuthRequired, RequireRole, and GetUsersHandler, which reads nothing.
Authorize(r) ==
    /\ At(r, "auth")
    /\ \/ ~ValidAccessToken(req[r].token) /\ Answer(r, 401)
       \/ /\ ValidAccessToken(req[r].token) /\ ~RequireRole(r)
          /\ Answer(r, 403)
       \/ /\ ValidAccessToken(req[r].token) /\ RequireRole(r)
          /\ IF Asks(r, "AdminUsers") THEN Answer(r, 200)
             ELSE Goto(r, IF Asks(r, "Profile") THEN "profile" ELSE "create")
    /\ UNCHANGED <<now, tables, past, local>>

UserExists(i) == \E u \in users : u.id = i

\* GetProfileHandler: GetUserById; the role that is answered is the row's.
GetProfile(r) ==
    /\ At(r, "profile")
    /\ \/ \E u \in users :
             /\ u.id = req[r].token.user
             /\ acct' = [acct EXCEPT ![r] = u]
             /\ Goto(r, "profile_list")
       \/ /\ ~UserExists(req[r].token.user)
          /\ Answer(r, 404)
          /\ UNCHANGED acct
    /\ UNCHANGED <<now, tables, past, req, began, ses, grant>>

\* GetCVByUserId, which may be later than a deletion of the account.
ListResumes(r) ==
    /\ At(r, "profile_list")
    /\ Answer(r, 200)
    /\ UNCHANGED <<now, tables, past, local>>

\* CreateCV for the user of the claims, refused by the foreign key.
CreateResume(r) ==
    /\ At(r, "create")
    /\ IF UserExists(req[r].token.user)
         THEN /\ resumes' = resumes \cup {[id |-> r,
                                           owner |-> req[r].token.user]}
              /\ Answer(r, 201)
         ELSE Answer(r, 500) /\ UNCHANGED resumes
    /\ UNCHANGED <<now, users, sessions, past, local>>

-----------------------------------------------------------------------------
(* Accounts change.                                                        *)

UpdateUserOrInsert(r) ==
    /\ At(r, "update")
    /\ users' = {u \in users : u.id # req[r].user}
                   \cup {[id |-> req[r].user, role |-> req[r].role]}
    /\ past' = past \cup At2(now, users')
    /\ Answer(r, 200)
    /\ UNCHANGED <<now, sessions, resumes, local>>

\* UpdateUser: the row is written as a whole.
UpdateUser(r) ==
    /\ At(r, "update")
    /\ IF UserExists(req[r].user)
         THEN /\ users' = {u \in users : u.id # req[r].user}
                             \cup {[id |-> req[r].user, role |-> req[r].role]}
              /\ Answer(r, 200)
         ELSE Answer(r, 404) /\ UNCHANGED users
    /\ past' = past \cup At2(now, users')
    /\ UNCHANGED <<now, sessions, resumes, local>>

\* DeleteUser: sessions and resumes are deleted with the account.
DeleteUser(r) ==
    /\ At(r, "delete")
    /\ users' = {u \in users : u.id # req[r].user}
    /\ sessions' = {s \in sessions : s.user # req[r].user}
    /\ resumes' = {c \in resumes : c.owner # req[r].user}
    /\ Answer(r, IF UserExists(req[r].user) THEN 200 ELSE 404)
    /\ UNCHANGED <<now, past, local>>

\* LogoutAll: DeleteUserSessions names a column the users table does not
\* have, so the statement fails and every session stays.
LogoutAll(r) ==
    /\ At(r, "logout_all")
    /\ Answer(r, 500)
    /\ UNCHANGED <<now, tables, past, local>>

-----------------------------------------------------------------------------

Tick ==
    /\ now < MaxTime
    /\ now' = now + 1
    /\ past' = past \cup At2(now', users)
    /\ UNCHANGED <<tables, pc, local, reply>>

Finished ==
    /\ now = MaxTime
    /\ \A r \in Req : At(r, "done")
    /\ UNCHANGED vars

Serve(r) ==
    \/ LoginLookup(r) \/ LoginInsert(r)
    \/ RefreshUser(r) \/ RefreshFind(r) \/ RefreshExpire(r)
    \/ RefreshDelete(r) \/ RefreshCreate(r)
    \/ Authorize(r) \/ GetProfile(r) \/ ListResumes(r) \/ CreateResume(r)
    \/ UpdateUser(r) \/ DeleteUser(r) \/ LogoutAll(r)

Next == (\E r \in Req : Arrive(r) \/ Serve(r)) \/ Tick \/ Finished

Spec == Init /\ [][Next]_vars

-----------------------------------------------------------------------------
(* Properties.                                                             *)

Steps == {FirstCall[o] : o \in AllOps} \cup
         {"login_insert", "ref_find", "ref_expire", "ref_delete",
          "ref_create", "profile", "profile_list", "create"}

\* Every variable has its type.
TypeOK ==
    /\ now \in 0..MaxTime
    /\ users \subseteq User
    /\ sessions \subseteq Session
    /\ resumes \subseteq [id : Req, owner : Account]
    /\ past \subseteq [at : 0..MaxTime, id : Account, role : Roles]
    /\ pc \in [Req -> Steps \cup {"idle", "done"}]
    /\ req \in [Req -> Request \cup {None}]
    /\ began \in [Req -> 0..MaxTime]
    /\ acct \in [Req -> User \cup {None}]
    /\ ses \in [Req -> Session \cup {None}]
    /\ grant \in [Req -> Claims \cup {None}]
    /\ reply \in [Req -> Status \cup {None}]

\* Account u had role ro in a second between t1 and t2.
Held(u, ro, t1, t2) == \E t \in t1..t2 : [at |-> t, id |-> u, role |-> ro] \in past

\* The claims g has signed say what an account was while g was under way.
Truthful(g) == Held(grant[g].user, grant[g].role, began[g], grant[g].iat)

LetIn(r) == pc'[r] \in {"profile", "create"} \/ reply'[r] = 200

\* A request that is let in shows the access token of a login or refresh that
\* was answered; the account had that role, for the admin route the role
\* admin, at a time not before that login or refresh arrived; and no more
\* than AccessExpiry has passed since the token was signed.  A role that was
\* taken away, or an account that was deleted, counts no longer than that.
LetInByRecentRole ==
    [][\A r \in Req : At(r, "auth") /\ LetIn(r) =>
          \E g \in Req :
              /\ Granted(g) /\ Truthful(g)
              /\ req[r].token = AccessOf(grant[g])
              /\ now < grant[g].iat + AccessExpiry
              /\ Asks(r, "AdminUsers") =>
                    Held(grant[g].user, "admin", began[g], grant[g].iat)]_vars

\* Sessions and resumes belong to an account that exists, whatever tokens of
\* deleted accounts are still in use.
RowsOfAccounts ==
    /\ \A s \in sessions : UserExists(s.user)
    /\ \A c \in resumes : UserExists(c.owner)
    /\ \A u, v \in users : u.id = v.id => u = v

\* The account has gone, and with it the requests that had read its row.
Extinct(i) ==
    /\ ~UserExists(i)
    /\ \A r \in Req : pc[r] \notin {"idle", "done"} =>
          /\ acct[r] = None \/ acct[r].id # i
          /\ grant[r] = None \/ grant[r].user # i

\* From then on no pair is granted for it, by whatever tokens are left.
NoGrantWhenExtinct ==
    [][\A i \in Account : Extinct(i) =>
          /\ Extinct(i)'
          /\ \A r \in Req : Granted(r)' /\ grant'[r].user = i => Granted(r)]_vars

-----------------------------------------------------------------------------
(* The inductive invariant behind them.                                    *)

\* The call a request is at goes with what it asks for.
Path(r) ==
    /\ pc[r] = "idle" => req[r] = None /\ grant[r] = None /\ acct[r] = None
    /\ pc[r] # "done" => reply[r] = None
    /\ pc[r] \in {"login_lookup", "login_insert"} => Asks(r, "Login")
    /\ pc[r] \in {"ref_user", "ref_find", "ref_expire", "ref_delete",
                  "ref_create"} => Asks(r, "Refresh")
    /\ pc[r] = "auth" => req[r] # None /\ req[r].op \in Protected
    /\ pc[r] \in {"profile", "profile_list", "create"} =>
          Asks(r, "Profile") \/ Asks(r, "CreateResume")
    /\ pc[r] = "update" => Asks(r, "UpdateUser") /\ req[r].role \in Roles
    /\ pc[r] = "delete" => Asks(r, "DeleteUser")
    /\ pc[r] = "logout_all" => Asks(r, "LogoutAll")
    /\ pc[r] = "ref_find" => acct[r] # None
    /\ pc[r] \in {"login_insert", "ref_delete", "ref_create"} =>
          grant[r] # None
    /\ Granted(r) => grant[r] # None

\* What it has read and signed was true while it was under way.
Signed(r) ==
    /\ began[r] <= now
    /\ pc[r] = "ref_find" => Held(acct[r].id, acct[r].role, began[r], now)
    /\ grant[r] # None => /\ grant[r].type = "refresh"
                         /\ grant[r].iat <= now
                         /\ Truthful(r)

\* The tokens that are shown were granted.
FromGrant(r) ==
    req[r] # None /\ req[r].op \in {"Refresh"} \cup Protected =>
        \E g \in Req : /\ Granted(g)
                       /\ req[r].token \in {grant[g], AccessOf(grant[g])}

ClaimsInv == \A r \in Req : Path(r) /\ Signed(r) /\ FromGrant(r)

\* The accounts of this second are in the history.
PastInv == At2(now, users) \subseteq past

SafetyInv == TypeOK /\ ClaimsInv /\ PastInv /\ RowsOfAccounts

=============================================================================
