# Verification of the CV builder backend

This directory holds TLA+ models of the Go service in `src/`, the TLC
configurations that check them, and theorems about them that TLAPS proves. The
service is a REST API: accounts and refresh-token sessions in PostgreSQL, a
rate limiter in Redis, and resumes with their sections in PostgreSQL. It has no
tests. What it promises is in its code, its comments, its messages to the
client and the constraints of its tables.

`auth_service.go:163` (the Telegram login) is not legal Go as committed. The
models describe the program without that function.

## 1. The system

One process serves HTTP. `net/http` runs every request in a goroutine of its
own; a request keeps no state in the process when it is over. All shared state
is in PostgreSQL, in Redis, in the process's pool of database connections and,
for the guards of `pkg/security`, in the cookies of the browser.
Handlers call services, services and handlers call repositories, a repository
method is one SQL statement. The transactions are those of `AddProject`, which
a route reaches, and of `UpdateProject`, which none does yet. So the steps that
interleave are the database calls, and the hard behaviours are what happens
between two of them.

| Component | Source | State | Operations | Talks to |
|---|---|---|---|---|
| Authentication service, session store | `handler/auth_handler.go`, `service/auth_service.go`, `repository/user_repository.go`, `pkg/auth/jwt.go` | tables `users`, `sessions`; signed tokens in the hands of clients | register, login, refresh, logout, request and complete a password reset | PostgreSQL; the rate limiter first |
| Rate limiter | `pkg/security/rate_limiter.go` | one sorted set and one time to live per client and path | `CheckRateLimit` | Redis |
| Resume store and handlers | `handler/resume_handler.go`, `repository/cv_repository.go` | tables `resumes`, `personal_info`, five section tables, `project_technologies`; row locks; the connection pool | create, list, get, delete a resume; get and save its personal info; add, get, delete in five sections | PostgreSQL; claims of the access token |
| Access tokens and roles | `handler/middleware.go`, `pkg/auth/jwt.go`, `handler/user_handler.go`, `handler/admin_hander.go` | claims in tokens that are out; the rows of `users` they no longer match | `AuthRequired`, `RequireRole`, profile, admin page; update and deletion of an account | the handlers it wraps |
| Documents | `internal/domain/*.go` | none | `Validate`, `BeforeSave` | handlers and repository |
| Telegram login | `service/auth_service.go`, `pkg/security/telegram.go` | `users`, `sessions` | login | PostgreSQL |
| CSRF protection, encrypted cookie session | `pkg/security/csrf.go`, `session.go` | two cookies of the browser, two keys of the process | make, validate, set, read and clear them | the browser; chained by `SecurityMiddleware`, which no route installs |
| Validator, headers, CORS, error pages | `pkg/security/` | none | middleware | only CORS is installed |
| Start-up, configuration, routing, logging | `cmd/server/main.go`, `config/`, `internal/routes/`, `pkg/logger/`, `pkg/db/` | the pool's size | start, drain for ten seconds, exit | all |

Behaviours that are hard, with what makes each component correct:

- **Sessions.** A refresh is five steps (user, session row, delete, insert,
  answer) and a logout two, without a transaction; two requests may hold the
  same token. Errors of the delete and of the insert of a refresh are only
  logged. Tokens have a resolution of one second and no unique id, so two tokens
  of one user can be equal. Correct means: a token names at most one session
  and a session at most one account; a session exists only after a login with
  the account's credentials; a token of an answered login works when it is first
  presented, and never again after it was used; a logout that was answered
  holds.
- **Rate limiter.** A check is four Redis calls, other checks run in between,
  each with a second of its own, and every error lets the request pass. Correct
  means: nobody is turned away by a quiet key, what counts is kept for its
  interval, and no key stays for ever.
- **Resumes.** The owner is checked with one statement and the act is another;
  the resume may be gone or going in between. A project is written by a
  transaction that locks the resume's row; reads take one statement per section
  and one per project. Correct means: no entry without its resume, no project
  with a part of its technologies, what was answered 201 is kept until its owner
  or an administrator deletes it, what was answered deleted stays deleted,
  connections come back; and, together, each request has its effect at most once
  and in one step with its answer. One of these fails: a deletion of an entry is
  checked against the resume of its path, not against that of the entry.
- **Entries.** An update of a project replaces its technologies in a transaction
  while others add, delete or read them; the handler validates a document before
  it is cleaned and the repository after. Correct means: columns and technologies
  of one update, a reader that sees no technology of an earlier update than the
  columns, a deletion that stays, and a document that one side accepts accepted
  by the other.
- **Access tokens.** No row is read when a token is shown, so a token outlives
  the role and the account it was signed for; a refresh signs with a row that it
  read two statements ago. Correct means: what counts was true of the account
  not before the login or refresh arrived that signed it, no longer ago than the
  token's life.
- **Browser guards.** The jar is shared by requests whose replies overtake each
  other, so a reply may set or remove a cookie that is not the one its request
  carried. Correct means: a page's token works as long as its cookie can, no
  session outlives its login by more than the cookie's age, a useless session is
  dropped and stays dropped.

## 2. Modules

| Module | Models | Code it stands for |
|---|---|---|
| `AuthSessions` | accounts, tokens, sessions; six routes; crashes | `auth_handler.go`, `auth_service.go`, `user_repository.go`, `jwt.go` |
| `SessionStore` | the same routes without their calls: one step per effect, on accounts and live tokens. `AuthSessions` implements it | `auth_service.go` |
| `AccessControl` | tokens shown to protected routes while roles and accounts change; login and refresh with roles | `middleware.go`, `user_handler.go`, `routes.go`, `user_repository.go`, `auth_service.go`, `jwt.go` |
| `RateLimiter` | `CheckRateLimit` and the Redis commands it sends | `rate_limiter.go` |
| `Resumes` | nine kinds of resume route, five sections, the pool, row locks, cascades; crashes | `resume_handler.go`, `cv_repository.go`, the migrations |
| `ResumeStore` | the same routes without their statements: one step per effect, on whole resumes and entries. `Resumes` implements it | `resume_handler.go` |
| `Documents` | `Validate` and `BeforeSave` of the six documents, the row stored for each and the document read back | `internal/domain/*.go`, the inserts and reads of `cv_repository.go` |
| `EntryEdits` | one entry: update, get, delete; the technologies of a project; extends `Documents` | `cv_repository.go` |
| `BrowserGuards` | the cookie jar of a browser against the CSRF layer and the cookie session; restarts with other keys | `csrf.go`, `session.go`, `middleware.go` and `validator.go` of `pkg/security` |
| `MC...` | small instances for TLC: rows at start, documents, symmetry | |
| `...Proofs` | the theorems and their proofs; `ResumeStoreProofs` those of the refinement of `ResumeStore` | |

In `AuthSessions`, `AccessControl`, `RateLimiter` and `Resumes` an element of
`Req` is one HTTP request, `pc` is its next database call, and there is one
action per call: what the goroutine computes up to the next call is part of the
action. In `EntryEdits` it is a call of the repository's interface. In
`BrowserGuards` no row is involved, and the steps are those of the message: sent,
past the guards, answered, delivered. A UUID drawn by a request is the request
itself, since a request inserts at most one row with an id of its own. `reply` is
the HTTP status. The status `Aborted` stands for a connection closed without one.

**A call that fails.** Every call may fail as long as fewer than `MaxFaults`
have failed. A failing write may or may not have taken effect: the connection
can break after the commit. A statement that a constraint refuses, or that
affects no row, is not a fault; it fails whenever the tables say so.

### AuthSessions

`users` and `sessions` are the tables, with the unique indexes of the migrations
(email; refresh token). A token is the record of its signed claims: type, user,
second of issue. `RegisterLookup`/`RegisterInsert` are `Register`,
`LoginLookup`/`LoginInsert` are `Login`, `RefreshUser`, `RefreshFind`,
`RefreshExpire`, `RefreshDelete`, `RefreshCreate` are `RefreshToken`,
`LogoutFind`/`LogoutDelete` are `Logout`. `RequestReset` ends in the panic of
`CreatePasswordReset` ("implement me"); `ResetPassword` refuses every token,
since none of the reset type ever leaves the server. Clients send credentials
they make up, and refresh and access tokens they have been answered; `Arrive`
chooses. Hashing, signing and the User-Agent and address columns are abstract: a
hash verifies the password it was made from. The clock ticks at any time up to
`MaxTime`. The end of a session is computed by Go before its `INSERT`: for a
login in the second its token is signed in, for a refresh in any second from
that one to the `INSERT`, since the deletion of the old row lies between. In the
second in which `expires_at` falls, the test of the row may go
either way, because the column has a fraction of a second that the clock has
not.

### SessionStore

The abstract specification of those routes: the accounts, and `live`, the
sessions as a client knows them, by their tokens, with their owner and their
end. A request is received or refused; `Register` adds an account with a new
email; `GrantLogin` signs a token for who gave an account's password,
`GrantRefresh` for who sent a token that is live at that moment; `Open` makes
the granted token live, in the step that answers; `Close` ends the session of
the token that was sent, for a logout, for a refresh that was granted its own,
or for one that is refused because the session has expired. Nothing else takes a
session away, and nothing but `Grant` followed by `Open` makes one. `NoEffect`
is an answer without an effect, with the statuses of its route (`Refusals`), and
`Abort` breaks connections. `AuthSessions` implements it with `live <- Live`,
the rows without their ids; failing calls and crashes are included. The grant
and the opening are two steps because they are in the code, and a client can
tell: two refreshes with one token may both be granted. The abstract store
leaves open that a granted refresh is answered 200 without its session, which is
what the code does when its `INSERT` fails; when none fails, `RefreshTokenLive`
closes it. It assumes nothing of the tokens that clients send.

### AccessControl

Here a token has a role as well, and an account may be given another role
(`UpdateUser`), be deleted with its sessions and resumes (`DeleteUser`), or be
logged out everywhere (`LogoutAll`, which fails: `DeleteUserSessions` deletes
`FROM users WHERE user_id`, a column that table does not have). No route calls
these three yet, the repository and the service offer them. `Authorize` is
`AuthRequired` with `RequireRole`, before `GetProfile`/`ListResumes` (the
profile), the admin page and `CreateResume`. It reads the claims alone.
`LoginLookup` to `RefreshCreate` sign with the row that was read two calls
before. No call fails in this module; what a failing call does to a session is
in `AuthSessions`. `past` is a history of who had which role in which second.

### RateLimiter

`zset` holds the sorted set of every key, `expireAt` its time to live, `limit`
the limit the limiter was made with. `Trim`, `Card`, `Add`, `Expire` are the
four Redis calls with what the function does up to the next. Every one may fail,
with or without its effect, and `Crash` ends the process with its checks between
any two of them, while Redis keeps what they have sent. `cut` is a history: the
checks whose `ZADD` was sent and whose `EXPIRE` had no effect or was not
reached. `KeysExpire`, `WindowKept` and the inductive invariant speak of those
checks instead of excluding failures. A key without a time to live holds nothing
but entries of checks that were cut off or have their `EXPIRE` still before
them, so one check that comes to its end frees Redis of the key again.
`KeyExpires` is Redis dropping a key, and `Tick` waits for it: a key is gone in
the second its time ends. `Tick` also waits for a check that has been under way
for `MaxDelay` seconds. That is an assumption, justified by the timeouts of the
Redis client. Without it, a check could be suspended for a whole window and trim
with a second from the past.

### Resumes

`resumes`, `entries`, `techs` are the tables. `held` is the set of requests that
keep a connection from one action to the next: those in a transaction and those
whose `DELETE` waits for a lock. All others need one for the duration of an
action (`Free`). `locks` is the set of open transactions whose foreign-key check
has locked the resume's row. `FindResume` is `GetCVById` with the check of the
owner, or of the role, that follows it; the next call is that of the route.
`DeleteCV` waits (`WaitForLock`) while a transaction has the lock, then deletes
with the cascades of the schema. `BeginTx`, `TxInsert`, `TxTech` (once per
technology) and `TxCommit` are `AddProject`; the rows appear at the commit.
`ReadSection` and `ReadTechs` are the reads, of one section for its own route,
of all five for `GetResume`, which ignores their errors. `SavePersonalInfo`
always answers 500: the `ON CONFLICT (resume_id)` clause names a constraint that
`personal_info` does not have, so PostgreSQL refuses the statement, and the table
stays empty. The five section routes differ in their table and in two things
the model keeps: projects have technologies, and the error of an experience's
`INSERT` is not returned. The fields of entries are in `Documents`; here a body
that does not validate is answered 400. A path may name the id of any resume or
entry whose request is over (`KnownResumes`, `KnownEntries`), whatever it was
answered, since the list of resumes shows what an `INSERT` stored although it was
answered 500. `MayDelete` is who owns the entry's resume, as its creation says, or
an administrator. `DeleteAsked` is a deletion by them, `Misdirected` one by
somebody else who was let in to another resume, `Doomed` either.

### ResumeStore

The abstract specification of those routes: `resumes`, `stored`, the entries
with all their technologies, and `may`, the requests that were let in to the
resume they name. Each request is received or refused; `Admit` lets it in, which
needs its owner or an administrator; then it has one effect, in the step that
answers it, or is answered without one (`NoEffect`: `Failures`, and the
`Successes` of its route, which for a read of one resume need that the request
was let in). `AddEntry` and `DeleteResume` need the owner of the resume, or an
administrator, and the resume at the moment of the effect. `DeleteEntry` needs a
request that was let in and an entry of that id and section, which may be in any
resume: that is what the handlers do (section 3, `ResumeForeign`). `Abort` breaks
connections. `Resumes` implements it with `stored <- Stored`, the rows of an
entry with those of its technologies, and `may <- LetIn`, the requests whose row
passed the check. The property is `ImplementsStore`, a conjunction of the initial
predicate and the action property, so it says that no step of the handlers has
half an effect, one for a request that was not let in, a second one, or one
without its answer.

### Documents and EntryEdits

A text is a core with blanks before or after it, which is what `TrimSpace`,
`time.Parse`, the URL parser and the regular expressions can tell apart.
`Valid...` is `Validate` of a document, `Saved...` is `BeforeSave`, `...Row` is
the row that the repository stores and `Shown...` the document it makes of a
row: a date that is `NULL` is read as a word. `ProjectRange` keeps that the
error of `time.Parse` is dropped, so that a project which starts at "Present" is
compared with the zero time.

`EntryEdits` has one entry of each kind in turn (`kind`, chosen at the start),
its `row`, the technologies `techs`, each with the call that wrote it, and the
`log` of the committed updates. `Overwrite` is `UpdateEducation`,
`UpdateExperience`, `UpdateCertification`, `UpdateSkill`. `BeginTx` to
`TxCommit` are `UpdateProject`; `lock` is the row lock from its `UPDATE` on,
`cleared` what its `DELETE` has marked, `made` what it has inserted. `TxUpdate`
of a row that is not there keeps its connection: `err` is `nil` at
`ErrNotFound`, so the deferred function does not roll back.
`WaitForRow`/`Delete` and `WaitForTechs`/`DeleteTechnology` are statements that
wait for the transaction. After its wait `DeleteTechnology` deletes only what it
had found. `AddTechnology` logs its error and returns `nil`. `GetProject` takes
two statements (`Get`, `GetTechs`).

### BrowserGuards

`jar` has the two cookies and the second the browser drops each at; `msg` is
what a request took of it when it was sent; `setCsrf` and `setSession` are the
`Set-Cookie` lines of its reply, which `Deliver` applies to the jar of that
moment. `TurnAway` is the rate limiter or the validator, `PassSafe` and
`PassUnsafe` are `Session.Middleware` with `CSRFProtection.Middleware`, and
`LogIn`, `Save`, `LogOut`, `Work` are what a handler may do with
`Session.Create` and `Session.Clear`. `TokenOf` keeps that a token from the form
is never looked at: `csrf.go:103` takes the empty header in its place, so a form
is always refused. `Clears` keeps that a session which cannot be read or has
ended is removed and a missing one is not. `Restart` gives the process other
keys and ends what it served. No route installs the chain, so the handler is an
assumption: it logs in with a session that has no end of its own
(`Session.Create` then gives it one, of the cookie's age; it keeps any other,
`session.go:64`), and it saves the session it was given with the end that has. A
handler that chose ends of its own could make sessions live longer. Keys, tokens
and sessions are records; that nobody else can make one is left to the
cryptography.

## 3. Runs

| Run | Instance | Shows | Distinct states |
|---|---|---|---|
| `AuthRace` | four requests to login, refresh, logout; one account; 4 seconds; no failing call | `TokenNamesSession`, `RefreshTokenLive`, `PresentedSessionGone`, `FirstUseAccepted`, `LoginSucceeds`, `SpentForGood` | 358,041 |
| `AuthFaults` | three requests to all routes; two emails, two passwords; 2 seconds; one failing call, crashes | `OneAccountPerEmail`, `SessionFromLogin`, `LoginTokenLive`, `LogoutRevokes`, `ImplementsStore` | 295,703 |
| `Access` | four requests; an administrator and a user; the clock ticks once; no failing call | `RowsOfAccounts`, `LetInByRecentRole`, `NoGrantWhenExtinct` | 1,093,617 |
| `RateThrottle` | five requests, one key, a window of 2 seconds, limit 2 or 4; two failing calls or crashes | `RejectedOnlyWhenBusy`, `NeverRejects`, `KeysExpire`, `SafetyInv`, `WindowKept` | 853,368 |
| `ResumeRace` | three requests of an owner and an administrator to create, add, read, list, save, delete; two technologies; one failing call | `ProjectWhole`, `PromisedEntryKept`, `DeletedStaysDeleted`, `DeletedOnce`, `ShownWhole`, `ImplementsStore` | 1,495,203 |
| `ResumeFaults` | three requests to add, read, delete; one failing call; pool of two; fairness | `SafetyInv`, `ConnectionsReturned`, `EveryRequestEnds` | 254,860 |
| `EntryEdits` | three calls on one entry of each kind; one failing call; pool of two; fairness | `AcceptedTwice`, `ReadBack`, `OneUpdate`, `DeletedForGood`, `ReadsForward`, `ConnectionsAccounted`, `EveryRequestEnds` | 159,264 |
| `Guards` | three requests of one browser, one user, two keys, one restart; the clock passes the age of a cookie twice | `DeadSessionDropped`, `FreshTokenWorks`, `ActsForTheLoggedIn`, `SessionsForCause` | 1,527,090 |
| `AuthLifetime` | as `AuthRace`, three requests | violates `SessionOutlivesToken` | |
| `RateLimit` | four requests, one key, limit 2 | violates `LimitEnforced` | |
| `ResumeExperience` | two adds of an experience, one failing call | violates `AddedExperienceStored` | |
| `ResumeForeign` | three requests of two owners to create, add, delete; no failing call | violates `EntryKeptForOwner` | |

`TypeOK` of every module, `NoOrphans` and `OwnerDeletes` of `Resumes`, the
`SafetyInv` of `AuthSessions`, `AccessControl`, `EntryEdits` and `BrowserGuards`,
`QuietInv` of `AuthSessions` and `AnswerInv` of `Resumes` are proved (section 4)
and in no run. What `NoOrphans` and `OwnerDeletes` say is contained in
`ImplementsStore`.

**Bounds, and why they are enough.** The properties relate two requests that
race and a third that made the state they race for. In the session store a race
is over a token that a login has answered: a login and two requests that present
the token. `AuthRace` has a fourth, so that a refreshed token can be presented
again or a second login can fall into the same second. Its clock runs past the
expiry of a first token (3 seconds) and past the shorter expiry of a refreshed
session (1 second), so both kinds of expiry happen, in either order with the
steps of a request. In `Access` the four are a login, a refresh, a change of the
account and a request that shows what came of it; an access token lasts one
second, so it ends within the run. One failing call is enough for each statement
of each request to be the one that fails; only `ConnectionsReturned` counts
failures, and it says one connection at most for each. The limiter has two, so
that checks are cut off one after the other. A limit of 2 with five
requests has rejections, and requests of other seconds; the limit of 4 is above
`Interval + MaxDelay`, with one request more than that limit. One key is enough
for both: checks of different keys share nothing in Redis. Two technologies are
the fewest with a middle: one inserted, one not. The documents of `EntryEdits`
vary a good one in the text, or the pair of dates, that a rule is about: blank
or padded names, ranges that begin after they end, "Present" as a start,
addresses with and without a path. With `Guards`' three requests two may
overtake each other while a third carries what came of it. Requests are
symmetric where the cfg declares it; no liveness run uses symmetry. The proofs
remove the bounds for every safety property.

**Deadlock** is checked in every run but `Guards`. A behaviour may stop only when
every request has its answer (`Finished`, with the bounded clock run out where
there is one). In `Guards` it may stop as well when a request is lost or the
requests are used up. `Crash` is always possible while a request is under way,
so the runs that matter for blocking are those with fairness.

**Fairness.** `FairSpec` of `Resumes` and `EntryEdits` has weak fairness of
`Serve(r)` for every request `r` that is being served. The Go scheduler is
preemptive and runs every goroutine that can run; a database call returns or
fails. Weak fairness is enough: no other step takes the enabledness of a served
request away for ever without a reason that `EveryRequestEnds` names. A request
that needs a connection is enabled only while one is free, and the property
excepts exactly the states in which abandoned transactions (in `Resumes` with
the deletions that wait for them) have taken the connections or the lock.
Nothing is assumed of `Arrive` (no client has to send) or of `Crash`. In
`EntryEdits` the property has the form `<>[]`: every request comes once, so from
some point on none is under way, and TLC decides that form faster. The other
modules state no liveness: without the pool and the locks a request is
straight-line code, which ends by its shape.

### What the runs show to be wrong

- **A refreshed session ends too early** (`AuthLifetime`). `RefreshToken` gives
  the session `ResetTokenExpiry`, one hour, although the token it answers lasts
  the "7 days" of `main.go:50` and `Login` uses `RefreshTokenExpiry`.
- **More than the limit pass** (`RateLimit`). Score and member are the second, so
  the requests of a second are one entry. The other side is `NeverRejects`: with
  100 a minute a window never holds many more than 60 entries and nobody is ever
  turned away.
- **An experience that was not stored is answered 201** (`ResumeExperience`).
- **An entry is deleted through another resume** (`ResumeForeign`). The handlers
  that delete an entry look at the owner of the resume in the path, answer who
  is not let in "You don't have permission to update this resume"
  (`resume_handler.go:396`), and delete the entry of the path by its id alone
  (`resume_handler.go:400`, `cv_repository.go:347`). Whether it is in that resume
  nothing asks, so an account with one resume of its own is let in to delete the
  entries of all. The other properties name this cause where it matters:
  `PromisedEntryKept` says that an entry goes by it or by a deletion of its owner
  or an administrator and by nothing else, and `ShownWhole` that a project read
  without technologies was being deleted in one of these ways.
- By `ConnectionsReturned` and `EveryRequestEnds` of `Resumes`: `err` is shadowed
  in the loop of `AddProject` (`cv_repository.go:737`), so a technology that
  fails leaves the transaction open. A connection is lost for good, and a
  deletion of that resume may wait for ever. The properties state the extent:
  one connection at most per failing call, and no request is stuck otherwise.
- By `ConnectionsAccounted` of `EntryEdits`: `UpdateProject` of a project that is
  not there loses its connection (`cv_repository.go:842`), with no call failing.

More need no run, being visible in one line, and the models contain them: a
wrong password and an unknown email are answered 500 instead of 401, and a taken
email 500 instead of 409, because `errors.Is` is given a fresh `errors.New`; the
personal information can never be saved; a reset of the password always drops
the connection; a refreshed pair is answered although its session was not
stored (`auth_service.go:365`); `DeleteUserSessions` names the wrong table; a
CSRF token in a form is never accepted (`csrf.go:103`); a CSRF cookie of an older
key is never replaced (`csrf.go:68`), so writes are refused until its age.

## 4. Proofs

`tlapm` proves, for every value of the constants that satisfies the assumptions
of the module (finite `Req`; no request is the id of a row that was there at
start; seed rows unique; `None` is no value; `MaxDelay < Interval`; in
`Documents`, the words "Present" and "No Expiration" are no days and the empty
text is no address):

| Module | Theorem | Property |
|---|---|---|
| `AuthSessionsProofs` | `SafetyInvariant`, `TypeCorrect` | `SafetyInv`, `TypeOK` |
| | `OneAccount` | `OneAccountPerEmail` |
| | `TokenNames` | `TokenNamesSession` |
| | `SessionsFromLogins` | `SessionFromLogin` |
| | `LoginTokensLive` | `LoginTokenLive` |
| | `SpentTokens` | `SpentForGood` |
| | `LogoutIsEffective` | `LogoutRevokes` |
| | `QuietInvariant` | `QuietInv` |
| | `RefreshTokensLive` | `RefreshTokenLive` |
| | `PresentedSessionsGone` | `PresentedSessionGone` |
| | `FirstUsesAccepted` | `FirstUseAccepted` |
| | `LoginsSucceed` | `LoginSucceeds` |
| | `AuthImplementsStore` | `ImplementsStore` of `AuthSessions` |
| `AccessControlProofs` | `SafetyInvariant`, `TypeCorrect` | `SafetyInv`, `TypeOK` |
| | `RowsHaveAccounts` | `RowsOfAccounts` |
| | `LetInWithRecentRole` | `LetInByRecentRole` |
| | `ExtinctForGood` | `NoGrantWhenExtinct` |
| `RateLimiterProofs` | `SafetyInvariant`, `TypeCorrect` | `SafetyInv`, `TypeOK` |
| | `StoredKeysExpire` | `KeysExpire` |
| | `NothingRejected` | `NeverRejects` |
| | `EntriesKept` | `WindowKept` |
| | `RejectionsJustified` | `RejectedOnlyWhenBusy` |
| `ResumesProofs` | `SafetyInvariant`, `TypeCorrect` | `SafetyInv`, `TypeOK` |
| | `EntriesHaveResumes` | `NoOrphans` |
| | `ProjectsWhole` | `ProjectWhole` |
| | `PromisesKept` | `PromisedEntryKept` |
| | `DeletionsStay` | `DeletedStaysDeleted` |
| | `OwnersDelete` | `OwnerDeletes` |
| | `AnswerInvariant` | `AnswerInv` |
| | `DeletionsOnce` | `DeletedOnce` |
| | `ShownEntriesWhole` | `ShownWhole` |
| | `ConnectionsComeBack` | `ConnectionsReturned` |
| `ResumeStoreProofs` | `ResumesImplementStore` | `ImplementsStore` of `Resumes` |
| `DocumentsProofs` | `AcceptedAgain` | what a handler accepts is accepted after it is cleaned, for every document |
| | `StoredReadBack` | the document of a stored row is accepted, and stored as the same row |
| `EntryEditsProofs` | `SafetyInvariant`, `TypeCorrect` | `SafetyInv`, `TypeOK` |
| | `AcceptedAlike`, `RowsReadBack` | `AcceptedTwice`, `ReadBack` |
| | `UpdatesWhole` | `OneUpdate` |
| | `DeletionsStay` | `DeletedForGood` |
| | `ReadsForwardAlways` | `ReadsForward` |
| | `ConnectionsKept` | `ConnectionsAccounted` |
| `BrowserGuardsProofs` | `SafetyInvariant`, `TypeCorrect` | `SafetyInv`, `TypeOK` |
| | `DeadSessionsStayDropped` | `DeadSessionDropped` |
| | `FreshTokensWork` | `FreshTokenWorks` |
| | `ActsForRecentLogins` | `ActsForTheLoggedIn` |
| | `SessionsHaveCauses` | `SessionsForCause` |

`SafetyInv` is each module's inductive invariant. `QuietInv` and `AnswerInv` are
second layers on top of it: inductive as long as `SafetyInv` holds, and each
only for the properties that need it. TLC checked all of them on the runs'
instances before they were proved, and does `SafetyInv` in `RateThrottle` and
`ResumeFaults`. Each proof has a lemma per action, or per group of actions of
the same shape, `NextSafety` joins them, and the theorems follow.

**AuthSessions.** The properties are not inductive alone.
- `TokenNamesSession` needs that the token a request inserts is of type refresh
  and of the user of the row: `DataInv` (what a request has signed and been sent)
  and `RowInv` (a row carries what its inserter signed).
- `LoginTokenLive` is the interesting one: a session is deleted only by its id,
  after it was read by its token. `RowInv` ties the row that a request has read
  to the token it was sent (`ses[r].token = arg[r]`), hence every deletion of the
  row presupposes a presentation of the token; ids are requests that are done,
  so no later insert reuses one.
- `SessionFromLogin` follows from `DataInv`: `LoggedIn` is stable and passes from
  the token to the session to the next token.
- `SpentForGood` and `LogoutRevokes` are action properties from the invariant:
  a signed token has the current second, so a token of an earlier second can be
  stored only by a request that already holds it (`TokenFlowKept`).

**AuthSessions while no call fails.** Four properties promise something only as
long as no call has failed (`faults = 0`; crashes are allowed). They need
`QuietInv`, the way of a token from its grant to its session and from there to
the request that uses it up:
- `ProgressInv`: who has signed a token or read a row is past that step, and a
  refresh token that a client sends was answered before.
- `ReadInv`: rows are never updated, so the row with the id that was read is the
  row that was read. With `ClosedInv`, no row has the id of a session that was
  found and deleted, this gives `PresentedSessionGone`: the deletion affects no
  row only if another deletion came first, and ids are not drawn twice.
- `RefreshTokenLive` is inductive with these: the `INSERT` of a granted token is
  refused only if an equal token is stored, and then that one is there. A row
  goes only by a request that presented its token (`ReadInv`).
- `RefusedInv`: the only login with good credentials that is answered 500 is one
  whose token was signed and had an equal; `SeedInv` says that the account is
  still there.
- `SoleUseInv` is what `FirstUseAccepted` needs while the refresh is under way.
  The session of a login's token, presented by one refresh and equal to no
  other, is there, with the token's own expiry, until that refresh deletes it.
  `LoginTokenLive` starts it when the token is first presented.

`ReadStep` says once what every step leaves of `ReadInv`; the refinement
uses it too.

**AuthSessions implements SessionStore.** The map forgets the ids of the rows,
so the proof has to say that tokens tell rows apart: `TokenNamesSession` makes
the deletion of a row by its id the end of exactly one live token, and it is
`ReadInv` that makes it the token which was sent. `Register` needs that the
insert of a taken email is refused, `Grant` that nothing was granted before
(`ProgressInv`), `Open` that the row has the granted token and its user
(`DataInv`), and `Close` for an expired session that the row deleted is the one
whose time was over (`ReadInv`). A failing write that took effect is the effect
with an error; one that did not is `NoEffect`, or a stutter if the request goes
on. The lookups stutter.

**AccessControl.** The claims a request signs are `Truthful`: the account had
that role in a second since the request arrived. That is kept from the row read
(`acct`) to the grant to the tokens that clients hold. `RowsOfAccounts` is kept
by the foreign key at an insert and by the cascade at a deletion.

**RateLimiter.** `ClockInv` bounds how far the clock is ahead of a check,
`EntryInv` traces an entry to a request, `TrimInv` says that between `Trim` and
`Card` only fresh entries are in the set whatever others add, `TTLInv` that a
time to live covers every entry, or that the entry's check was cut off or has
its `EXPIRE` before it (`Unsettled`). A crash disturbs only the last: it moves
the checks at `expire` into `cut` (`CrashSafety`). `StoredKeysExpire` is
`TTLInv` without the time; `EntriesKept` needs all of it, for the expiry of a
key. `RejectionsJustified` maps the entries that were counted injectively to
other requests of the window (one per second). `NothingRejected` maps them into
an interval of seconds of length `Interval + MaxDelay`.

**Resumes.** `ControlInv` says what a request asked for at each step and that
all but a read of a whole resume have passed the check, `IdInv` that an id is
drawn once, `FoundInv` that a resume that was found is there until its deletion
was let in, and `TxInv` that a transaction from its first insert on has the
lock, that the lock keeps the resume, and that the technologies are counted.
`ProjectWhole` needs the count at the commit, `NoOrphans` that the resume is
there at the commit, which is the lock; `DeletedStaysDeleted` needs that the id
is never inserted again.

`PromisesKept` needs that a deletion of an entry has an owner, an administrator or
another resume behind it: the request was let in (`ControlInv`), and either may
delete that entry or is `Misdirected`.

`AnswerInv` is about what requests are told.
- `DeletedOnce` needs `GoneInv`: a 200 is given when a row was deleted, and then
  none is left that a second deletion could take; entries of that id are
  inserted by one request, which is done (`AskInv`). For resumes the first part
  is `DeletedStaysDeleted`.
- `ShownWhole` needs `PendingInv`, for the projects a reader has read and whose
  technologies it has yet to read: each is still stored, or its deletion was let
  in, so that no technologies means a deletion and some means all of them
  (`ProjectWhole`).
- `ConnectionsReturned` needs `HeldInv`: who is over and holds a connection is
  an added project that failed half way. The count goes by one step: what is
  leaked grows by one request at most and with a failing call (`LeakStep`,
  `AddingOne`). The bound of the pool is the guard `Free`.

Two frame lemmas keep these proofs short. `StepOfOne` says that a step changes
the control state of one request, crashes apart, and `Lasting` that what was
asked, and a deletion that was let in, last.

**The refinement.** `ResumesImplementStore` maps the initial state to the initial
state and every action to a step of `ResumeStore` or to a stutter: the statements
before the last one stutter, the commit of a project is `AddEntry`, and needs
from `SafetyInv` that the resume is still there (the lock) and that the
technologies are all counted; the `DELETE` is `DeleteResume`, due at that moment
because the row read before is the row deleted (`IdInv`); the same makes the
`INSERT` of an entry an `AddEntry` of the owner, and `ControlInv` the deletion of
an entry one of a request in `may`. The check of `FindResume` is `Admit`.

**Documents and EntryEdits.** `AcceptedAgain` and `StoredReadBack` go kind by kind
over lemmas on `Trim`, `Period`, `OptionalUrl` and the date columns.
`EntryEdits`' invariant says that whoever writes holds the lock with a connection
(`TxInv`), that after its `DELETE` every technology but those added one by one is
among those it has cleared, and that the row's update is in the log (`LogInv`);
`OneUpdate` and `ReadsForward` follow at the commit. `ReadBack` needs that the row
is that of a document that was cleaned and accepted (`RowInv`).

**BrowserGuards.** `JarInv`: a token heard less than a cookie's age ago has left
its cookie, or a later one, in the jar; the session of the jar has a login
behind it. `Carried` says the same of what a request took along, `Fetched` what a
reply's cookie says of it. `Dropped` is why a useless session stays away: a
session is stored only by the one request whose reply carries it, and that one
is done.

**Only model-checked.** Liveness: `EveryRequestEnds` of `Resumes` and
`EntryEdits`. TLAPS does not prove it under fairness. Every other property of
the passing runs is proved. ENABLED, induction over data and recursive
operators are beyond the prover; the modules use none of them.

## 5. Not modelled, and why

- **Telegram login**: `LoginWithTelegram` is not legal Go as it stands
  (`auth_service.go:163`), so it has no behaviour. Were it repaired, line 115
  would refuse every login, validating a second time with the constant
  "OUR_TOKEN" and a lifetime of three nanoseconds; and the rows it would make have
  a `NULL` email, which every read of `users` scans into a string. A model would
  be of another program.
- **The reset of a password beyond its request**: `CreatePasswordReset` panics,
  and no reset token ever leaves the server.
- **The clean-up of expired sessions and resets**: called by nothing.
- **Hashing and the cipher**: cryptography, taken as exact.
- **HTML sanitizing of the validator**: nothing calls it. Its refusals are
  `TurnAway`.
- **Headers, CORS, JSON answers, error pages, configuration, logging**: output or
  input without a state of their own.
- **`RateLimiter.Middleware`**: installed by no route; `CheckRateLimit` is.
- **Isolation inside one statement**: a statement is atomic, as READ COMMITTED
  gives it for the single-row writes and single-table reads of this code.

## 6. Plan

1. *Done*: `AuthSessions`, `RateLimiter`, `Resumes`, sessions first, since every
   other route trusts them.
2. *Done*: `Documents` and `EntryEdits`, `AccessControl`, `ResumeStore` with its
   refinement, `BrowserGuards`, and the theorems of section 4.
3. *Done*: proofs of all safety properties of the runs (`QuietInv`,
   `AnswerInv`).
4. *Done*: the abstract `SessionStore`, and that `AuthSessions` implements it.
5. An abstract store of one entry with its technologies, which `EntryEdits`
   would implement but for the updates of missing projects; and the safety half
   of `EveryRequestEnds`: that every request under way is enabled, waits for a
   lock whose holder is under way, or is in the excepted state, which needs no
   ENABLED if it is stated on the guards.
6. `TelegramLogin`, once its source compiles.
