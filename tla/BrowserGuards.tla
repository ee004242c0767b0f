--------------------------- MODULE BrowserGuards ---------------------------
(***************************************************************************)
(* The cookies of one browser against the guards of pkg/security: the      *)
(* validator, the encrypted session and the CSRF token, in the order       *)
(* SecurityMiddleware chains them.                                         *)
(*                                                                         *)
(* The browser keeps one cookie jar for all its requests.  A request takes *)
(* the cookies of the moment it is sent, a reply changes the jar when it   *)
(* is delivered, and requests and replies overtake each other; one that is *)
(* lost takes no further step.  The server keeps nothing but its two keys; *)
(* a restart may change them.                                              *)
(* No route of this repository installs the chain.  The handler behind the *)
(* guards logs in with a session that has no end of its own, so that       *)
(* Session.Create gives it one, saves the session it was given with the    *)
(* end that has, and logs out with Session.Clear.                          *)
(***************************************************************************)
EXTENDS Naturals

CONSTANTS
    Req,           \* the requests of the browser
    User,          \* UserId of a session
    Key,           \* keys the server is started with
    None,          \* no value
    Removal,       \* the session cookie of Session.Clear
    CookieMaxAge,  \* of both cookies, in seconds
    MaxTime,       \* bound on the clock
    MaxRestarts    \* bound on the restarts

\* A token and a session are told apart by the request whose reply first
\* carried them: both hold random bytes (the payload, the nonce of AES-GCM).
Token   == [key : Key, by : Req]
Session == [user : User, key : Key, expiresAt : Nat, by : Req]

Methods == {"safe", "unsafe"}

\* What became of a request: the rate limiter or the validator answered (400,
\* 413, 415, 429), or the CSRF layer did (403), or the handler.
Reply == {"turned_away", "forbidden", "served"}

Message == [method : Methods, header : Token \cup {None}, form : BOOLEAN,
            csrf : Token \cup {None}, session : Session \cup {None},
            at : Nat, told : SUBSET Session]

ASSUME GuardsAssumption ==
    /\ CookieMaxAge \in Nat /\ MaxTime \in Nat /\ MaxRestarts \in Nat
    /\ None \notin Token \cup Session \cup Message \cup Reply \cup User \cup Nat
    /\ Removal \notin Session \cup {None}

VARIABLES
    now,         \* the clock, in seconds
    csrfKey,     \* CSRFConfig.Key
    sessionKey,  \* SessionConfig.Key
    jar,         \* the cookies of the browser, and until when it keeps them
    heard,       \* [token, at]: the CSRF tokens replies brought, and when
    pc,          \* where a request is
    msg,         \* what it carries
    ctx,         \* the session in its context
    setCsrf,     \* Set-Cookie of its reply: the CSRF token
    setSession,  \* Set-Cookie of its reply: a session, or its removal
    reply,       \* who answered
    restarts,    \* so many so far
    log          \* [by, user, at]: logins and, user None, logouts (history)

keys   == <<csrfKey, sessionKey, restarts>>
client == <<jar, heard, msg>>
server == <<ctx, setCsrf, setSession, reply, log>>
vars   == <<now, keys, pc, client, server>>

Empty == [csrf |-> None, csrfUntil |-> 0, session |-> None, sessionUntil |-> 0]

Init ==
    /\ now = 0
    /\ csrfKey \in Key /\ sessionKey \in Key
    /\ jar = Empty
    /\ heard = {}
    /\ pc = [r \in Req |-> "idle"]
    /\ msg = [r \in Req |-> None]
    /\ ctx = [r \in Req |-> None]
    /\ setCsrf = [r \in Req |-> None]
    /\ setSession = [r \in Req |-> None]
    /\ reply = [r \in Req |-> None]
    /\ restarts = 0
    /\ log = {}

-----------------------------------------------------------------------------
(* The browser.                                                            *)

\* r brought a session that was of no use when it was read.
Dead(r) ==
    reply[r] \in {"forbidden", "served"} /\ msg[r].session # None /\ ctx[r] = None

\* A request leaves with the cookies of the jar.  A write may bring a token
\* of an earlier reply in the header; the form is looked at if it does not.
\* told, a history, has the useless sessions that delivered replies answered.
Send(r) ==
    /\ pc[r] = "idle"
    /\ \E method \in Methods, header \in {h.token : h \in heard} \cup {None},
          form \in BOOLEAN :
         /\ method = "safe" => header = None /\ ~form
         /\ form => header = None
         /\ msg' = [msg EXCEPT ![r] =
              [method |-> method, header |-> header, form |-> form,
               csrf |-> jar.csrf, session |-> jar.session, at |-> now,
               told |-> {msg[q].session : q \in {p \in Req : pc[p] = "done" /\ Dead(p)}}]]
    /\ pc' = [pc EXCEPT ![r] = "sent"]
    /\ UNCHANGED <<now, keys, jar, heard, server>>

\* The jar after the cookies of a reply.
StoreSession(j, s) ==
    IF s = None THEN j
    ELSE IF s = Removal THEN [j EXCEPT !.session = None, !.sessionUntil = 0]
    ELSE [j EXCEPT !.session = s, !.sessionUntil = now + CookieMaxAge]

StoreToken(j, t) ==
    IF t = None THEN j
    ELSE [j EXCEPT !.csrf = t, !.csrfUntil = now + CookieMaxAge]

Deliver(r) ==
    /\ pc[r] = "answered"
    /\ jar' = StoreToken(StoreSession(jar, setSession[r]), setCsrf[r])
    /\ heard' = heard \cup {[token |-> t, at |-> now] : t \in {setCsrf[r]} \ {None}}
    /\ pc' = [pc EXCEPT ![r] = "done"]
    /\ UNCHANGED <<now, keys, msg, server>>

\* The browser drops a cookie at its age.
Aged(t) ==
    [csrf    |-> IF t < jar.csrfUntil THEN jar.csrf ELSE None,
     csrfUntil |-> IF t < jar.csrfUntil THEN jar.csrfUntil ELSE 0,
     session |-> IF t < jar.sessionUntil THEN jar.session ELSE None,
     sessionUntil |-> IF t < jar.sessionUntil THEN jar.sessionUntil ELSE 0]

Tick ==
    /\ now < MaxTime
    /\ now' = now + 1
    /\ jar' = Aged(now + 1)
    /\ UNCHANGED <<keys, heard, pc, msg, server>>

-----------------------------------------------------------------------------
(* The guards, outermost first.                                            *)

Answer(r, who) ==
    /\ pc' = [pc EXCEPT ![r] = "answered"]
    /\ reply' = [reply EXCEPT ![r] = who]

\* The rate limiter or the validator: before any cookie is read.  The reply
\* has none either, so its delivery is not a step of its own.
TurnAway(r) ==
    /\ pc[r] = "sent"
    /\ pc' = [pc EXCEPT ![r] = "done"]
    /\ reply' = [reply EXCEPT ![r] = "turned_away"]
    /\ UNCHANGED <<now, keys, client, ctx, setCsrf, setSession, log>>

\* Session.Get: decrypted under the key of today, and not past its end.
Decrypts(s) == s.key = sessionKey

Expired(s) == now > s.expiresAt

Valid(s) == Decrypts(s) /\ ~Expired(s)

\* With a bug: an expired session is not told from a missing one.
ClearsUndecryptable(s) == s # None /\ ~Decrypts(s)

\* With a bug: every error clears.
ClearsOnAnyError(s) == s = None \/ ~Valid(s)

\* The errors of Get on which the middleware clears the cookie: every one but
\* that of a missing cookie.
Clears(s) == s # None /\ ~Valid(s)

\* Session.Middleware: what the context and the reply get.
ReadSession(r) ==
    LET s == msg[r].session IN
    /\ ctx' = [ctx EXCEPT ![r] = IF s # None /\ Valid(s) THEN s ELSE None]
    /\ setSession' = [setSession EXCEPT ![r] = IF Clears(s) THEN Removal ELSE None]

\* A browser without the token's cookie gets one; a cookie of any key stays.
Issued(r) == IF msg[r].csrf = None THEN [key |-> csrfKey, by |-> r] ELSE None

\* A safe method passes both layers in one step: nothing they share changes
\* between them.
PassSafe(r) ==
    /\ pc[r] = "sent" /\ msg[r].method = "safe"
    /\ ReadSession(r)
    /\ setCsrf' = [setCsrf EXCEPT ![r] = Issued(r)]
    /\ pc' = [pc EXCEPT ![r] = "handler"]
    /\ UNCHANGED <<now, keys, client, reply, log>>

\* The token of a write is that of the header; if there is none the form's is
\* looked for, and then the empty header is validated in its place.
TokenOf(m) ==
    IF m.header # None THEN m.header
    ELSE IF m.form THEN m.header
    ELSE None

\* With a bug: the header must repeat the cookie.
TokenRepeatsCookie(m) == m.csrf # None /\ TokenOf(m) = m.csrf

\* Validation is of the signature alone: whose the token is and how old,
\* nothing asks.
TokenAccepted(m) ==
    m.csrf # None /\ TokenOf(m) # None /\ TokenOf(m).key = csrfKey

PassUnsafe(r) ==
    /\ pc[r] = "sent" /\ msg[r].method = "unsafe"
    /\ ReadSession(r)
    /\ IF TokenAccepted(msg[r])
         THEN pc' = [pc EXCEPT ![r] = "handler"] /\ UNCHANGED reply
         ELSE Answer(r, "forbidden")
    /\ UNCHANGED <<now, keys, client, setCsrf, log>>

-----------------------------------------------------------------------------
(* The handler.  A panic leaves the cookies set so far in the header that  *)
(* RecoveryMiddleware writes with status 500.                              *)

\* With a bug: every save moves the end.
CreateProlonged(r, user, expiresAt) ==
    setSession' = [setSession EXCEPT ![r] =
      [user |-> user, key |-> sessionKey, by |-> r,
       expiresAt |-> now + CookieMaxAge]]

\* Session.Create: an end of zero is replaced, any other is kept.
Create(r, user, expiresAt) ==
    setSession' = [setSession EXCEPT ![r] =
      [user |-> user, key |-> sessionKey, by |-> r,
       expiresAt |-> IF expiresAt = None THEN now + CookieMaxAge ELSE expiresAt]]

\* A session without an end of its own.
LogIn(r) ==
    /\ pc[r] = "handler"
    /\ \E u \in User :
         /\ Create(r, u, None)
         /\ log' = log \cup {[by |-> r, user |-> u, at |-> now]}
    /\ Answer(r, "served")
    /\ UNCHANGED <<now, keys, client, ctx, setCsrf>>

\* The session that was read is stored again, with other data and its end.
Save(r) ==
    /\ pc[r] = "handler" /\ ctx[r] # None
    /\ Create(r, ctx[r].user, ctx[r].expiresAt)
    /\ Answer(r, "served")
    /\ UNCHANGED <<now, keys, client, ctx, setCsrf, log>>

LogOut(r) ==
    /\ pc[r] = "handler" /\ msg[r].method = "unsafe"
    /\ setSession' = [setSession EXCEPT ![r] = Removal]
    /\ log' = log \cup {[by |-> r, user |-> None, at |-> now]}
    /\ Answer(r, "served")
    /\ UNCHANGED <<now, keys, client, ctx, setCsrf>>

Work(r) ==
    /\ pc[r] = "handler"
    /\ Answer(r, "served")
    /\ UNCHANGED <<now, keys, client, ctx, setCsrf, setSession, log>>

\* The process ends with the requests it was serving, and the next one has
\* another key or two.  (One with the same keys only loses requests.)
Restart ==
    /\ restarts < MaxRestarts
    /\ restarts' = restarts + 1
    /\ csrfKey' \in Key /\ sessionKey' \in Key
    /\ csrfKey' # csrfKey \/ sessionKey' # sessionKey
    /\ pc' = [r \in Req |-> IF pc[r] = "handler" THEN "lost" ELSE pc[r]]
    /\ UNCHANGED <<now, client, server>>

Step(r) ==
    \/ Send(r) \/ Deliver(r)
    \/ TurnAway(r) \/ PassSafe(r) \/ PassUnsafe(r)
    \/ LogIn(r) \/ Save(r) \/ LogOut(r) \/ Work(r)

Next == (\E r \in Req : Step(r)) \/ Tick \/ Restart

Spec == Init /\ [][Next]_vars

-----------------------------------------------------------------------------
(* Properties.                                                             *)

\* Every variable has its type.
TypeOK ==
    /\ now \in Nat
    /\ csrfKey \in Key /\ sessionKey \in Key
    /\ jar \in [csrf : Token \cup {None}, csrfUntil : Nat,
                session : Session \cup {None}, sessionUntil : Nat]
    /\ heard \subseteq [token : Token, at : Nat]
    /\ pc \in [Req -> {"idle", "sent", "handler", "answered", "done", "lost"}]
    /\ msg \in [Req -> Message \cup {None}]
    /\ ctx \in [Req -> Session \cup {None}]
    /\ setCsrf \in [Req -> Token \cup {None}]
    /\ setSession \in [Req -> Session \cup {None, Removal}]
    /\ reply \in [Req -> Reply \cup {None}]
    /\ restarts \in Nat
    /\ log \subseteq [by : Req, user : User \cup {None}, at : Nat]

\* A write is refused for its token only if the token is missing, was signed
\* under another key than today's, or came more than the cookie's age before
\* the write was sent.  Two tabs whose first requests race get two tokens for
\* one cookie: both work (csrf.go validates the signature of the header and
\* asks of the cookie only that there is one).
FreshTokenWorks ==
    [][\A r \in Req : pc[r] = "sent" /\ pc'[r] = "answered" =>
         ~\E h \in heard : /\ reply'[r] = "forbidden"
                           /\ h.token = msg[r].header
                           /\ h.token.key = csrfKey
                           /\ msg[r].at < h.at + CookieMaxAge]_vars

\* A handler is given a user only if that user logged in at most the age of
\* the cookie ago, however often the session was saved since (Session.Create
\* keeps the end it is given) and however late the cookie arrives.
ActsForTheLoggedIn ==
    [][\A r \in Req : ctx'[r] # ctx[r] =>
         \E l \in log : /\ l.user = ctx'[r].user
                        /\ now <= l.at + CookieMaxAge]_vars

\* r has logged in as the user of s.
LoggedIn(r, s) ==
    [by |-> r, user |-> s.user, at |-> s.expiresAt - CookieMaxAge] \in log

LoggedOut(r) == \E l \in log : l.by = r /\ l.user = None

Continues(s, old) ==
    old # None /\ s.user = old.user /\ s.expiresAt = old.expiresAt

\* The browser's session comes and goes for a cause: a reply brings it if its
\* request logged in, or saved the session it carried, user and end unchanged;
\* a reply takes it if its request logged out, or carried a session of no use;
\* and it is dropped at its age.  The cause may be an old one: the reply may
\* have overtaken a login that is not to blame.
SessionsForCause ==
    [][jar'.session # jar.session =>
         \/ jar'.session = None /\ now' # now
         \/ \E r \in Req :
              /\ pc[r] = "answered" /\ pc'[r] = "done"
              /\ IF jar'.session = None
                   THEN LoggedOut(r) \/ Dead(r)
                   ELSE \/ LoggedIn(r, jar'.session)
                        \/ Continues(jar'.session, msg[r].session)]_vars

\* A session that was of no use is sent no more once a reply past the session
\* layer was delivered, a refusal of the CSRF layer and a panic included.
DeadSessionDropped ==
    \A r \in Req : msg[r] # None => msg[r].session \notin msg[r].told

-----------------------------------------------------------------------------
(* The inductive invariant behind them.                                    *)

\* A login stands behind s, with the end that login gave it.
Founded(s) ==
    \E l \in log : l.user = s.user /\ s.expiresAt = l.at + CookieMaxAge

\* A token heard of lately left its cookie, or a later one, in the jar; what
\* the jar holds came with a delivered reply.
JarInv ==
    /\ \A h \in heard :
         /\ h.at <= now
         /\ pc[h.token.by] = "done"
         /\ now < h.at + CookieMaxAge =>
              jar.csrf # None /\ h.at + CookieMaxAge <= jar.csrfUntil
    /\ jar.session # None => Founded(jar.session) /\ pc[jar.session.by] = "done"

\* What a request has, by how far it is.
Path(r) ==
    /\ pc[r] = "idle" <=> msg[r] = None
    /\ pc[r] \in {"idle", "sent"} =>
         ctx[r] = None /\ setCsrf[r] = None /\ setSession[r] = None
    /\ pc[r] \in {"idle", "sent", "handler"} => reply[r] = None
    /\ setCsrf[r] # None => setCsrf[r].by = r

\* What a request carries is what the jar held.
Carried(r) ==
    msg[r] # None =>
      /\ msg[r].header # None => \E h \in heard : h.token = msg[r].header
      /\ \A h \in heard :
           h.token = msg[r].header /\ msg[r].at < h.at + CookieMaxAge =>
             msg[r].csrf # None
      /\ msg[r].session # None =>
           Founded(msg[r].session) /\ pc[msg[r].session.by] = "done"
      /\ msg[r].session \notin msg[r].told

\* A session that r's reply sets.
Caused(r, s) ==
    /\ s.by = r
    /\ Founded(s)
    /\ LoggedIn(r, s) \/ Continues(s, msg[r].session)

\* What the session layer and the handler made of the session.
Fetched(r) ==
    /\ ctx[r] # None => ctx[r] = msg[r].session
    /\ pc[r] = "handler" =>
         setSession[r] = IF msg[r].session # None /\ ctx[r] = None
                           THEN Removal ELSE None
    /\ pc[r] = "answered" =>
         /\ setSession[r] = None => ~Dead(r)
         /\ setSession[r] = Removal => LoggedOut(r) \/ Dead(r)
         /\ setSession[r] \in Session => Caused(r, setSession[r])

\* A useless session has left the jar when the reply that says so is there.
Dropped(r) == pc[r] = "done" /\ Dead(r) => jar.session # msg[r].session

RequestInv == \A r \in Req : Path(r) /\ Carried(r) /\ Fetched(r) /\ Dropped(r)

\* A useless session never comes back: the inductive form of DeadSessionDropped.
SafetyInv == TypeOK /\ JarInv /\ RequestInv

=============================================================================
