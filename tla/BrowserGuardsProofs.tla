------------------------ MODULE BrowserGuardsProofs ------------------------
(***************************************************************************)
(* Proofs about BrowserGuards, for every set of requests, users and keys,  *)
(* every age of a cookie and every bound.                                  *)
(***************************************************************************)
EXTENDS BrowserGuards, TLAPS

-----------------------------------------------------------------------------
(* What the steps have in common.                                          *)

\* None and Removal are no token, session, message or user.
LEMMA NoValues ==
    /\ None \notin Token /\ None \notin Session /\ None \notin Message
    /\ None \notin Reply /\ None \notin User
    /\ Removal \notin Session /\ Removal # None
    /\ None \notin Nat
  BY GuardsAssumption

\* A login stays behind a session.
LEMMA FoundedStays ==
    ASSUME NEW s, Founded(s), log \subseteq log'
    PROVE  (\E l \in log' : l.user = s.user /\ s.expiresAt = l.at + CookieMaxAge)
  BY DEF Founded

\* Past the browser, a step changes one request at the server.
Serves(r) ==
    /\ UNCHANGED <<now, keys, client>>
    /\ log \subseteq log'
    /\ pc[r] \in {"sent", "handler"}
    /\ \A q \in Req \ {r} :
         /\ pc'[q] = pc[q] /\ ctx'[q] = ctx[q] /\ setCsrf'[q] = setCsrf[q]
         /\ setSession'[q] = setSession[q] /\ reply'[q] = reply[q]
    /\ pc'[r] \in {"handler", "answered", "done"}

\* Such a step leaves the jar and what the requests carry alone.
LEMMA ClientKept ==
    ASSUME SafetyInv, NEW r \in Req, Serves(r)
    PROVE  JarInv' /\ \A q \in Req : Carried(q)'
<1> USE NoValues DEF SafetyInv, Serves, keys, client
<1>1. \A q \in Req : pc[q] = "done" => pc'[q] = "done"
  OBVIOUS
<1>2. ASSUME NEW s, Founded(s)
      PROVE  \E l \in log' : l.user = s.user /\ s.expiresAt = l.at + CookieMaxAge
  BY <1>2, FoundedStays
<1>3. JarInv'
  <2>1. ASSUME NEW h \in heard'
        PROVE  /\ h.at <= now'
               /\ pc'[h.token.by] = "done"
               /\ now' < h.at + CookieMaxAge =>
                    jar'.csrf # None /\ h.at + CookieMaxAge <= jar'.csrfUntil
    BY <1>1, <2>1 DEF JarInv, TypeOK, Token
  <2>2. ASSUME jar'.session # None
        PROVE  pc'[jar'.session.by] = "done" /\
               \E l \in log' : /\ l.user = jar'.session.user
                               /\ jar'.session.expiresAt = l.at + CookieMaxAge
    <3>1. jar.session # None /\ jar'.session = jar.session
      BY <2>2
    <3>2. Founded(jar.session) /\ pc[jar.session.by] = "done" /\ jar.session.by \in Req
      BY <3>1 DEF JarInv, TypeOK, Session
    <3> QED  BY <1>1, <1>2, <3>1, <3>2
  <2> QED  BY <2>1, <2>2 DEF JarInv, Founded
<1>4. ASSUME NEW q \in Req PROVE Carried(q)'
  <2>1. ASSUME msg'[q] # None
        PROVE  /\ msg'[q].header # None => \E h \in heard' : h.token = msg'[q].header
               /\ \A h \in heard' :
                    h.token = msg'[q].header /\ msg'[q].at < h.at + CookieMaxAge =>
                      msg'[q].csrf # None
               /\ msg'[q].session \notin msg'[q].told
    BY <2>1 DEF RequestInv, Carried
  <2>2. ASSUME msg'[q] # None, msg'[q].session # None
        PROVE  pc'[msg'[q].session.by] = "done" /\
               \E l \in log' : /\ l.user = msg'[q].session.user
                               /\ msg'[q].session.expiresAt = l.at + CookieMaxAge
    <3>1. msg' = msg /\ msg[q] \in Message /\ msg[q].session \in Session
      BY <2>2 DEF TypeOK, Message
    <3>2. Founded(msg[q].session) /\ pc[msg[q].session.by] = "done"
      BY <2>2, <3>1 DEF RequestInv, Carried
    <3>3. msg[q].session.by \in Req
      BY <3>1 DEF Session
    <3> QED  BY <1>1, <1>2, <3>1, <3>2, <3>3
  <2> QED  BY <2>1, <2>2 DEF Carried, Founded
<1> QED  BY <1>3, <1>4

\* The other requests stay as they are.
LEMMA OthersKept ==
    ASSUME SafetyInv, NEW r \in Req, Serves(r), NEW q \in Req \ {r}
    PROVE  Path(q)' /\ Fetched(q)' /\ Dropped(q)'
<1> USE NoValues DEF SafetyInv, Serves, keys, client
<1>1. Path(q) /\ Fetched(q) /\ Dropped(q)
  BY DEF RequestInv
<1>2. /\ pc'[q] = pc[q] /\ ctx'[q] = ctx[q] /\ setCsrf'[q] = setCsrf[q]
      /\ setSession'[q] = setSession[q] /\ reply'[q] = reply[q]
      /\ msg' = msg /\ jar' = jar
  OBVIOUS
<1>3. Path(q)'
  BY <1>1, <1>2 DEF Path
<1>4. Dropped(q)'
  BY <1>1, <1>2 DEF Dropped, Dead
<1>5. Fetched(q)'
  <2>1. /\ Dead(q)' <=> Dead(q)
        /\ LoggedOut(q) => LoggedOut(q)'
    BY <1>2 DEF Dead, LoggedOut
  <2>2. ASSUME setSession'[q] \in Session, pc'[q] = "answered"
        PROVE  /\ setSession'[q].by = q
               /\ (\E l \in log' : /\ l.user = setSession'[q].user
                                   /\ setSession'[q].expiresAt = l.at + CookieMaxAge)
               /\ \/ [by |-> q, user |-> setSession'[q].user,
                      at |-> setSession'[q].expiresAt - CookieMaxAge] \in log'
                  \/ Continues(setSession[q], msg[q].session)
    <3>1. Caused(q, setSession[q])
      BY <1>1, <1>2, <2>2 DEF Fetched
    <3> QED  BY <1>2, <3>1, FoundedStays DEF Caused, LoggedIn
  <2> QED  BY <1>1, <1>2, <2>1, <2>2 DEF Fetched, Caused, Founded, LoggedIn, Continues
<1> QED  BY <1>3, <1>4, <1>5

\* What is left to show of a step of the server.
LEMMA ServesSafely ==
    ASSUME SafetyInv, NEW r \in Req, Serves(r), TypeOK',
           Path(r)', Fetched(r)', Dropped(r)'
    PROVE  SafetyInv'
<1>1. JarInv' /\ \A q \in Req : Carried(q)'
  BY ClientKept
<1>2. \A q \in Req \ {r} : Path(q)' /\ Fetched(q)' /\ Dropped(q)'
  BY OthersKept
<1> QED  BY <1>1, <1>2 DEF SafetyInv, RequestInv

-----------------------------------------------------------------------------
(* The guards.                                                             *)

\* A request that left the browser carries something.
LEMMA Carries ==
    ASSUME SafetyInv, NEW r \in Req, pc[r] # "idle"
    PROVE  /\ msg[r] \in Message /\ msg[r] # None
           /\ msg[r].session \in Session \cup {None}
           /\ msg[r].csrf \in Token \cup {None}
           /\ msg[r].header \in Token \cup {None}
  BY NoValues DEF SafetyInv, TypeOK, RequestInv, Path, Message

LEMMA TurnAwaySafe ==
    ASSUME SafetyInv, NEW r \in Req, TurnAway(r)
    PROVE  SafetyInv'
<1>1. Serves(r)
  BY DEF SafetyInv, TypeOK, TurnAway, Serves, keys, client
<1>2. TypeOK'
  BY DEF SafetyInv, TypeOK, TurnAway, Reply, keys, client
<1>3. Path(r)'
  BY Carries DEF SafetyInv, TypeOK, TurnAway, keys, client, RequestInv, Path
<1>4. Fetched(r)' /\ Dropped(r)'
  BY DEF SafetyInv, TypeOK, TurnAway, keys, client, RequestInv, Path, Fetched,
         Dropped, Dead
<1> QED  BY <1>1, <1>2, <1>3, <1>4, ServesSafely

\* What ReadSession leaves at r and elsewhere.
LEMMA SessionRead ==
    ASSUME SafetyInv, NEW r \in Req, pc[r] = "sent", ReadSession(r)
    PROVE  /\ ctx' \in [Req -> Session \cup {None}]
           /\ setSession' \in [Req -> Session \cup {None, Removal}]
           /\ ctx'[r] # None => ctx'[r] = msg[r].session
           /\ setSession'[r] = IF msg[r].session # None /\ ctx'[r] = None
                                 THEN Removal ELSE None
           /\ \A q \in Req \ {r} :
                ctx'[q] = ctx[q] /\ setSession'[q] = setSession[q]
<1>1. msg[r].session \in Session \cup {None}
  BY Carries
<1>2. /\ ctx'[r] = IF msg[r].session # None /\ Valid(msg[r].session)
                     THEN msg[r].session ELSE None
      /\ setSession'[r] = IF Clears(msg[r].session) THEN Removal ELSE None
  BY DEF SafetyInv, TypeOK, ReadSession
<1>3. \A q \in Req \ {r} : ctx'[q] = ctx[q] /\ setSession'[q] = setSession[q]
  BY DEF SafetyInv, TypeOK, ReadSession
<1>4. /\ ctx' \in [Req -> Session \cup {None}]
      /\ setSession' \in [Req -> Session \cup {None, Removal}]
  BY <1>1 DEF SafetyInv, TypeOK, ReadSession
<1> QED  BY <1>1, <1>2, <1>3, <1>4 DEF Clears

LEMMA PassSafeSafe ==
    ASSUME SafetyInv, NEW r \in Req, PassSafe(r)
    PROVE  SafetyInv'
<1> USE DEF PassSafe, keys, client
<1>1. Serves(r)
  BY SessionRead DEF SafetyInv, TypeOK, Serves
<1>2. TypeOK'
  <2>1. setCsrf' \in [Req -> Token \cup {None}]
    BY Carries DEF SafetyInv, TypeOK, Issued, Token
  <2> QED  BY <2>1, SessionRead DEF SafetyInv, TypeOK
<1>3. Path(r)'
  <2>1. setCsrf'[r] # None => setCsrf'[r].by = r
    BY DEF SafetyInv, TypeOK, Issued
  <2>2. pc'[r] = "handler" /\ reply'[r] = None /\ msg'[r] # None
    BY Carries DEF SafetyInv, TypeOK, RequestInv, Path
  <2> QED  BY <2>1, <2>2 DEF Path
<1>4. Fetched(r)' /\ Dropped(r)'
  <2>1. pc'[r] = "handler" /\ msg' = msg
    BY DEF SafetyInv, TypeOK
  <2> QED  BY <2>1, SessionRead DEF Fetched, Dropped
<1> QED  BY <1>1, <1>2, <1>3, <1>4, ServesSafely

LEMMA PassUnsafeSafe ==
    ASSUME SafetyInv, NEW r \in Req, PassUnsafe(r)
    PROVE  SafetyInv'
<1> USE DEF PassUnsafe, Answer, keys, client
<1>1. Serves(r)
  BY SessionRead DEF SafetyInv, TypeOK, Serves
<1>2. TypeOK'
  BY SessionRead DEF SafetyInv, TypeOK, Reply
<1>3. Path(r)'
  BY Carries, SessionRead, NoValues DEF SafetyInv, TypeOK, RequestInv, Path
<1>4. Dropped(r)'
  BY DEF SafetyInv, TypeOK, Dropped
<1>5. Fetched(r)'
  <2>1. /\ pc'[r] \in {"handler", "answered"} /\ msg' = msg
        /\ pc'[r] = "answered" => reply'[r] = "forbidden"
    BY DEF SafetyInv, TypeOK
  <2>2. setSession'[r] \notin Session
    BY SessionRead, NoValues
  <2> QED  BY <2>1, <2>2, SessionRead, NoValues DEF Fetched, Dead
<1> QED  BY <1>1, <1>2, <1>3, <1>4, <1>5, ServesSafely

-----------------------------------------------------------------------------
(* The handler.                                                            *)

\* A handler that has answered; what is left to show is its session.
LEMMA ServedSafely ==
    ASSUME SafetyInv, NEW r \in Req, pc[r] = "handler", Answer(r, "served"),
           UNCHANGED <<now, keys, client, ctx, setCsrf>>, log \subseteq log',
           log' \subseteq [by : Req, user : User \cup {None}, at : Nat],
           setSession' \in [Req -> Session \cup {None, Removal}],
           \A q \in Req \ {r} : setSession'[q] = setSession[q],
           Fetched(r)'
    PROVE  SafetyInv'
<1> USE DEF Answer, keys, client
<1>1. Serves(r)
  BY DEF SafetyInv, TypeOK, Serves
<1>2. TypeOK'
  BY DEF SafetyInv, TypeOK, Reply
<1>3. Path(r)' /\ Dropped(r)'
  BY Carries, NoValues DEF SafetyInv, TypeOK, RequestInv, Path, Dropped
<1> QED  BY <1>1, <1>2, <1>3, ServesSafely

LEMMA WorkSafe ==
    ASSUME SafetyInv, NEW r \in Req, Work(r)
    PROVE  SafetyInv'
<1> USE DEF Work, Answer, keys, client
<1>1. Fetched(r)
  BY DEF SafetyInv, RequestInv
<1>2. /\ pc'[r] = "answered" /\ reply'[r] = "served"
      /\ msg' = msg /\ ctx' = ctx /\ setSession' = setSession
  BY DEF SafetyInv, TypeOK
<1>3. Fetched(r)'
  BY <1>1, <1>2, NoValues DEF Fetched, Dead
<1> QED  BY <1>3, ServedSafely DEF SafetyInv, TypeOK

LEMMA LogOutSafe ==
    ASSUME SafetyInv, NEW r \in Req, LogOut(r)
    PROVE  SafetyInv'
<1> USE DEF LogOut, keys, client
<1>1. Fetched(r)
  BY DEF SafetyInv, RequestInv
<1>2. /\ setSession' \in [Req -> Session \cup {None, Removal}]
      /\ \A q \in Req \ {r} : setSession'[q] = setSession[q]
      /\ setSession'[r] = Removal
      /\ log \subseteq log'
      /\ log' \subseteq [by : Req, user : User \cup {None}, at : Nat]
  BY DEF SafetyInv, TypeOK
<1>3. LoggedOut(r)'
  <2>1. [by |-> r, user |-> None, at |-> now] \in log'
    OBVIOUS
  <2> QED  BY <2>1 DEF LoggedOut
<1>4. pc'[r] = "answered" /\ msg' = msg /\ ctx' = ctx
  BY DEF SafetyInv, TypeOK, Answer
<1>5. Fetched(r)'
  BY <1>1, <1>2, <1>3, <1>4, NoValues DEF Fetched
<1> QED  BY <1>2, <1>5, ServedSafely

\* The session Create puts into the reply.
LEMMA Created ==
    ASSUME SafetyInv, NEW r \in Req, NEW u \in User, NEW end \in Nat \cup {None},
           Create(r, u, end)
    PROVE  /\ setSession' \in [Req -> Session \cup {None, Removal}]
           /\ \A q \in Req \ {r} : setSession'[q] = setSession[q]
           /\ setSession'[r] \in Session
           /\ setSession'[r].by = r /\ setSession'[r].user = u
           /\ setSession'[r].expiresAt =
                IF end = None THEN now + CookieMaxAge ELSE end
<1>1. [user |-> u, key |-> sessionKey, by |-> r,
       expiresAt |-> IF end = None THEN now + CookieMaxAge ELSE end] \in Session
  BY GuardsAssumption DEF SafetyInv, TypeOK, Session
<1> QED  BY <1>1 DEF SafetyInv, TypeOK, Create

LEMMA LogInSafe ==
    ASSUME SafetyInv, NEW r \in Req, LogIn(r)
    PROVE  SafetyInv'
<1> USE DEF keys, client
<1>1. PICK u \in User :
         Create(r, u, None) /\ log' = log \cup {[by |-> r, user |-> u, at |-> now]}
  BY DEF LogIn
<1>2. /\ setSession' \in [Req -> Session \cup {None, Removal}]
      /\ \A q \in Req \ {r} : setSession'[q] = setSession[q]
      /\ setSession'[r] \in Session
      /\ setSession'[r].by = r /\ setSession'[r].user = u
      /\ setSession'[r].expiresAt = now + CookieMaxAge
  BY <1>1, Created
<1>3. log \subseteq log' /\ log' \subseteq [by : Req, user : User \cup {None}, at : Nat]
  BY <1>1 DEF SafetyInv, TypeOK
<1>4. /\ \E l \in log' : /\ l.user = setSession'[r].user
                         /\ setSession'[r].expiresAt = l.at + CookieMaxAge
      /\ [by |-> r, user |-> setSession'[r].user,
          at |-> setSession'[r].expiresAt - CookieMaxAge] \in log'
  <2>1. \A e \in Nat : e = now + CookieMaxAge => e - CookieMaxAge = now
    BY GuardsAssumption DEF SafetyInv, TypeOK
  <2> DEFINE entry == [by |-> r, user |-> u, at |-> now]
  <2>2. entry \in log'
    BY <1>1
  <2>3. entry.user = setSession'[r].user /\ setSession'[r].expiresAt = entry.at + CookieMaxAge
    BY <1>2
  <2>4. setSession'[r].expiresAt - CookieMaxAge = now
    <3>1. setSession'[r].expiresAt \in Nat
      BY <1>2 DEF Session
    <3> QED  BY <1>2, <2>1, <3>1
  <2>5. [by |-> r, user |-> setSession'[r].user,
         at |-> setSession'[r].expiresAt - CookieMaxAge] = entry
    BY <1>2, <2>4
  <2> HIDE DEF entry
  <2> QED  BY <2>2, <2>3, <2>5
<1>5. pc'[r] = "answered" /\ msg' = msg /\ ctx' = ctx
  BY DEF SafetyInv, TypeOK, LogIn, Answer
<1>6. ctx[r] # None => ctx[r] = msg[r].session
  BY DEF SafetyInv, RequestInv, Fetched
<1>7. Fetched(r)'
  BY <1>2, <1>4, <1>5, <1>6, NoValues DEF Fetched, Caused, Founded, LoggedIn
<1> QED  BY <1>2, <1>3, <1>7, ServedSafely DEF LogIn

LEMMA SaveSafe ==
    ASSUME SafetyInv, NEW r \in Req, Save(r)
    PROVE  SafetyInv'
<1> USE DEF keys, client
<1>1. /\ msg[r].session # None /\ ctx[r] = msg[r].session /\ ctx[r] \in Session
      /\ Founded(ctx[r])
  BY Carries, NoValues DEF SafetyInv, TypeOK, RequestInv, Carried, Fetched, Save
<1>2. ctx[r].user \in User /\ ctx[r].expiresAt \in Nat
  BY <1>1 DEF Session
<1>3. /\ setSession' \in [Req -> Session \cup {None, Removal}]
      /\ \A q \in Req \ {r} : setSession'[q] = setSession[q]
      /\ setSession'[r] \in Session
      /\ setSession'[r].by = r /\ setSession'[r].user = ctx[r].user
      /\ setSession'[r].expiresAt = ctx[r].expiresAt
  <2>1. Create(r, ctx[r].user, ctx[r].expiresAt)
    BY DEF Save
  <2> QED  BY <1>2, <2>1, Created, NoValues
<1>4. /\ \E l \in log' : /\ l.user = setSession'[r].user
                         /\ setSession'[r].expiresAt = l.at + CookieMaxAge
      /\ Continues(setSession[r], msg[r].session)'
  BY <1>1, <1>3 DEF Founded, Continues, Save
<1>5. pc'[r] = "answered" /\ msg' = msg /\ ctx' = ctx
  BY DEF SafetyInv, TypeOK, Save, Answer
<1>6. Fetched(r)'
  BY <1>1, <1>3, <1>4, <1>5, NoValues DEF Fetched, Caused, Founded, Continues
<1> QED  BY <1>3, <1>6, ServedSafely DEF Save, SafetyInv, TypeOK

-----------------------------------------------------------------------------
(* The browser, the clock and the restart.                                 *)

\* A request whose own values stay, while no other falls back from "done",
\* keeps what it has.
LEMMA RequestKept ==
    ASSUME SafetyInv, NEW q \in Req, pc'[q] = pc[q], msg'[q] = msg[q],
           UNCHANGED <<ctx, setCsrf, setSession, reply, log>>
    PROVE  Path(q)' /\ Fetched(q)'
<1>1. Path(q) /\ Fetched(q)
  BY DEF SafetyInv, RequestInv
<1>2. Path(q)'
  BY <1>1 DEF Path
<1>3. Fetched(q)'
  BY <1>1 DEF Fetched, Dead, LoggedOut, Caused, Founded, LoggedIn, Continues
<1> QED  BY <1>2, <1>3

LEMMA CarriedKept ==
    ASSUME SafetyInv, NEW q \in Req, msg'[q] = msg[q], heard' = heard, log' = log,
           \A p \in Req : pc[p] = "done" => pc'[p] = "done"
    PROVE  Carried(q)'
<1>1. Carried(q)
  BY DEF SafetyInv, RequestInv
<1>2. msg[q] # None /\ msg[q].session # None => msg[q].session.by \in Req
  BY DEF SafetyInv, TypeOK, Message, Session
<1> QED  BY <1>1, <1>2 DEF Carried, Founded

LEMMA SendSafe ==
    ASSUME SafetyInv, NEW r \in Req, Send(r)
    PROVE  SafetyInv'
<1> USE DEF keys, server
<1>1. PICK method \in Methods, header \in {h.token : h \in heard} \cup {None},
           form \in BOOLEAN :
        msg' = [msg EXCEPT ![r] =
          [method |-> method, header |-> header, form |-> form,
           csrf |-> jar.csrf, session |-> jar.session, at |-> now,
           told |-> {msg[q].session : q \in {p \in Req : pc[p] = "done" /\ Dead(p)}}]]
  BY DEF Send
<1>2. \A q \in Req : pc[q] = "done" /\ Dead(q) => msg[q].session \in Session
  BY Carries DEF Dead
<1> DEFINE told == {msg[q].session : q \in {p \in Req : pc[p] = "done" /\ Dead(p)}}
           m == [method |-> method, header |-> header, form |-> form,
                 csrf |-> jar.csrf, session |-> jar.session, at |-> now,
                 told |-> told]
<1>3. m \in Message /\ m # None
  <2>1. header \in Token \cup {None}
    BY DEF SafetyInv, TypeOK
  <2>2. told \subseteq Session
    BY <1>2
  <2>3. m \in Message
    BY <2>1, <2>2 DEF SafetyInv, TypeOK, Message
  <2> QED  BY <2>3, NoValues
<1>4. jar.session \notin told
  BY DEF SafetyInv, RequestInv, Dropped
<1> HIDE DEF told
<1>5. /\ msg'[r] = m /\ \A q \in Req \ {r} : msg'[q] = msg[q]
      /\ msg' \in [Req -> Message \cup {None}]
      /\ pc'[r] = "sent" /\ pc[r] = "idle" /\ \A q \in Req \ {r} : pc'[q] = pc[q]
      /\ \A p \in Req : pc[p] = "done" => pc'[p] = "done"
  BY <1>1, <1>3 DEF SafetyInv, TypeOK, Send, told
<1>6. TypeOK'
  BY <1>5 DEF SafetyInv, TypeOK, Send
<1>7. JarInv'
  <2>1. \A h \in heard : h.token.by \in Req
    BY DEF SafetyInv, TypeOK, Token
  <2>2. jar.session # None => jar.session.by \in Req
    BY DEF SafetyInv, TypeOK, Session
  <2> QED  BY <1>5, <2>1, <2>2 DEF SafetyInv, JarInv, Founded, Send
<1>8. ASSUME NEW q \in Req \ {r}
      PROVE  Path(q)' /\ Carried(q)' /\ Fetched(q)' /\ Dropped(q)'
  <2>1. Path(q)' /\ Fetched(q)'
    BY <1>5, RequestKept DEF Send
  <2>2. Carried(q)'
    BY <1>5, CarriedKept DEF Send
  <2>3. Dropped(q)'
    BY <1>5 DEF SafetyInv, RequestInv, Dropped, Dead, Send
  <2> QED  BY <2>1, <2>2, <2>3
<1>9. Path(r)' /\ Fetched(r)' /\ Dropped(r)'
  <2>1. Path(r) /\ Fetched(r)
    BY DEF SafetyInv, RequestInv
  <2> QED  BY <1>3, <1>5, <2>1 DEF Path, Fetched, Dropped, Send
<1>10. Carried(r)'
  <2>1. m.header # None => \E h \in heard : h.token = m.header
    OBVIOUS
  <2>2. \A h \in heard : now < h.at + CookieMaxAge => jar.csrf # None
    BY DEF SafetyInv, JarInv
  <2>3. jar.session # None =>
          Founded(jar.session) /\ pc[jar.session.by] = "done" /\ jar.session.by \in Req
    BY DEF SafetyInv, TypeOK, JarInv, Session
  <2> QED  BY <1>4, <1>5, <2>1, <2>2, <2>3 DEF Carried, Founded, Send
<1> QED  BY <1>6, <1>7, <1>8, <1>9, <1>10 DEF SafetyInv, RequestInv

LEMMA TickSafe ==
    ASSUME SafetyInv, Tick
    PROVE  SafetyInv'
<1> USE DEF Tick, keys, server
<1>1. /\ jar' = Aged(now + 1) /\ now + 1 \in Nat /\ now \in Nat
      /\ jar'.session = jar.session \/ jar'.session = None
      /\ jar' \in [csrf : Token \cup {None}, csrfUntil : Nat,
                   session : Session \cup {None}, sessionUntil : Nat]
  BY DEF SafetyInv, TypeOK, Aged
<1>2. TypeOK'
  BY <1>1 DEF SafetyInv, TypeOK
<1>3. JarInv'
  <2>1. ASSUME NEW h \in heard
        PROVE  /\ h.at <= now + 1
               /\ pc[h.token.by] = "done"
               /\ now + 1 < h.at + CookieMaxAge =>
                    jar'.csrf # None /\ h.at + CookieMaxAge <= jar'.csrfUntil
    <3>1. h.at \in Nat /\ jar.csrfUntil \in Nat /\ CookieMaxAge \in Nat
      BY GuardsAssumption DEF SafetyInv, TypeOK
    <3>2. /\ h.at <= now /\ pc[h.token.by] = "done"
          /\ now < h.at + CookieMaxAge =>
               jar.csrf # None /\ h.at + CookieMaxAge <= jar.csrfUntil
      BY DEF SafetyInv, JarInv
    <3>3. now + 1 < jar.csrfUntil =>
            jar'.csrf = jar.csrf /\ jar'.csrfUntil = jar.csrfUntil
      BY <1>1 DEF Aged
    <3> QED  BY <1>1, <3>1, <3>2, <3>3
  <2> QED  BY <1>1, <2>1 DEF SafetyInv, JarInv, Founded
<1>4. ASSUME NEW q \in Req
      PROVE  Path(q)' /\ Carried(q)' /\ Fetched(q)' /\ Dropped(q)'
  <2>1. Path(q)' /\ Fetched(q)'
    BY RequestKept
  <2>2. Carried(q)'
    BY CarriedKept
  <2>3. Dropped(q)'
    BY <1>1 DEF SafetyInv, RequestInv, Dropped, Dead
  <2> QED  BY <2>1, <2>2, <2>3
<1> QED  BY <1>2, <1>3, <1>4 DEF SafetyInv, RequestInv

LEMMA RestartSafe ==
    ASSUME SafetyInv, Restart
    PROVE  SafetyInv'
<1> USE DEF Restart, client, server
<1>1. /\ \A q \in Req : pc'[q] = IF pc[q] = "handler" THEN "lost" ELSE pc[q]
      /\ \A q \in Req : pc[q] = "done" => pc'[q] = "done"
  OBVIOUS
<1>2. TypeOK'
  BY DEF SafetyInv, TypeOK
<1>3. JarInv'
  <2>1. \A h \in heard : h.token.by \in Req
    BY DEF SafetyInv, TypeOK, Token
  <2>2. jar.session # None => jar.session.by \in Req
    BY DEF SafetyInv, TypeOK, Session
  <2> QED  BY <1>1, <2>1, <2>2 DEF SafetyInv, JarInv, Founded
<1>4. ASSUME NEW q \in Req
      PROVE  Path(q)' /\ Carried(q)' /\ Fetched(q)' /\ Dropped(q)'
  <2>1. Carried(q)'
    BY <1>1, CarriedKept
  <2>2. Path(q) /\ Fetched(q) /\ Dropped(q)
    BY DEF SafetyInv, RequestInv
  <2>3. Dropped(q)'
    BY <1>1, <2>2 DEF Dropped, Dead
  <2>4. CASE pc[q] = "handler"
    <3>1. pc'[q] = "lost"
      BY <1>1, <2>4
    <3> QED  BY <2>1, <2>2, <2>3, <2>4, <3>1 DEF Path, Fetched
  <2>5. CASE pc[q] # "handler"
    <3>1. pc'[q] = pc[q]
      BY <1>1, <2>5
    <3> QED  BY <2>1, <2>3, <3>1, RequestKept
  <2> QED  BY <2>4, <2>5
<1> QED  BY <1>2, <1>3, <1>4 DEF SafetyInv, RequestInv

\* What a delivery does to the jar.
LEMMA Stored ==
    ASSUME SafetyInv, NEW r \in Req, Deliver(r)
    PROVE  /\ jar' \in [csrf : Token \cup {None}, csrfUntil : Nat,
                        session : Session \cup {None}, sessionUntil : Nat]
           /\ setCsrf[r] = None => jar'.csrf = jar.csrf /\ jar'.csrfUntil = jar.csrfUntil
           /\ setCsrf[r] # None =>
                jar'.csrf = setCsrf[r] /\ jar'.csrfUntil = now + CookieMaxAge
           /\ jar'.session = IF setSession[r] = None THEN jar.session
                             ELSE IF setSession[r] = Removal THEN None
                             ELSE setSession[r]
<1>1. /\ setCsrf[r] \in Token \cup {None}
      /\ setSession[r] \in Session \cup {None, Removal}
      /\ now + CookieMaxAge \in Nat
  BY GuardsAssumption DEF SafetyInv, TypeOK
<1> DEFINE j == StoreSession(jar, setSession[r])
<1>2. /\ j \in [csrf : Token \cup {None}, csrfUntil : Nat,
                session : Session \cup {None}, sessionUntil : Nat]
      /\ j.csrf = jar.csrf /\ j.csrfUntil = jar.csrfUntil
      /\ j.session = IF setSession[r] = None THEN jar.session
                     ELSE IF setSession[r] = Removal THEN None
                     ELSE setSession[r]
  BY <1>1, NoValues DEF SafetyInv, TypeOK, StoreSession
<1>3. jar' = StoreToken(j, setCsrf[r])
  BY DEF Deliver
<1> HIDE DEF j
<1> QED  BY <1>1, <1>2, <1>3 DEF StoreToken

LEMMA DeliverSafe ==
    ASSUME SafetyInv, NEW r \in Req, Deliver(r)
    PROVE  SafetyInv'
<1> USE DEF keys, server
<1>1. /\ pc[r] = "answered" /\ pc'[r] = "done"
      /\ \A q \in Req \ {r} : pc'[q] = pc[q]
      /\ \A p \in Req : pc[p] = "done" => pc'[p] = "done"
      /\ msg' = msg
  BY DEF SafetyInv, TypeOK, Deliver
<1>2. Path(r) /\ Fetched(r)
  BY DEF SafetyInv, RequestInv
<1>3. \A h \in heard' : h \in heard \/ (h.token = setCsrf[r] /\ h.at = now /\ setCsrf[r] # None)
  BY DEF Deliver
<1>4. TypeOK'
  <2>1. heard' \subseteq [token : Token, at : Nat]
    BY DEF Deliver, SafetyInv, TypeOK
  <2>2. pc' \in [Req -> {"idle", "sent", "handler", "answered", "done", "lost"}]
    BY DEF Deliver, SafetyInv, TypeOK
  <2>3. UNCHANGED <<now, csrfKey, sessionKey, msg, ctx, setCsrf, setSession,
                    reply, restarts, log>>
    BY DEF Deliver
  <2> QED  BY <2>1, <2>2, <2>3, Stored DEF SafetyInv, TypeOK
<1>5. JarInv'
  <2>1. ASSUME NEW h \in heard'
        PROVE  /\ h.at <= now
               /\ pc'[h.token.by] = "done"
               /\ now < h.at + CookieMaxAge =>
                    jar'.csrf # None /\ h.at + CookieMaxAge <= jar'.csrfUntil
    <3>1. /\ now \in Nat /\ CookieMaxAge \in Nat
          /\ jar.csrfUntil \in Nat /\ heard \subseteq [token : Token, at : Nat]
      BY GuardsAssumption DEF SafetyInv, TypeOK
    <3>2. CASE h \in heard
      <4>1. /\ h.at <= now /\ pc[h.token.by] = "done" /\ h.token.by \in Req
            /\ now < h.at + CookieMaxAge =>
                 jar.csrf # None /\ h.at + CookieMaxAge <= jar.csrfUntil
        BY <3>1, <3>2 DEF SafetyInv, JarInv, Token
      <4>2. h.at \in Nat /\ h.at + CookieMaxAge <= now + CookieMaxAge
        BY <3>1, <3>2, <4>1
      <4> QED  BY <1>1, <4>1, <4>2, Stored
    <3>3. CASE h.token = setCsrf[r] /\ h.at = now /\ setCsrf[r] # None
      BY <1>1, <1>2, <3>1, <3>3, Stored DEF Path
    <3> QED  BY <1>3, <3>2, <3>3
  <2>2. ASSUME jar'.session # None
        PROVE  Founded(jar'.session) /\ pc'[jar'.session.by] = "done"
    <3>1. CASE setSession[r] = None
      <4>1. jar'.session = jar.session
        BY <3>1, Stored
      <4>2. jar.session.by \in Req /\ Founded(jar.session) /\ pc[jar.session.by] = "done"
        BY <2>2, <4>1 DEF SafetyInv, TypeOK, JarInv, Session
      <4> QED  BY <1>1, <4>1, <4>2
    <3>2. CASE setSession[r] \in Session
      <4>1. jar'.session = setSession[r]
        BY <3>2, Stored, NoValues
      <4> QED  BY <1>1, <1>2, <3>2, <4>1 DEF Fetched, Caused
    <3>3. setSession[r] # Removal
      BY <2>2, Stored, NoValues
    <3> QED  BY <3>1, <3>2, <3>3 DEF SafetyInv, TypeOK
  <2>3. now' = now /\ log' = log
    BY DEF Deliver
  <2> QED  BY <2>1, <2>2, <2>3 DEF JarInv, Founded
<1>6. ASSUME NEW q \in Req PROVE Carried(q)'
  <2>1. Carried(q)
    BY DEF SafetyInv, RequestInv
  <2>2. ASSUME msg[q] # None, NEW h \in heard', h.token = msg[q].header,
               msg[q].at < h.at + CookieMaxAge
        PROVE  msg[q].csrf # None
    <3>1. h.token # None /\ h.token \in Token
      BY <1>4, NoValues DEF TypeOK
    <3>2. PICK g \in heard : g.token = msg[q].header
      BY <2>1, <2>2, <3>1 DEF Carried
    <3>3. pc[h.token.by] = "done"
      BY <2>2, <3>2 DEF SafetyInv, JarInv
    <3>4. h \in heard
      BY <1>1, <1>2, <1>3, <3>3 DEF Path
    <3> QED  BY <2>1, <2>2, <3>4 DEF Carried
  <2>3. msg[q] # None /\ msg[q].session # None => msg[q].session.by \in Req
    BY DEF SafetyInv, TypeOK, Message, Session
  <2>4. heard \subseteq heard' /\ log' = log
    BY DEF Deliver
  <2> QED  BY <1>1, <2>1, <2>2, <2>3, <2>4 DEF Carried, Founded
<1>7. ASSUME NEW q \in Req PROVE Path(q)' /\ Fetched(q)'
  <2>1. CASE q = r
    BY <1>1, <1>2, <2>1 DEF Path, Fetched, Deliver
  <2>2. CASE q # r
    BY <1>1, <2>2, RequestKept DEF Deliver
  <2> QED  BY <2>1, <2>2
<1>8. ASSUME NEW q \in Req, pc'[q] = "done", Dead(q)
      PROVE  jar'.session # msg[q].session
  <2>1. /\ msg[q].session # None
        /\ q # r => pc[q] = "done" /\ jar.session # msg[q].session
    BY <1>1, <1>8 DEF SafetyInv, RequestInv, Dropped, Dead
  <2>2. msg[q] # None /\ pc[msg[q].session.by] = "done"
    <3>1. msg[q] # None
      BY <1>1, <1>8 DEF SafetyInv, RequestInv, Path
    <3> QED  BY <2>1, <3>1 DEF SafetyInv, RequestInv, Carried
  <2>3. CASE setSession[r] = None
    BY <1>1, <1>2, <1>8, <2>1, <2>3, Stored DEF Fetched
  <2>4. CASE setSession[r] = Removal
    BY <2>1, <2>4, Stored, NoValues
  <2>5. CASE setSession[r] \in Session
    <3>1. jar'.session = setSession[r] /\ setSession[r].by = r
      BY <1>1, <1>2, <2>5, Stored, NoValues DEF Fetched, Caused
    <3> QED  BY <1>1, <2>2, <3>1
  <2> QED  BY <2>3, <2>4, <2>5 DEF SafetyInv, TypeOK
<1>9. \A q \in Req : Dropped(q)'
  BY <1>1, <1>8 DEF Dropped, Dead, Deliver
<1> QED  BY <1>4, <1>5, <1>6, <1>7, <1>9 DEF SafetyInv, RequestInv

-----------------------------------------------------------------------------
(* The theorems.                                                           *)

LEMMA InitSafe == Init => SafetyInv
<1> SUFFICES ASSUME Init PROVE SafetyInv
  OBVIOUS
<1>1. TypeOK
  BY DEF Init, TypeOK, Empty
<1>2. JarInv
  BY DEF Init, JarInv, Empty
<1>3. RequestInv
  BY DEF Init, RequestInv, Path, Carried, Fetched, Dropped
<1> QED  BY <1>1, <1>2, <1>3 DEF SafetyInv

LEMMA StepSafe == SafetyInv /\ [Next]_vars => SafetyInv'
<1> SUFFICES ASSUME SafetyInv, [Next]_vars PROVE SafetyInv'
  OBVIOUS
<1>1. ASSUME NEW r \in Req, Step(r) PROVE SafetyInv'
  BY <1>1, SendSafe, DeliverSafe, TurnAwaySafe, PassSafeSafe, PassUnsafeSafe,
     LogInSafe, SaveSafe, LogOutSafe, WorkSafe DEF Step
<1>2. CASE UNCHANGED vars
  <2> USE <1>2 DEF vars, keys, client, server
  <2>1. TypeOK'
    BY DEF SafetyInv, TypeOK
  <2>2. JarInv'
    BY DEF SafetyInv, JarInv, Founded
  <2>3. ASSUME NEW q \in Req PROVE Path(q)' /\ Carried(q)' /\ Fetched(q)' /\ Dropped(q)'
    <3>1. Path(q)' /\ Fetched(q)'
      BY RequestKept
    <3>2. Carried(q)'
      BY CarriedKept
    <3>3. Dropped(q)'
      BY DEF SafetyInv, RequestInv, Dropped, Dead
    <3> QED  BY <3>1, <3>2, <3>3
  <2> QED  BY <2>1, <2>2, <2>3 DEF SafetyInv, RequestInv
<1> QED  BY <1>1, <1>2, TickSafe, RestartSafe DEF Next

\* SafetyInv is inductive: what the jar, the requests on the way and their
\* replies hold fits together after every step of csrf.go and session.go.
THEOREM SafetyInvariant == Spec => []SafetyInv
  BY InitSafe, StepSafe, PTL DEF Spec

\* Every variable keeps its type.
THEOREM TypeCorrect == Spec => []TypeOK
<1>1. SafetyInv => TypeOK
  BY DEF SafetyInv
<1> QED  BY <1>1, SafetyInvariant, PTL

\* The browser never sends again a session it was told is of no use
\* (session.go, Middleware and Clear).
THEOREM DeadSessionsStayDropped == Spec => []DeadSessionDropped
<1>1. SafetyInv => DeadSessionDropped
  BY DEF SafetyInv, RequestInv, Carried, DeadSessionDropped
<1> QED  BY <1>1, SafetyInvariant, PTL

\* A token heard of lately, under the key of today, is enough for a write
\* (csrf.go, Middleware and validateToken), whichever tab it came to.
THEOREM FreshTokensWork == Spec => FreshTokenWorks
<1>1. SafetyInv /\ [Next]_vars =>
        [\A r \in Req : pc[r] = "sent" /\ pc'[r] = "answered" =>
           ~\E h \in heard : /\ reply'[r] = "forbidden"
                             /\ h.token = msg[r].header
                             /\ h.token.key = csrfKey
                             /\ msg[r].at < h.at + CookieMaxAge]_vars
  <2> SUFFICES ASSUME SafetyInv, Next, NEW r \in Req,
                      pc[r] = "sent", pc'[r] = "answered",
                      NEW h \in heard, h.token = msg[r].header,
                      h.token.key = csrfKey, msg[r].at < h.at + CookieMaxAge
               PROVE  FALSE
    OBVIOUS
  <2>1. PassUnsafe(r)
    BY DEF Next, Step, Send, Deliver, TurnAway, PassSafe, PassUnsafe, LogIn, Save,
           LogOut, Work, Tick, Restart, Answer, SafetyInv, TypeOK
  <2>2. ~TokenAccepted(msg[r])
    BY <2>1 DEF PassUnsafe, SafetyInv, TypeOK
  <2>3. msg[r].header # None /\ msg[r].csrf # None
    BY Carries, NoValues DEF SafetyInv, TypeOK, RequestInv, Carried
  <2> QED  BY <2>2, <2>3 DEF TokenAccepted, TokenOf
<1> QED  BY <1>1, SafetyInvariant, PTL DEF Spec, FreshTokenWorks

\* A handler acts for a user who logged in at most CookieMaxAge ago
\* (session.go, Create and Get; session_context.go).
THEOREM ActsForRecentLogins == Spec => ActsForTheLoggedIn
<1>1. SafetyInv /\ [Next]_vars =>
        [\A r \in Req : ctx'[r] # ctx[r] =>
           \E l \in log : /\ l.user = ctx'[r].user
                          /\ now <= l.at + CookieMaxAge]_vars
  <2> SUFFICES ASSUME SafetyInv, Next, NEW r \in Req, ctx'[r] # ctx[r]
               PROVE  \E l \in log : /\ l.user = ctx'[r].user
                                     /\ now <= l.at + CookieMaxAge
    OBVIOUS
  <2>1. pc[r] = "sent" /\ ReadSession(r)
    BY DEF Next, Step, Send, Deliver, TurnAway, PassSafe, PassUnsafe, LogIn, Save,
           LogOut, Work, Tick, Restart, ReadSession, client, server, SafetyInv, TypeOK
  <2>2. ctx[r] = None
    BY <2>1 DEF SafetyInv, RequestInv, Path
  <2>3. ctx'[r] = msg[r].session /\ msg[r].session # None /\ Valid(msg[r].session)
    BY <2>1, <2>2 DEF ReadSession, SafetyInv, TypeOK
  <2>4. Founded(msg[r].session) /\ msg[r].session \in Session
    BY <2>1, <2>3, Carries DEF SafetyInv, RequestInv, Carried
  <2>5. now <= msg[r].session.expiresAt
    BY <2>3, <2>4 DEF Valid, Expired, SafetyInv, TypeOK, Session
  <2> QED  BY <2>3, <2>4, <2>5 DEF Founded
<1> QED  BY <1>1, SafetyInvariant, PTL DEF Spec, ActsForTheLoggedIn

\* The session in the jar changes for a cause (session.go, Create and Clear).
THEOREM SessionsHaveCauses == Spec => SessionsForCause
<1>1. SafetyInv /\ [Next]_vars =>
        [jar'.session # jar.session =>
           \/ jar'.session = None /\ now' # now
           \/ \E r \in Req :
                /\ pc[r] = "answered" /\ pc'[r] = "done"
                /\ IF jar'.session = None
                     THEN LoggedOut(r) \/ Dead(r)
                     ELSE \/ LoggedIn(r, jar'.session)
                          \/ Continues(jar'.session, msg[r].session)]_vars
  <2> SUFFICES ASSUME SafetyInv, Next, jar'.session # jar.session
               PROVE  \/ jar'.session = None /\ now' # now
                      \/ \E r \in Req :
                           /\ pc[r] = "answered" /\ pc'[r] = "done"
                           /\ IF jar'.session = None
                                THEN LoggedOut(r) \/ Dead(r)
                                ELSE \/ LoggedIn(r, jar'.session)
                                     \/ Continues(jar'.session, msg[r].session)
    OBVIOUS
  <2>1. Tick \/ \E r \in Req : Deliver(r)
    BY DEF Next, Step, Send, TurnAway, PassSafe, PassUnsafe, LogIn, Save,
           LogOut, Work, Restart, client
  <2>2. CASE Tick
    BY <2>2 DEF Tick, Aged, SafetyInv, TypeOK
  <2>3. ASSUME NEW r \in Req, Deliver(r)
        PROVE  /\ pc[r] = "answered" /\ pc'[r] = "done"
               /\ IF jar'.session = None
                    THEN LoggedOut(r) \/ Dead(r)
                    ELSE \/ LoggedIn(r, jar'.session)
                         \/ Continues(jar'.session, msg[r].session)
    <3>1. pc[r] = "answered" /\ pc'[r] = "done"
      BY <2>3 DEF Deliver, SafetyInv, TypeOK
    <3>2. Fetched(r)
      BY DEF SafetyInv, RequestInv
    <3>3. CASE setSession[r] = Removal
      BY <2>3, <3>1, <3>2, <3>3, Stored, NoValues DEF Fetched
    <3>4. CASE setSession[r] \in Session
      <4>1. jar'.session = setSession[r] /\ jar'.session # None
        BY <2>3, <3>4, Stored, NoValues
      <4> QED  BY <3>1, <3>2, <3>4, <4>1 DEF Fetched, Caused
    <3>5. setSession[r] # None
      BY <2>3, Stored
    <3> QED  BY <3>1, <3>3, <3>4, <3>5 DEF SafetyInv, TypeOK
  <2> QED  BY <2>1, <2>2, <2>3
<1> QED  BY <1>1, SafetyInvariant, PTL DEF Spec, SessionsForCause

=============================================================================
