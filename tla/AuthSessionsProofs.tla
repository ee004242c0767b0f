------------------------- MODULE AuthSessionsProofs -------------------------
(***************************************************************************)
(* Proofs about AuthSessions, for every set of requests, accounts, emails  *)
(* and passwords, every pair of lifetimes and every bound.                 *)
(***************************************************************************)
EXTENDS AuthSessions, TLAPS

USE OpsAssumption, ExpiryAssumption, BoundAssumption

LEMMA InitSafety == Init => SafetyInv
<1> SUFFICES ASSUME Init PROVE SafetyInv
  OBVIOUS
<1>1. TypeOK
  BY SeedAssumption DEF Init, TypeOK, User, UserId
<1>2. ControlInv
  BY NoneAssumption DEF Init, ControlInv
<1>3. DataInv /\ RowInv
  BY NoneAssumption DEF AllOps, Init, DataInv, RowInv, Granted
<1>4. OneAccountPerEmail
  BY SeedAssumption, NoneAssumption DEF Status, Init, OneAccountPerEmail
<1>5. TokenNamesSession /\ LoginTokenLive
  BY NoneAssumption DEF AllOps, Init, TokenNamesSession, LoginTokenLive
<1> QED
  BY <1>1, <1>2, <1>3, <1>4, <1>5 DEF SafetyInv

\* What the writing calls of the repository do to the tables.
LEMMA CreateUserEffect ==
    ASSUME NEW u, NEW ok \in BOOLEAN, faults \in 0..MaxFaults,
           CreateUser(u, ok)
    PROVE  /\ faults' \in 0..MaxFaults
           /\ \/ users' = users
              \/ /\ users' = users \cup {u}
                 /\ \A v \in users : v.email # u.email
           /\ ok => u \in users'
  BY DEF CreateUser, Fault, NoFault

LEMMA CreateSessionEffect ==
    ASSUME NEW s, NEW ok \in BOOLEAN, faults \in 0..MaxFaults,
           CreateSession(s, ok)
    PROVE  /\ faults' \in 0..MaxFaults
           /\ \/ sessions' = sessions
              \/ /\ sessions' = sessions \cup {s}
                 /\ \A t \in sessions : t.token # s.token
           /\ ok => s \in sessions'
  BY DEF CreateSession, Fault, NoFault

LEMMA DeleteSessionEffect ==
    ASSUME NEW i, NEW ok \in BOOLEAN, faults \in 0..MaxFaults,
           DeleteSession(i, ok)
    PROVE  /\ faults' \in 0..MaxFaults
           /\ sessions' \subseteq sessions
           /\ \A s \in sessions : s.id # i => s \in sessions'
  BY DEF DeleteSession, Fault, NoFault

LEMMA LoginInsertSafety ==
    ASSUME SafetyInv, NEW r \in Req, LoginInsert(r)
    PROVE  SafetyInv'
<1> USE DEF SafetyInv
<1> DEFINE s == [id |-> r, user |-> pair[r].user, token |-> pair[r],
                 expiresAt |-> pair[r].iat + RefreshExpiry]
<1>0. /\ pc[r] = "login_insert" /\ op[r] = "Login" /\ reply[r] = None
      /\ pair[r] \in Token /\ pair[r].type = "refresh" /\ pair[r].iat <= now
      /\ UNCHANGED <<now, users, op, arg, ses, pair>>
      /\ pc' = [pc EXCEPT ![r] = "done"]
  BY DEF LoginInsert, At, Answer, local, TypeOK, ControlInv, DataInv
<1>1. PICK ok \in BOOLEAN :
        /\ CreateSession(s, ok)
        /\ Answer(r, IF ok THEN 200 ELSE 500)
  BY Zenon DEF LoginInsert
<1>2. /\ s \in Session
      /\ s.id = r /\ s.token = pair[r] /\ s.user = pair[r].user
      /\ s.expiresAt >= ExpiryOf(pair[r])
  BY <1>0 DEF TypeOK, Session, Token, ExpiryOf
<1> HIDE DEF s
<1>3. /\ faults' \in 0..MaxFaults
      /\ \/ sessions' = sessions
         \/ /\ sessions' = sessions \cup {s}
            /\ \A t \in sessions : t.token # s.token
      /\ ok => s \in sessions'
  BY <1>1, CreateSessionEffect DEF TypeOK
<1>4. TypeOK'
  BY <1>0, <1>1, <1>2, <1>3 DEF Answer, TypeOK, Status
<1>5. ControlInv'
  BY <1>0, <1>1 DEF Answer, TypeOK, ControlInv
<1>6. DataInv'
  BY <1>0, <1>1 DEF Answer, TypeOK, DataInv, Granted, LoggedIn, ControlInv
<1>7. RowInv'
  BY <1>0, <1>2, <1>3 DEF TypeOK, RowInv
<1>8. OneAccountPerEmail'
  BY <1>0, <1>1 DEF Answer, OneAccountPerEmail, TypeOK
<1>9. TokenNamesSession'
  BY <1>0, <1>2, <1>3 DEF TokenNamesSession, TypeOK
<1>10. LoginTokenLive'
  <2> SUFFICES ASSUME NEW q \in Req,
                      (op[q] = "Login" /\ reply[q] = 200 /\ ~Presented(pair[q], Req))'
               PROVE  \E t \in sessions' : /\ t.token = pair'[q]
                                           /\ t.expiresAt >= ExpiryOf(t.token)
    BY DEF LoginTokenLive, ExpiryOf
  <2>1. CASE q = r
    BY <2>1, <1>0, <1>1, <1>2, <1>3 DEF Answer, TypeOK
  <2>2. CASE q # r
    BY <2>2, <1>0, <1>1, <1>3 DEF Answer, TypeOK, LoginTokenLive, Presented
  <2> QED
    BY <2>1, <2>2
<1> QED
  BY <1>4, <1>5, <1>6, <1>7, <1>8, <1>9, <1>10

\* Steps that only end a request, without a grant or a new account.
LEMMA AnswerSafety ==
    ASSUME SafetyInv, NEW r \in Req, NEW status \in Status,
           pc[r] # "done", Answer(r, status),
           status # 201,
           status = 200 => op[r] = "Logout",
           faults' \in 0..MaxFaults,
           UNCHANGED <<now, users, sessions, local>>
    PROVE  SafetyInv'
<1> USE DEF SafetyInv, local, Answer
<1>1. TypeOK'
  BY DEF TypeOK
<1>2. ControlInv'
  BY DEF TypeOK, ControlInv
<1>3. DataInv'
  BY DEF TypeOK, DataInv, Granted, LoggedIn
<1>4. RowInv'
  BY DEF TypeOK, RowInv
<1>5. OneAccountPerEmail' /\ TokenNamesSession'
  BY DEF TypeOK, OneAccountPerEmail, TokenNamesSession
<1>6. LoginTokenLive'
  BY DEF TypeOK, LoginTokenLive, Presented, ExpiryOf
<1> QED
  BY <1>1, <1>2, <1>3, <1>4, <1>5, <1>6

\* Steps that only move a request on to its next call.
LEMMA GotoSafety ==
    ASSUME SafetyInv, NEW r \in Req, NEW step \in {"reg_insert", "ref_find"},
           pc[r] = IF step = "reg_insert" THEN "reg_lookup" ELSE "ref_user",
           Goto(r, step),
           UNCHANGED <<now, users, sessions, local, faults>>
    PROVE  SafetyInv'
<1> USE DEF SafetyInv, local, Goto
<1>1. TypeOK'
  BY DEF TypeOK, Steps
<1>2. ControlInv'
  BY DEF TypeOK, ControlInv
<1>3. DataInv'
  BY DEF TypeOK, DataInv, Granted, LoggedIn
<1>4. RowInv'
  BY DEF TypeOK, RowInv
<1>5. OneAccountPerEmail' /\ TokenNamesSession' /\ LoginTokenLive'
  BY DEF TypeOK, OneAccountPerEmail, TokenNamesSession, LoginTokenLive,
         Presented, ExpiryOf
<1> QED
  BY <1>1, <1>2, <1>3, <1>4, <1>5

\* Steps that delete the session a request has read.  The row carries the
\* token the request presented, so no token that is still to be presented
\* loses its session.
LEMMA DeleteSafety ==
    ASSUME SafetyInv, NEW r \in Req, NEW ok \in BOOLEAN,
           pc[r] \in {"ref_expire", "ref_delete", "out_delete"},
           DeleteSession(ses[r].id, ok),
           \/ pc[r] = "ref_delete" /\ Goto(r, "ref_create")
           \/ pc[r] = "ref_expire" /\ Answer(r, 401)
           \/ pc[r] = "out_delete" /\ \E status \in {200, 500} : Answer(r, status),
           UNCHANGED <<now, users, local>>
    PROVE  SafetyInv'
<1> USE DEF SafetyInv, local, Goto, Answer
<1>1. /\ faults' \in 0..MaxFaults
      /\ sessions' \subseteq sessions
      /\ \A s \in sessions : s.id # ses[r].id => s \in sessions'
  BY DeleteSessionEffect DEF TypeOK
<1>2. TypeOK'
  BY <1>1 DEF TypeOK, Steps, Status
<1>3. ControlInv'
  BY DEF TypeOK, ControlInv
<1>4. DataInv'
  BY DEF TypeOK, ControlInv, DataInv, Granted, LoggedIn
<1>5. RowInv'
  <2>1. PICK step \in {"ref_create", "done"} : pc' = [pc EXCEPT ![r] = step]
    OBVIOUS
  <2>2. \A q \in Req : pc[q] = "done" => pc'[q] = "done"
    BY <2>1 DEF TypeOK
  <2> QED
    BY <1>1, <2>2 DEF TypeOK, RowInv, Session
<1>6. OneAccountPerEmail' /\ TokenNamesSession'
  BY <1>1 DEF TypeOK, OneAccountPerEmail, TokenNamesSession
<1>7. LoginTokenLive'
  <2> SUFFICES ASSUME NEW q \in Req,
                      (op[q] = "Login" /\ reply[q] = 200 /\ ~Presented(pair[q], Req))'
               PROVE  \E t \in sessions' : /\ t.token = pair'[q]
                                           /\ t.expiresAt >= ExpiryOf(t.token)
    BY DEF LoginTokenLive, ExpiryOf
  <2>1. op[q] = "Login" /\ reply[q] = 200 /\ ~Presented(pair[q], Req)
    BY DEF TypeOK, ControlInv, Presented
  <2>2. PICK t \in sessions : t.token = pair[q] /\ t.expiresAt >= ExpiryOf(t.token)
    BY <2>1 DEF LoginTokenLive
  <2>3. t.id # ses[r].id
    BY <2>1, <2>2 DEF RowInv, DataInv, ControlInv, Presented
  <2> QED
    BY <1>1, <2>2, <2>3
<1> QED
  BY <1>2, <1>3, <1>4, <1>5, <1>6, <1>7

LEMMA ArriveSafety ==
    ASSUME SafetyInv, NEW r \in Req, Arrive(r)
    PROVE  SafetyInv'
<1> USE DEF SafetyInv
<1>0. PICK o \in Ops : \E a \in Bodies(o) :
        /\ op' = [op EXCEPT ![r] = o]
        /\ arg' = [arg EXCEPT ![r] = a]
        /\ Goto(r, Entry[o])
  BY Zenon DEF Arrive
<1>1. PICK a \in Bodies(o) :
        /\ op' = [op EXCEPT ![r] = o]
        /\ arg' = [arg EXCEPT ![r] = a]
        /\ Goto(r, Entry[o])
  BY Zenon, <1>0
<1>2. /\ pc[r] = "idle" /\ op[r] = None /\ ses[r] = None /\ pair[r] = None
      /\ reply[r] = None
      /\ UNCHANGED <<now, users, sessions, ses, pair, faults, reply>>
      /\ pc' = [pc EXCEPT ![r] = Entry[o]]
  BY <1>1 DEF Arrive, At, Goto, ControlInv
<1>3. o \in AllOps
  OBVIOUS
<1>4. /\ o \in {"Register", "Login"} => a \in Credential
      /\ o = "RequestReset" => a \in Email
      /\ o \notin {"Register", "Login", "RequestReset"} => a \in Delivered
  BY DEF Bodies
<1>5. a \in Delivered => a \in Token /\ LoggedIn(a.user)
  <2> SUFFICES ASSUME a \in Delivered PROVE a \in Token /\ LoggedIn(a.user)
    OBVIOUS
  <2>1. PICK q \in Req : /\ Granted(q)
                         /\ \/ a = pair[q]
                            \/ a = [pair[q] EXCEPT !.type = "access"]
    BY DEF Delivered
  <2>2. pair[q] \in Token /\ LoggedIn(pair[q].user)
    BY <2>1 DEF TypeOK, DataInv
  <2>3. a \in Token /\ a.user = pair[q].user
    BY <2>1, <2>2 DEF Token
  <2> QED
    BY <2>2, <2>3
<1>6. /\ o \in AllOps
      /\ Entry[o] \in Steps
  BY <1>3 DEF AllOps, Entry, Steps
<1>7. TypeOK'
  BY <1>1, <1>2, <1>3, <1>4, <1>5, <1>6 DEF TypeOK, AllOps
<1>8. ControlInv'
  <2>1. \/ o = "Register" /\ Entry[o] = "reg_lookup"
        \/ o = "Login" /\ Entry[o] = "login_lookup"
        \/ o = "Refresh" /\ Entry[o] = "ref_user"
        \/ o = "Logout" /\ Entry[o] = "out_find"
        \/ o = "RequestReset" /\ Entry[o] = "pr_lookup"
        \/ o = "ResetPassword" /\ Entry[o] = "rp_validate"
    BY <1>3 DEF AllOps, Entry
  <2> QED
    BY <1>1, <1>2, <1>4, <2>1 DEF TypeOK, ControlInv
<1>9. DataInv'
  <2>2. o \in {"Refresh", "Logout"} => a \in Token /\ LoggedIn(a.user)
    BY <1>4, <1>5
  <2>3. Entry[o] \notin {"login_insert", "ref_expire", "ref_delete",
                         "ref_create", "out_delete"}
    BY <1>3 DEF AllOps, Entry
  <2>4. \A q \in Req : op[q] = "Login" => op'[q] = op[q] /\ arg'[q] = arg[q]
    BY <1>1, <1>2, NoneAssumption DEF TypeOK, AllOps
  <2>5. ASSUME NEW q \in Req, q # r
        PROVE  /\ op'[q] = op[q] /\ arg'[q] = arg[q] /\ pc'[q] = pc[q]
    BY <1>1, <1>2, <2>5 DEF TypeOK
  <2>6. op'[r] = o /\ arg'[r] = a /\ pc'[r] = Entry[o]
    BY <1>1, <1>2 DEF TypeOK
  <2> QED
    BY <1>2, <2>2, <2>3, <2>4, <2>5, <2>6, NoneAssumption
       DEF DataInv, Granted, Status, LoggedIn
<1>10. RowInv'
  BY <1>1, <1>2, NoneAssumption DEF TypeOK, RowInv, AllOps
<1>11. OneAccountPerEmail' /\ TokenNamesSession'
  BY <1>1, <1>2, NoneAssumption DEF TypeOK, OneAccountPerEmail, TokenNamesSession, Status, AllOps, User
<1>12. LoginTokenLive'
  BY <1>1, <1>2, NoneAssumption DEF TypeOK, LoginTokenLive, Presented, ExpiryOf, AllOps, Status
<1> QED
  BY <1>7, <1>8, <1>9, <1>10, <1>11, <1>12

LEMMA RegisterInsertSafety ==
    ASSUME SafetyInv, NEW r \in Req, RegisterInsert(r)
    PROVE  SafetyInv'
<1> USE DEF SafetyInv
<1> DEFINE u == [id |-> r, email |-> arg[r].email, password |-> arg[r].password]
<1>1. PICK ok \in BOOLEAN : CreateUser(u, ok) /\ Answer(r, IF ok THEN 201 ELSE 500)
  BY Zenon DEF RegisterInsert
<1>2. /\ pc[r] = "reg_insert" /\ op[r] = "Register" /\ reply[r] = None
      /\ u \in User /\ u.id = r /\ Verify(u, arg[r])
      /\ UNCHANGED <<now, sessions, op, arg, ses, pair>>
  BY DEF RegisterInsert, At, local, TypeOK, ControlInv, Credential, User,
         UserId, Verify
<1> HIDE DEF u
<1>3. /\ faults' \in 0..MaxFaults
      /\ \/ users' = users
         \/ /\ users' = users \cup {u}
            /\ \A v \in users : v.email # u.email
      /\ ok => u \in users'
  BY <1>1, CreateUserEffect DEF TypeOK
<1> USE DEF Answer
<1>4. TypeOK'
  BY <1>1, <1>2, <1>3 DEF TypeOK, Status
<1>5. ControlInv'
  BY <1>1, <1>2 DEF TypeOK, ControlInv
<1>6. DataInv'
  BY <1>1, <1>2, <1>3 DEF TypeOK, DataInv, Granted, LoggedIn
<1>7. RowInv'
  BY <1>1, <1>2 DEF TypeOK, RowInv
<1>8. OneAccountPerEmail'
  <2>1. \A v, w \in users' : v.email = w.email => v = w
    BY <1>3 DEF OneAccountPerEmail
  <2>2. ASSUME NEW q \in Req, reply'[q] = 201
        PROVE  \E v \in users' : v.id = q /\ Verify(v, arg[q])
    <3>1. CASE q = r
      BY <1>1, <1>2, <1>3, <2>2, <3>1 DEF TypeOK
    <3>2. CASE q # r
      BY <1>1, <1>3, <2>2, <3>2 DEF TypeOK, OneAccountPerEmail
    <3> QED
      BY <3>1, <3>2
  <2>3. \A v \in users' \ Seed : op[v.id] = "Register"
    BY <1>2, <1>3 DEF OneAccountPerEmail
  <2> QED
    BY <1>2, <2>1, <2>2, <2>3 DEF OneAccountPerEmail, Verify
<1>9. TokenNamesSession'
  BY <1>2 DEF TokenNamesSession
<1>10. LoginTokenLive'
  BY <1>1, <1>2 DEF TypeOK, LoginTokenLive, Presented, ExpiryOf
<1> QED
  BY <1>4, <1>5, <1>6, <1>7, <1>8, <1>9, <1>10

LEMMA LoginLookupSafety ==
    ASSUME SafetyInv, NEW r \in Req, LoginLookup(r)
    PROVE  SafetyInv'
<1> USE DEF SafetyInv
<1>0. /\ pc[r] = "login_lookup" /\ op[r] = "Login" /\ reply[r] = None
      /\ UNCHANGED <<now, users, sessions, op, arg, ses, faults>>
  BY DEF LoginLookup, At, TypeOK, ControlInv
<1>1. CASE Answer(r, 500) /\ UNCHANGED pair
  BY <1>0, <1>1, AnswerSafety DEF Status, local, TypeOK
<1>2. CASE \E u \in users : /\ Verify(u, arg[r])
                            /\ pair' = [pair EXCEPT ![r] = GenerateRefreshToken(u.id)]
                            /\ Goto(r, "login_insert")
  <2>1. PICK u \in users : /\ Verify(u, arg[r])
                           /\ pair' = [pair EXCEPT ![r] = GenerateRefreshToken(u.id)]
                           /\ Goto(r, "login_insert")
    BY <1>2
  <2> DEFINE t == GenerateRefreshToken(u.id)
  <2>2. t \in Token /\ t.type = "refresh" /\ t.iat = now /\ t.user = u.id
    BY DEF GenerateRefreshToken, Token, TypeOK, User
  <2> HIDE DEF t
  <2>3. /\ pair' = [pair EXCEPT ![r] = t]
        /\ pc' = [pc EXCEPT ![r] = "login_insert"] /\ reply' = reply
    BY <2>1 DEF Goto, t
  <2>4. TypeOK'
    BY <1>0, <2>2, <2>3 DEF TypeOK, Steps
  <2>5. ControlInv'
    BY <1>0, <2>3 DEF TypeOK, ControlInv
  <2>6. LoggedIn(t.user)
    BY <1>0, <2>1, <2>2 DEF LoggedIn, Verify
  <2>7. DataInv'
    BY <1>0, <2>2, <2>3, <2>6, NoneAssumption
       DEF TypeOK, DataInv, Granted, LoggedIn, Status
  <2>8. RowInv'
    BY <1>0, <2>3 DEF TypeOK, RowInv, Session
  <2>9. OneAccountPerEmail' /\ TokenNamesSession'
    BY <1>0, <2>3 DEF TypeOK, OneAccountPerEmail, TokenNamesSession
  <2>10. LoginTokenLive'
    BY <1>0, <2>3, NoneAssumption
       DEF TypeOK, LoginTokenLive, Presented, ExpiryOf, Status
  <2> QED
    BY <2>4, <2>5, <2>7, <2>8, <2>9, <2>10
<1> QED
  BY <1>1, <1>2 DEF LoginLookup

LEMMA RefreshFindSafety ==
    ASSUME SafetyInv, NEW r \in Req, RefreshFind(r)
    PROVE  SafetyInv'
<1> USE DEF SafetyInv
<1>0. /\ pc[r] = "ref_find" /\ op[r] = "Refresh" /\ reply[r] = None
      /\ arg[r] \in Token /\ LoggedIn(arg[r].user)
      /\ UNCHANGED <<now, users, sessions, op, arg, faults>>
  BY DEF RefreshFind, At, TypeOK, ControlInv, DataInv
<1>1. CASE Answer(r, 401) /\ UNCHANGED <<ses, pair>>
  BY <1>0, <1>1, AnswerSafety DEF Status, local, TypeOK
<1>2. ASSUME NEW s \in sessions, s.token = arg[r],
             ses' = [ses EXCEPT ![r] = s],
             \/ Goto(r, "ref_expire") /\ UNCHANGED pair
             \/ /\ pair' = [pair EXCEPT ![r] = GenerateRefreshToken(arg[r].user)]
                /\ Goto(r, "ref_delete")
      PROVE SafetyInv'
  <2> DEFINE t == GenerateRefreshToken(arg[r].user)
  <2>1. t \in Token /\ t.type = "refresh" /\ t.iat = now /\ t.user = arg[r].user
    BY <1>0 DEF GenerateRefreshToken, Token, TypeOK
  <2> HIDE DEF t
  <2>2. /\ reply' = reply
        /\ \/ /\ pc' = [pc EXCEPT ![r] = "ref_expire"]
              /\ pair' = pair
           \/ /\ pc' = [pc EXCEPT ![r] = "ref_delete"]
              /\ pair' = [pair EXCEPT ![r] = t]
    BY <1>2 DEF Goto, t
  <2>3. TypeOK'
    BY <1>0, <1>2, <2>1, <2>2 DEF TypeOK, Steps
  <2>4. ControlInv'
    BY <1>0, <1>2, <2>2 DEF TypeOK, ControlInv
  <2>5. s \in Session /\ s # None /\ t # None
    BY <2>1, NoneAssumption DEF TypeOK
  <2>6. DataInv'
    BY <1>0, <1>2, <2>1, <2>2, <2>5, NoneAssumption
       DEF TypeOK, DataInv, Granted, LoggedIn, Status
  <2>7. RowInv'
    <3>1. ASSUME NEW q \in Req, pc[q] = "done"
          PROVE  pc'[q] = "done" /\ pair'[q] = pair[q]
      BY <1>0, <2>2, <3>1 DEF TypeOK
    <3>2. \A x \in sessions : x.id \in Req
      BY DEF TypeOK, Session
    <3>3. \A q \in Req : ses[q] # None => ses[q].id \in Req
      BY DEF TypeOK, Session
    <3> QED
      BY <1>0, <1>2, <3>1, <3>2, <3>3 DEF TypeOK, RowInv
  <2>8. OneAccountPerEmail' /\ TokenNamesSession'
    BY <1>0, <2>2 DEF TypeOK, OneAccountPerEmail, TokenNamesSession
  <2>9. LoginTokenLive'
    BY <1>0, <2>2 DEF TypeOK, LoginTokenLive, Presented, ExpiryOf
  <2> QED
    BY <2>3, <2>4, <2>6, <2>7, <2>8, <2>9
<1> QED
  BY <1>1, <1>2 DEF RefreshFind

LEMMA RefreshCreateSafety ==
    ASSUME SafetyInv, NEW r \in Req, RefreshCreate(r)
    PROVE  SafetyInv'
<1> USE DEF SafetyInv
<1>1. PICK ok \in BOOLEAN, t \in pair[r].iat..now :
        CreateSession([id |-> r, user |-> arg[r].user, token |-> pair[r],
                       expiresAt |-> t + ResetExpiry], ok)
  BY Zenon DEF RefreshCreate
<1> DEFINE s == [id |-> r, user |-> arg[r].user, token |-> pair[r],
                 expiresAt |-> t + ResetExpiry]
<1>2. /\ pc[r] = "ref_create" /\ op[r] = "Refresh" /\ reply[r] = None
      /\ pair[r] \in Token /\ pair[r].type = "refresh"
      /\ pair[r].user = arg[r].user
      /\ UNCHANGED <<now, users, op, arg, ses, pair>>
      /\ pc' = [pc EXCEPT ![r] = "done"]
      /\ reply' = [reply EXCEPT ![r] = 200]
  BY DEF RefreshCreate, At, Answer, local, TypeOK, ControlInv, DataInv
<1>3. /\ CreateSession(s, ok)
      /\ s \in Session /\ s.id = r /\ s.token = pair[r] /\ s.user = pair[r].user
  BY <1>1, <1>2 DEF TypeOK, Session, Token
<1> HIDE DEF s
<1>4. /\ faults' \in 0..MaxFaults
      /\ \/ sessions' = sessions
         \/ /\ sessions' = sessions \cup {s}
            /\ \A x \in sessions : x.token # s.token
  BY <1>3, CreateSessionEffect DEF TypeOK
<1>5. TypeOK'
  BY <1>2, <1>3, <1>4 DEF TypeOK, Status
<1>6. ControlInv'
  BY <1>2 DEF TypeOK, ControlInv
<1>7. DataInv'
  BY <1>2 DEF TypeOK, DataInv, Granted, LoggedIn
<1>8. RowInv'
  BY <1>2, <1>3, <1>4 DEF TypeOK, RowInv
<1>9. OneAccountPerEmail'
  BY <1>2 DEF OneAccountPerEmail, TypeOK
<1>10. TokenNamesSession'
  BY <1>2, <1>3, <1>4 DEF TokenNamesSession, TypeOK
<1>11. LoginTokenLive'
  BY <1>2, <1>4 DEF TypeOK, LoginTokenLive, Presented, ExpiryOf
<1> QED
  BY <1>5, <1>6, <1>7, <1>8, <1>9, <1>10, <1>11

LEMMA LogoutFindSafety ==
    ASSUME SafetyInv, NEW r \in Req, LogoutFind(r)
    PROVE  SafetyInv'
<1> USE DEF SafetyInv
<1>0. /\ pc[r] = "out_find" /\ op[r] = "Logout" /\ reply[r] = None
      /\ UNCHANGED <<now, users, sessions, op, arg, pair, faults>>
  BY DEF LogoutFind, At, TypeOK, ControlInv
<1>1. CASE Answer(r, 200) /\ UNCHANGED ses
  BY <1>0, <1>1, AnswerSafety DEF Status, local, TypeOK
<1>2. ASSUME NEW s \in sessions, s.token = arg[r],
             ses' = [ses EXCEPT ![r] = s], Goto(r, "out_delete")
      PROVE SafetyInv'
  <2>1. pc' = [pc EXCEPT ![r] = "out_delete"] /\ reply' = reply
    BY <1>2 DEF Goto
  <2>2. s \in Session /\ s # None
    BY NoneAssumption DEF TypeOK
  <2>3. TypeOK'
    BY <1>0, <1>2, <2>1 DEF TypeOK, Steps
  <2>4. ControlInv'
    BY <1>0, <1>2, <2>1 DEF TypeOK, ControlInv
  <2>5. DataInv'
    BY <1>0, <1>2, <2>1, <2>2 DEF TypeOK, DataInv, Granted, LoggedIn
  <2>6. RowInv'
    BY <1>0, <1>2, <2>1, <2>2 DEF TypeOK, RowInv, Session
  <2>7. OneAccountPerEmail' /\ TokenNamesSession'
    BY <1>0, <2>1 DEF TypeOK, OneAccountPerEmail, TokenNamesSession
  <2>8. LoginTokenLive'
    BY <1>0, <2>1 DEF TypeOK, LoginTokenLive, Presented, ExpiryOf
  <2> QED
    BY <2>3, <2>4, <2>5, <2>6, <2>7, <2>8
<1> QED
  BY <1>1, <1>2 DEF LogoutFind

LEMMA CrashSafety ==
    ASSUME SafetyInv, Crash
    PROVE  SafetyInv'
<1> USE DEF SafetyInv, Crash, InFlight, local
<1>1. TypeOK'
  BY DEF TypeOK, Status
<1>2. ControlInv'
  BY DEF TypeOK, ControlInv
<1>3. DataInv'
  BY DEF TypeOK, DataInv, Granted, LoggedIn, Aborted
<1>4. RowInv'
  BY DEF TypeOK, RowInv, Session
<1>5. OneAccountPerEmail' /\ TokenNamesSession'
  BY DEF TypeOK, OneAccountPerEmail, TokenNamesSession, Aborted
<1>6. LoginTokenLive'
  BY DEF TypeOK, LoginTokenLive, Presented, ExpiryOf, Aborted
<1> QED
  BY <1>1, <1>2, <1>3, <1>4, <1>5, <1>6

LEMMA TickSafety ==
    ASSUME SafetyInv, Tick \/ UNCHANGED vars
    PROVE  SafetyInv'
<1> USE DEF SafetyInv, Tick, vars, local
<1>1. TypeOK'
  BY DEF TypeOK
<1>2. ControlInv' /\ RowInv' /\ OneAccountPerEmail' /\ TokenNamesSession'
  BY DEF ControlInv, RowInv, OneAccountPerEmail, TokenNamesSession
<1>3. DataInv'
  BY DEF TypeOK, DataInv, Granted, LoggedIn, Token
<1>4. LoginTokenLive'
  BY DEF LoginTokenLive, Presented, ExpiryOf
<1> QED
  BY <1>1, <1>2, <1>3, <1>4

LEMMA ServeSafety ==
    ASSUME SafetyInv, NEW r \in Req, Serve(r)
    PROVE  SafetyInv'
<1> USE DEF SafetyInv
<1>1. CASE ReadFails(r)
  BY <1>1, AnswerSafety
     DEF ReadFails, Reads, ErrorStatus, Fault, Status, TypeOK
<1>2. CASE RegisterLookup(r)
  <2>1. CASE Answer(r, 500)
    BY <1>2, <2>1, AnswerSafety DEF RegisterLookup, At, Status, TypeOK, local
  <2>2. CASE Goto(r, "reg_insert")
    BY <1>2, <2>2, GotoSafety DEF RegisterLookup, At, local
  <2> QED
    BY <1>2, <2>1, <2>2 DEF RegisterLookup
<1>3. CASE RefreshUser(r)
  <2>1. CASE Answer(r, 401)
    BY <1>3, <2>1, AnswerSafety DEF RefreshUser, At, Status, TypeOK, local
  <2>2. CASE Goto(r, "ref_find")
    BY <1>3, <2>2, GotoSafety DEF RefreshUser, At, local
  <2> QED
    BY <1>3, <2>1, <2>2 DEF RefreshUser
<1>4. CASE RefreshExpire(r)
  <2>1. PICK ok \in BOOLEAN : DeleteSession(ses[r].id, ok)
    BY <1>4, Zenon DEF RefreshExpire
  <2> QED
    BY <1>4, <2>1, DeleteSafety DEF RefreshExpire, At, local
<1>5. CASE RefreshDelete(r)
  <2>1. PICK ok \in BOOLEAN : DeleteSession(ses[r].id, ok)
    BY <1>5, Zenon DEF RefreshDelete
  <2> QED
    BY <1>5, <2>1, DeleteSafety DEF RefreshDelete, At, local
<1>6. CASE LogoutDelete(r)
  <2>1. PICK ok \in BOOLEAN : /\ DeleteSession(ses[r].id, ok)
                              /\ Answer(r, IF ok THEN 200 ELSE 500)
    BY <1>6, Zenon DEF LogoutDelete
  <2>2. \E status \in {200, 500} : Answer(r, status)
    BY <2>1
  <2> QED
    BY <1>6, <2>1, <2>2, DeleteSafety DEF LogoutDelete, At, local
<1>7. CASE RequestReset(r) \/ ResetPassword(r)
  <2>1. PICK status \in {Aborted, 500, 400} : Answer(r, status)
    BY <1>7 DEF RequestReset, ResetPassword
  <2> QED
    BY <1>7, <2>1, AnswerSafety
       DEF RequestReset, ResetPassword, At, Status, Aborted, TypeOK, local
<1> QED
  BY <1>1, <1>2, <1>3, <1>4, <1>5, <1>6, <1>7, RegisterInsertSafety,
     LoginLookupSafety, LoginInsertSafety, RefreshFindSafety,
     RefreshCreateSafety, LogoutFindSafety DEF Serve

LEMMA NextSafety == SafetyInv /\ [Next]_vars => SafetyInv'
<1> SUFFICES ASSUME SafetyInv, [Next]_vars PROVE SafetyInv'
  OBVIOUS
<1>1. ASSUME NEW r \in Req, Refuse(r) PROVE SafetyInv'
  <2>1. PICK status \in {429, 400} : Answer(r, status)
    BY <1>1 DEF Refuse
  <2> QED
    BY <1>1, <2>1, AnswerSafety DEF Refuse, At, Status, SafetyInv, TypeOK, local
<1>2. CASE Finished \/ UNCHANGED vars
  BY <1>2, TickSafety DEF Finished
<1> QED
  BY <1>1, <1>2, ArriveSafety, ServeSafety, CrashSafety, TickSafety DEF Next

\* The inductive invariant holds in every reachable state of every instance.
THEOREM SafetyInvariant == Spec => []SafetyInv
  BY InitSafety, NextSafety, PTL DEF Spec

\* Every variable keeps its type.
THEOREM TypeCorrect == Spec => []TypeOK
<1>1. SafetyInv => TypeOK
  BY DEF SafetyInv
<1> QED
  BY <1>1, SafetyInvariant, PTL

\* No race between registrations leaves two accounts with one email.
THEOREM OneAccount == Spec => []OneAccountPerEmail
<1>1. SafetyInv => OneAccountPerEmail
  BY DEF SafetyInv
<1> QED
  BY <1>1, SafetyInvariant, PTL

\* A refresh token names one session, which belongs to the token's user.
THEOREM TokenNames == Spec => []TokenNamesSession
<1>1. SafetyInv => TokenNamesSession
  BY DEF SafetyInv
<1> QED
  BY <1>1, SafetyInvariant, PTL

\* Sessions only ever belong to accounts whose credentials were given.
THEOREM SessionsFromLogins == Spec => []SessionFromLogin
<1>1. SafetyInv => SessionFromLogin
  <2> SUFFICES ASSUME SafetyInv, NEW s \in sessions PROVE LoggedIn(s.user)
    BY DEF SessionFromLogin
  <2>1. /\ s.id \in Req /\ s.token # None
        /\ pair[s.id] = s.token /\ s.user = s.token.user
    BY NoneAssumption DEF SafetyInv, RowInv, TypeOK, Session
  <2> QED
    BY <2>1 DEF SafetyInv, DataInv
<1> QED
  BY <1>1, SafetyInvariant, PTL

\* The token of an answered login keeps its session until it is presented,
\* through any failing calls, crashes and other requests.
THEOREM LoginTokensLive == Spec => []LoginTokenLive
<1>1. SafetyInv => LoginTokenLive
  BY DEF SafetyInv
<1> QED
  BY <1>1, SafetyInvariant, PTL

-----------------------------------------------------------------------------
(* Spent tokens.                                                           *)

\* Where stored and signed tokens come from: a step only stores what a request
\* in flight has signed, and only signs in the current second.
TokenFlow ==
    /\ now' >= now
    /\ \A s \in sessions' \ sessions :
          \E q \in Req : InFlight(q) /\ s.token = pair[q]
    /\ \A q \in Req :
          \/ pair'[q] = pair[q] /\ (InFlight(q)' => InFlight(q) \/ pair[q] = None)
          \/ InFlight(q) /\ pair'[q].iat = now

LEMMA TokenFlowKept ==
    ASSUME SafetyInv, [Next]_vars
    PROVE  TokenFlow
<1> USE DEF SafetyInv
<1>1. ASSUME NEW r \in Req, Arrive(r) \/ Refuse(r) PROVE TokenFlow
  <2>1. /\ pc[r] = "idle" /\ pair[r] = None
        /\ UNCHANGED <<now, sessions, pair>>
        /\ \A q \in Req \ {r} : pc'[q] = pc[q]
    BY <1>1 DEF Arrive, Refuse, At, Goto, Answer, local, ControlInv, TypeOK
  <2> QED
    BY <2>1 DEF TokenFlow, InFlight, TypeOK
<1>2. ASSUME NEW r \in Req, LoginInsert(r) \/ RefreshCreate(r) PROVE TokenFlow
  <2> DEFINE s(e) == [id |-> r, user |-> e, token |-> pair[r],
                      expiresAt |-> pair[r].iat + RefreshExpiry]
             v(e, t) == [id |-> r, user |-> e, token |-> pair[r],
                         expiresAt |-> t + ResetExpiry]
  <2>1. \E ok \in BOOLEAN :
           \/ CreateSession(s(pair[r].user), ok)
           \/ \E t \in pair[r].iat..now : CreateSession(v(arg[r].user, t), ok)
    BY <1>2, Zenon DEF LoginInsert, RefreshCreate
  <2>2. \A e, t : s(e).token = pair[r] /\ v(e, t).token = pair[r]
    OBVIOUS
  <2> HIDE DEF s, v
  <2>3. \A x \in sessions' \ sessions : x.token = pair[r]
    BY <2>1, <2>2, CreateSessionEffect DEF TypeOK
  <2>4. /\ InFlight(r) /\ UNCHANGED <<now, pair>>
        /\ \A q \in Req : InFlight(q)' => InFlight(q)
    BY <1>2 DEF LoginInsert, RefreshCreate, At, Answer, local, InFlight, TypeOK
  <2> QED
    BY <2>3, <2>4 DEF TokenFlow, TypeOK
<1>3. ASSUME NEW r \in Req,
             RefreshExpire(r) \/ RefreshDelete(r) \/ LogoutDelete(r)
      PROVE  TokenFlow
  <2>1. \E ok \in BOOLEAN : DeleteSession(ses[r].id, ok)
    BY <1>3, Zenon DEF RefreshExpire, RefreshDelete, LogoutDelete
  <2>2. sessions' \subseteq sessions
    BY <2>1, DeleteSessionEffect DEF TypeOK
  <2>3. /\ UNCHANGED <<now, pair>>
        /\ \A q \in Req : InFlight(q)' => InFlight(q)
    BY <1>3 DEF RefreshExpire, RefreshDelete, LogoutDelete, At, Answer, Goto,
                local, InFlight, TypeOK
  <2> QED
    BY <2>2, <2>3 DEF TokenFlow, TypeOK
<1>4. ASSUME NEW r \in Req, LoginLookup(r) \/ RefreshFind(r) PROVE TokenFlow
  <2>1. /\ InFlight(r) /\ UNCHANGED <<now, sessions>>
        /\ \A q \in Req : InFlight(q)' => InFlight(q)
    BY <1>4 DEF LoginLookup, RefreshFind, At, Answer, Goto, InFlight, TypeOK
  <2>2. \/ UNCHANGED pair
        \/ \E i : pair' = [pair EXCEPT ![r] = GenerateRefreshToken(i)]
    BY <1>4 DEF LoginLookup, RefreshFind
  <2> QED
    BY <2>1, <2>2 DEF TokenFlow, TypeOK, GenerateRefreshToken
<1>5. ASSUME NEW r \in Req,
             \/ ReadFails(r) \/ RegisterLookup(r) \/ RegisterInsert(r)
             \/ RefreshUser(r) \/ LogoutFind(r) \/ RequestReset(r)
             \/ ResetPassword(r)
      PROVE  TokenFlow
  <2>1. /\ UNCHANGED <<now, sessions, pair>>
        /\ \A q \in Req : InFlight(q)' => InFlight(q)
    BY <1>5 DEF ReadFails, Reads, RegisterLookup, RegisterInsert, RefreshUser,
                LogoutFind, RequestReset, ResetPassword, At, Answer, Goto,
                local, InFlight, TypeOK
  <2> QED
    BY <2>1 DEF TokenFlow, TypeOK
<1>6. CASE Crash \/ Tick \/ Finished \/ UNCHANGED vars
  <2>1. /\ now' >= now /\ UNCHANGED <<sessions, pair>>
        /\ \A q \in Req : InFlight(q)' => InFlight(q)
    BY <1>6 DEF Crash, Tick, Finished, vars, local, InFlight, TypeOK
  <2> QED
    BY <2>1 DEF TokenFlow
<1> QED
  BY <1>1, <1>2, <1>3, <1>4, <1>5, <1>6 DEF Next, Serve

\* Once no session and no request in flight holds a token and its second is
\* over, the token is never stored again.
THEOREM SpentTokens == Spec => SpentForGood
<1>1. SafetyInv /\ [Next]_vars =>
        [\A r \in Req : Granted(r) /\ Spent(pair[r]) => Spent(pair[r])']_vars
  <2> SUFFICES ASSUME SafetyInv, [Next]_vars,
                      NEW r \in Req, Granted(r), Spent(pair[r])
               PROVE  Spent(pair[r])'
    OBVIOUS
  <2>1. TokenFlow
    BY TokenFlowKept
  <2>2. /\ pair[r] \in Token /\ pair[r] # None /\ ~InFlight(r)
    BY NoneAssumption
       DEF SafetyInv, TypeOK, ControlInv, DataInv, Granted, InFlight, Status
  <2>3. pair'[r] = pair[r]
    BY <2>1, <2>2 DEF TokenFlow
  <2>4. pair[r].iat < now'
    <3>1. now' \in Nat
      BY NextSafety DEF SafetyInv, TypeOK
    <3> QED
      BY <2>1, <2>2, <3>1 DEF TokenFlow, Spent, SafetyInv, TypeOK, Token
  <2>5. \A s \in sessions' : s.token # pair[r]
    BY <2>1 DEF TokenFlow, Spent
  <2>6. \A q \in Req : InFlight(q)' => pair'[q] # pair[r]
    BY <2>1, <2>2 DEF TokenFlow, Spent, SafetyInv, TypeOK, Token
  <2> QED
    BY <2>3, <2>5, <2>6, <2>4 DEF Spent
<1> QED
  BY <1>1, SafetyInvariant, PTL DEF Spec, SpentForGood

\* A logout answered 200 leaves no session with the token it was sent, also
\* when another request got to the session first.
THEOREM LogoutIsEffective == Spec => LogoutRevokes
<1>1. SafetyInv /\ [Next]_vars =>
        [\A r \in Req : op[r] = "Logout" /\ reply[r] # 200 /\ reply'[r] = 200
           => \A s \in sessions' : s.token # arg[r]]_vars
  <2> SUFFICES ASSUME SafetyInv, [Next]_vars, NEW r \in Req,
                      op[r] = "Logout", reply[r] # 200, reply'[r] = 200
               PROVE  \A s \in sessions' : s.token # arg[r]
    OBVIOUS
  <2> USE DEF SafetyInv
  <2>1. ASSUME NEW q \in Req, q # r, Arrive(q) \/ Refuse(q) \/ Serve(q)
        PROVE  FALSE
    <3>1. reply'[r] = reply[r]
      BY <2>1 DEF Arrive, Refuse, Serve, ReadFails, RegisterLookup,
                  RegisterInsert, LoginLookup, LoginInsert, RefreshUser,
                  RefreshFind, RefreshExpire, RefreshDelete, RefreshCreate,
                  LogoutFind, LogoutDelete, RequestReset, ResetPassword,
                  Goto, Answer, TypeOK
    <3> QED
      BY <3>1
  <2>2. LogoutFind(r) \/ LogoutDelete(r)
    <3>1. ~(Crash \/ Tick \/ Finished \/ UNCHANGED vars)
      BY DEF Crash, Tick, Finished, vars, Aborted, TypeOK
    <3>2. ~(Arrive(r) \/ Refuse(r))
      BY NoneAssumption DEF Arrive, Refuse, At, Goto, ControlInv, AllOps, TypeOK
    <3>3. ~ReadFails(r)
      BY DEF ReadFails, Reads, Answer, ErrorStatus, TypeOK
    <3>4. ~(\/ RegisterLookup(r) \/ RegisterInsert(r) \/ LoginLookup(r)
            \/ LoginInsert(r) \/ RefreshUser(r) \/ RefreshFind(r)
            \/ RefreshExpire(r) \/ RefreshDelete(r) \/ RefreshCreate(r)
            \/ RequestReset(r) \/ ResetPassword(r))
      BY DEF RegisterLookup, RegisterInsert, LoginLookup, LoginInsert,
             RefreshUser, RefreshFind, RefreshExpire, RefreshDelete,
             RefreshCreate, RequestReset, ResetPassword, At, ControlInv
    <3> QED
      BY <2>1, <3>1, <3>2, <3>3, <3>4 DEF Next, Serve
  <2>3. CASE LogoutFind(r)
    BY <2>3 DEF LogoutFind, Goto
  <2>4. CASE LogoutDelete(r)
    <3>1. PICK ok \in BOOLEAN : /\ DeleteSession(ses[r].id, ok)
                                /\ Answer(r, IF ok THEN 200 ELSE 500)
      BY <2>4, Zenon DEF LogoutDelete
    <3>2. ok
      BY <3>1 DEF Answer, TypeOK
    <3>3. \E s \in sessions : s.id = ses[r].id /\ s \notin sessions'
      BY <3>1, <3>2 DEF DeleteSession
    <3>4. sessions' \subseteq sessions
      BY <3>1, DeleteSessionEffect DEF TypeOK
    <3>5. ses[r] # None
      BY <2>4 DEF LogoutDelete, At, DataInv
    <3> QED
      BY <3>3, <3>4, <3>5 DEF RowInv, TokenNamesSession
  <2> QED
    BY <2>2, <2>3, <2>4
<1> QED
  BY <1>1, SafetyInvariant, PTL DEF Spec, LogoutRevokes

-----------------------------------------------------------------------------
(* Quiet behaviours: what holds as long as no database call has failed.     *)

Untouched(r) ==
    /\ pc'[r] = pc[r] /\ reply'[r] = reply[r]
    /\ op'[r] = op[r] /\ arg'[r] = arg[r]
    /\ ses'[r] = ses[r] /\ pair'[r] = pair[r]

\* A step is one request's own, or leaves that request alone.
LEMMA StepOfOne ==
    ASSUME TypeOK, [Next]_vars, NEW r \in Req
    PROVE  \/ Untouched(r)
           \/ Arrive(r) \/ Refuse(r) \/ Serve(r)
           \/ Crash /\ InFlight(r)
<1>1. ASSUME NEW q \in Req, q # r, Arrive(q) \/ Refuse(q)
      PROVE  Untouched(r)
  BY <1>1 DEF Arrive, Refuse, Goto, Answer, local, TypeOK, Untouched
<1>2. ASSUME NEW q \in Req, q # r, Serve(q) PROVE Untouched(r)
  <2>1. CASE \/ ReadFails(q) \/ RegisterLookup(q) \/ RegisterInsert(q)
             \/ RefreshUser(q) \/ RequestReset(q) \/ ResetPassword(q)
    BY <1>2, <2>1 DEF ReadFails, RegisterLookup, RegisterInsert, RefreshUser,
       RequestReset, ResetPassword, Goto, Answer, local, TypeOK, Untouched
  <2>2. CASE LoginLookup(q) \/ RefreshFind(q) \/ LogoutFind(q)
    BY <1>2, <2>2 DEF LoginLookup, RefreshFind, LogoutFind, Goto, Answer,
       TypeOK, Untouched
  <2>3. CASE \/ LoginInsert(q) \/ RefreshExpire(q) \/ RefreshDelete(q)
             \/ RefreshCreate(q) \/ LogoutDelete(q)
    BY <1>2, <2>3 DEF LoginInsert, RefreshExpire, RefreshDelete,
       RefreshCreate, LogoutDelete, Goto, Answer, local, TypeOK, Untouched
  <2> QED
    BY <1>2, <2>1, <2>2, <2>3 DEF Serve
<1>3. CASE Crash
  BY <1>3 DEF Crash, local, TypeOK, Untouched
<1>4. CASE Tick \/ Finished \/ UNCHANGED vars
  BY <1>4 DEF Tick, Finished, vars, local, Untouched
<1> QED
  BY <1>1, <1>2, <1>3, <1>4 DEF Next

\* What a request has done is not undone.
LEMMA Lasting ==
    ASSUME SafetyInv, ProgressInv, [Next]_vars, NEW r \in Req
    PROVE  /\ op[r] # None => op'[r] = op[r] /\ arg'[r] = arg[r]
           /\ pair[r] # None => pair'[r] = pair[r]
           /\ ses[r] # None => ses'[r] = ses[r]
           /\ pc[r] = "done" => Untouched(r)
           /\ Granted(r) => Granted(r)' /\ pair'[r] = pair[r]
<1> USE DEF SafetyInv
<1>1. CASE Untouched(r)
  BY <1>1 DEF Untouched, DataInv, Granted
<1>2. CASE Arrive(r) \/ Refuse(r)
  BY <1>2, NoneAssumption DEF Arrive, Refuse, At, Goto, Answer, local,
     ControlInv, TypeOK, Granted, AllOps
<1>3. CASE Serve(r)
  <2>1. /\ pc[r] # "done" /\ reply[r] = None
        /\ op'[r] = op[r] /\ arg'[r] = arg[r]
    BY <1>3 DEF Serve, ReadFails, Reads, RegisterLookup, RegisterInsert,
       LoginLookup, LoginInsert, RefreshUser, RefreshFind, RefreshExpire,
       RefreshDelete, RefreshCreate, LogoutFind, LogoutDelete, RequestReset,
       ResetPassword, At, local, ControlInv
  <2>2. pair[r] # None => pair'[r] = pair[r]
    BY <1>3 DEF Serve, ReadFails, RegisterLookup, RegisterInsert,
       LoginLookup, LoginInsert, RefreshUser, RefreshFind, RefreshExpire,
       RefreshDelete, RefreshCreate, LogoutFind, LogoutDelete, RequestReset,
       ResetPassword, At, local, ProgressInv
  <2>3. ses[r] # None => ses'[r] = ses[r]
    BY <1>3 DEF Serve, ReadFails, RegisterLookup, RegisterInsert,
       LoginLookup, LoginInsert, RefreshUser, RefreshFind, RefreshExpire,
       RefreshDelete, RefreshCreate, LogoutFind, LogoutDelete, RequestReset,
       ResetPassword, At, local, ProgressInv
  <2> QED
    BY <2>1, <2>2, <2>3, NoneAssumption DEF Granted, Status
<1>4. CASE Crash /\ InFlight(r)
  BY <1>4, NoneAssumption
     DEF Crash, InFlight, local, ControlInv, Granted, Status, TypeOK
<1> QED
  BY <1>1, <1>2, <1>3, <1>4, StepOfOne

\* The tables: rows are stored by the call that is due, and deleted by a
\* request that was sent their token.
LEMMA TableStep ==
    ASSUME SafetyInv, [Next]_vars
    PROVE  /\ now' \in Nat /\ now' >= now
           /\ faults' \in Nat /\ faults' >= faults
           /\ users \subseteq users'
           /\ \A s \in sessions' \ sessions :
                 /\ pc[s.id] \in {"login_insert", "ref_create"}
                 /\ s.token = pair[s.id]
           /\ \A s \in sessions \ sessions' : \E q \in Req :
                 /\ pc[q] \in {"ref_expire", "ref_delete", "out_delete"}
                 /\ pc'[q] # pc[q]
                 /\ op[q] \in {"Refresh", "Logout"} /\ arg[q] = s.token
<1> USE DEF SafetyInv
<1>1. ASSUME NEW r \in Req, Arrive(r) \/ Refuse(r)
      PROVE  UNCHANGED <<now, users, sessions, faults>>
  BY <1>1 DEF Arrive, Refuse
<1>2. ASSUME NEW r \in Req, LoginInsert(r) \/ RefreshCreate(r)
      PROVE  /\ UNCHANGED <<now, users>>
             /\ faults' \in Nat /\ faults' >= faults
             /\ sessions \subseteq sessions'
             /\ \A s \in sessions' \ sessions :
                 /\ pc[s.id] \in {"login_insert", "ref_create"}
                 /\ s.token = pair[s.id]
  <2> DEFINE s(e) == [id |-> r, user |-> e, token |-> pair[r],
                      expiresAt |-> pair[r].iat + RefreshExpiry]
             v(e, t) == [id |-> r, user |-> e, token |-> pair[r],
                         expiresAt |-> t + ResetExpiry]
  <2>1. \E ok \in BOOLEAN :
           \/ CreateSession(s(pair[r].user), ok)
           \/ \E t \in pair[r].iat..now : CreateSession(v(arg[r].user, t), ok)
    BY <1>2, Zenon DEF LoginInsert, RefreshCreate
  <2>2. /\ sessions \subseteq sessions'
        /\ \A x \in sessions' \ sessions : x.id = r /\ x.token = pair[r]
        /\ faults' \in Nat /\ faults' >= faults
    BY <2>1 DEF CreateSession, Fault, NoFault, TypeOK
  <2>3. UNCHANGED <<now, users>> /\ pc[r] \in {"login_insert", "ref_create"}
    BY <1>2 DEF LoginInsert, RefreshCreate, At
  <2> QED
    BY <2>2, <2>3
<1>3. ASSUME NEW r \in Req,
             RefreshExpire(r) \/ RefreshDelete(r) \/ LogoutDelete(r)
      PROVE  /\ UNCHANGED <<now, users>>
             /\ faults' \in Nat /\ faults' >= faults
             /\ sessions' \subseteq sessions
             /\ \A s \in sessions \ sessions' : \E q \in Req :
                 /\ pc[q] \in {"ref_expire", "ref_delete", "out_delete"}
                 /\ pc'[q] # pc[q]
                 /\ op[q] \in {"Refresh", "Logout"} /\ arg[q] = s.token
  <2>1. \E ok \in BOOLEAN : DeleteSession(ses[r].id, ok)
    BY <1>3, Zenon DEF RefreshExpire, RefreshDelete, LogoutDelete
  <2>2. /\ sessions' \subseteq sessions
        /\ \A s \in sessions \ sessions' : s.id = ses[r].id
        /\ faults' \in Nat /\ faults' >= faults
    BY <2>1 DEF DeleteSession, Fault, NoFault, TypeOK
  <2>3. /\ UNCHANGED <<now, users>>
        /\ pc[r] \in {"ref_expire", "ref_delete", "out_delete"}
        /\ pc'[r] # pc[r] /\ ses[r] # None
    BY <1>3 DEF RefreshExpire, RefreshDelete, LogoutDelete, At, Goto, Answer,
       DataInv, TypeOK
  <2>4. \A s \in sessions \ sessions' :
           op[r] \in {"Refresh", "Logout"} /\ arg[r] = s.token
    BY <2>2, <2>3 DEF RowInv
  <2> QED
    BY <2>2, <2>3, <2>4
<1>4. ASSUME NEW r \in Req,
             \/ ReadFails(r) \/ RegisterLookup(r) \/ RegisterInsert(r)
             \/ LoginLookup(r) \/ RefreshUser(r) \/ RefreshFind(r)
             \/ LogoutFind(r) \/ RequestReset(r) \/ ResetPassword(r)
      PROVE  /\ UNCHANGED <<now, sessions>> /\ users \subseteq users'
             /\ faults' \in Nat /\ faults' >= faults
  BY <1>4 DEF ReadFails, RegisterLookup, RegisterInsert, LoginLookup,
     RefreshUser, RefreshFind, LogoutFind, RequestReset, ResetPassword,
     CreateUser, Fault, NoFault, TypeOK
<1>5. CASE Crash \/ Tick \/ Finished \/ UNCHANGED vars
  <2>1. /\ UNCHANGED <<users, sessions, faults>> /\ now' \in {now, now + 1}
    BY <1>5 DEF Crash, Tick, Finished, vars
  <2> QED
    BY <2>1 DEF TypeOK
<1>6. ASSUME NEW r \in Req, Serve(r)
      PROVE  /\ UNCHANGED now /\ users \subseteq users'
             /\ faults' \in Nat /\ faults' >= faults
             /\ \A s \in sessions' \ sessions :
                 /\ pc[s.id] \in {"login_insert", "ref_create"}
                 /\ s.token = pair[s.id]
             /\ \A s \in sessions \ sessions' : \E q \in Req :
                 /\ pc[q] \in {"ref_expire", "ref_delete", "out_delete"}
                 /\ pc'[q] # pc[q]
                 /\ op[q] \in {"Refresh", "Logout"} /\ arg[q] = s.token
  <2>1. CASE LoginInsert(r) \/ RefreshCreate(r)
    BY <1>2, <2>1
  <2>2. CASE RefreshExpire(r) \/ RefreshDelete(r) \/ LogoutDelete(r)
    BY <1>3, <2>2
  <2>3. CASE \/ ReadFails(r) \/ RegisterLookup(r) \/ RegisterInsert(r)
             \/ LoginLookup(r) \/ RefreshUser(r) \/ RefreshFind(r)
             \/ LogoutFind(r) \/ RequestReset(r) \/ ResetPassword(r)
    BY <1>4, <2>3
  <2> QED
    BY <1>6, <2>1, <2>2, <2>3 DEF Serve
<1> QED
  BY <1>1, <1>5, <1>6 DEF Next, TypeOK

LEMMA QuietInit == Init => QuietInv
<1> SUFFICES ASSUME Init PROVE QuietInv
  OBVIOUS
<1> USE NoneAssumption DEF Init
<1>1. ProgressInv /\ SeedInv /\ ReadInv
  BY DEF ProgressInv, SeedInv, ReadInv, AllOps
<1>2. ClosedInv /\ RefusedInv
  BY DEF ClosedInv, RefusedInv, AllOps
<1>3. RefreshTokenLive /\ SoleUseInv
  BY DEF RefreshTokenLive, SoleUseInv, SoleUse, Granted, AllOps
<1> QED
  BY <1>1, <1>2, <1>3 DEF QuietInv

\* A token that arrives was answered before.
LEMMA ArrivingToken ==
    ASSUME SafetyInv, NEW r \in Req, Arrive(r),
           op'[r] \in {"Refresh", "Logout"}, arg'[r].type = "refresh"
    PROVE  \E p \in Req : Granted(p) /\ pair[p] = arg'[r]
<1> USE DEF SafetyInv
<1>0. PICK o \in Ops : \E a \in Bodies(o) :
        op' = [op EXCEPT ![r] = o] /\ arg' = [arg EXCEPT ![r] = a]
  BY Zenon DEF Arrive
<1>1. PICK a \in Bodies(o) :
        op' = [op EXCEPT ![r] = o] /\ arg' = [arg EXCEPT ![r] = a]
  BY <1>0
<1>2. o \in {"Refresh", "Logout"} /\ arg'[r] = a
  BY <1>1 DEF TypeOK
<1>3. a \in Delivered
  BY <1>2 DEF Bodies
<1>4. PICK p \in Req : /\ Granted(p)
                       /\ \/ a = pair[p]
                          \/ a = [pair[p] EXCEPT !.type = "access"]
  BY <1>3 DEF Delivered
<1>5. pair[p] \in Token
  BY <1>4 DEF TypeOK, DataInv
<1>6. a = pair[p]
  BY <1>2, <1>4, <1>5 DEF Token
<1> QED
  BY <1>2, <1>4, <1>6

LEMMA ProgressStep ==
    ASSUME SafetyInv, ProgressInv, [Next]_vars
    PROVE  ProgressInv'
<1> USE DEF SafetyInv
<1> SUFFICES ASSUME NEW r \in Req
    PROVE  /\ pair'[r] # None =>
              pc'[r] \in {"login_insert", "ref_delete", "ref_create", "done"}
           /\ ses'[r] # None =>
              pc'[r] \in {"ref_expire", "ref_delete", "ref_create",
                         "out_delete", "done"}
           /\ op'[r] \in {"Refresh", "Logout"} /\ arg'[r].type = "refresh" =>
                \E p \in Req : Granted(p)' /\ pair'[p] = arg'[r]
  BY DEF ProgressInv
<1>1. /\ pair'[r] # None =>
              pc'[r] \in {"login_insert", "ref_delete", "ref_create", "done"}
      /\ ses'[r] # None =>
              pc'[r] \in {"ref_expire", "ref_delete", "ref_create",
                         "out_delete", "done"}
  <2>1. CASE Untouched(r)
    BY <2>1 DEF Untouched, ProgressInv
  <2>2. CASE Arrive(r) \/ Refuse(r)
    BY <2>2 DEF Arrive, Refuse, At, Answer, local, ControlInv, TypeOK
  <2>3. CASE \/ ReadFails(r) \/ RegisterLookup(r) \/ RegisterInsert(r)
             \/ RefreshUser(r) \/ RequestReset(r) \/ ResetPassword(r)
    BY <2>3 DEF ReadFails, Reads, RegisterLookup, RegisterInsert, RefreshUser,
       RequestReset, ResetPassword, At, Answer, Goto, local, ProgressInv,
       TypeOK
  <2>4. CASE LoginLookup(r) \/ RefreshFind(r) \/ LogoutFind(r)
    BY <2>4 DEF LoginLookup, RefreshFind, LogoutFind, At, Answer, Goto,
       ProgressInv, TypeOK
  <2>5. CASE \/ LoginInsert(r) \/ RefreshExpire(r) \/ RefreshDelete(r)
             \/ RefreshCreate(r) \/ LogoutDelete(r)
    BY <2>5 DEF LoginInsert, RefreshExpire, RefreshDelete, RefreshCreate,
       LogoutDelete, At, Answer, Goto, local, ProgressInv, TypeOK
  <2>6. CASE Crash /\ InFlight(r)
    BY <2>6 DEF Crash
  <2> QED
    BY <2>1, <2>2, <2>3, <2>4, <2>5, <2>6, StepOfOne DEF Serve
<1>2. ASSUME op'[r] \in {"Refresh", "Logout"}, arg'[r].type = "refresh"
      PROVE  \E p \in Req : Granted(p)' /\ pair'[p] = arg'[r]
  <2>1. \E p \in Req : Granted(p) /\ pair[p] = arg'[r]
    <3>1. CASE op[r] # None
      BY <1>2, <3>1, Lasting DEF ProgressInv
    <3>2. CASE op[r] = None
      <4>1. op'[r] # op[r]
        BY <1>2, <3>2, NoneAssumption DEF AllOps
      <4>2. ~Untouched(r) /\ ~Refuse(r) /\ ~Crash
        BY <4>1 DEF Untouched, Refuse, Crash, local
      <4>3. ~Serve(r)
        BY <4>1 DEF Serve, ReadFails, RegisterLookup, RegisterInsert,
           LoginLookup, LoginInsert, RefreshUser, RefreshFind, RefreshExpire,
           RefreshDelete, RefreshCreate, LogoutFind, LogoutDelete,
           RequestReset, ResetPassword, local
      <4>4. Arrive(r)
        BY <4>2, <4>3, StepOfOne
      <4> QED
        BY <1>2, <4>4, ArrivingToken
    <3> QED
      BY <3>1, <3>2
  <2> QED
    BY <2>1, Lasting
<1> QED
  BY <1>1, <1>2

\* Rows are never changed, and ids are not drawn again.
LEMMA ReadStep ==
    ASSUME SafetyInv, ProgressInv, ReadInv, [Next]_vars
    PROVE  ReadInv'
<1> SUFFICES ASSUME NEW r \in Req, ses'[r] # None
             PROVE  /\ \A s \in sessions' : s.id = ses'[r].id => s = ses'[r]
                    /\ pc'[r] = "ref_expire" => ses'[r].expiresAt <= now'
  BY DEF ReadInv
<1>0. now \in Nat /\ now' \in Nat /\ now' >= now
  BY TableStep DEF SafetyInv, TypeOK
<1>1. CASE ses[r] # None
  <2>1. /\ ses'[r] = ses[r] /\ ses[r].expiresAt \in Nat
        /\ pc[ses[r].id] = "done"
    BY <1>1, Lasting DEF SafetyInv, TypeOK, Session, RowInv
  <2>2. \A s \in sessions' : s.id = ses[r].id => s \in sessions
    BY <2>1, TableStep
  <2>3. pc'[r] = "ref_expire" => pc[r] = "ref_expire"
    <3>1. CASE Untouched(r)
      BY <3>1 DEF Untouched
    <3>2. CASE Arrive(r) \/ Refuse(r) \/ (Crash /\ InFlight(r))
      BY <1>1, <3>2 DEF Arrive, Refuse, Crash, At, SafetyInv, ControlInv,
                        TypeOK, Answer
    <3>3. CASE Serve(r)
      <4>1. ~RefreshFind(r)
        BY <1>1 DEF RefreshFind, At, ProgressInv
      <4> QED
        BY <3>3, <4>1 DEF Serve, ReadFails, RegisterLookup, RegisterInsert,
           LoginLookup, LoginInsert, RefreshUser, RefreshExpire,
           RefreshDelete, RefreshCreate, LogoutFind, LogoutDelete,
           RequestReset, ResetPassword, Goto, Answer, SafetyInv, TypeOK
    <3> QED
      BY <3>1, <3>2, <3>3, StepOfOne DEF SafetyInv
  <2> QED
    BY <1>0, <1>1, <2>1, <2>2, <2>3 DEF ReadInv
<1>2. CASE ses[r] = None
  <2>1. RefreshFind(r) \/ LogoutFind(r)
    <3>1. ~Untouched(r) /\ ~Arrive(r) /\ ~Refuse(r) /\ ~Crash
      BY <1>2 DEF Untouched, Arrive, Refuse, Crash, local
    <3>2. Serve(r)
      BY <3>1, StepOfOne DEF SafetyInv
    <3> QED
      BY <1>2, <3>2 DEF Serve, ReadFails, RegisterLookup, RegisterInsert,
         LoginLookup, LoginInsert, RefreshUser, RefreshExpire, RefreshDelete,
         RefreshCreate, LogoutDelete, RequestReset, ResetPassword, local
  <2>2. /\ ses'[r] \in sessions /\ sessions' = sessions /\ now' = now
        /\ pc'[r] = "ref_expire" => now >= ses'[r].expiresAt
    BY <1>2, <2>1
       DEF RefreshFind, LogoutFind, Goto, Answer, SafetyInv, TypeOK
  <2>3. \A s, t \in sessions : s.id = t.id => s = t
    BY DEF SafetyInv, RowInv, TokenNamesSession
  <2>4. ses'[r].expiresAt \in Nat
    BY <2>2 DEF SafetyInv, TypeOK, Session
  <2> QED
    BY <1>0, <2>2, <2>3, <2>4
<1> QED
  BY <1>1, <1>2

\* The session that was found is deleted, and its id, which belongs to a
\* request that is over, is not drawn again.
LEMMA ClosedStep ==
    ASSUME SafetyInv, ProgressInv, ClosedInv, [Next]_vars
    PROVE  ClosedInv'
<1> USE DEF SafetyInv
<1> SUFFICES ASSUME NEW r \in Req, faults' = 0, ses'[r] # None,
                    \/ pc'[r] = "ref_create"
                    \/ pc'[r] = "done" /\ reply'[r] # Aborted,
                    NEW s \in sessions', s.id = ses'[r].id
             PROVE  FALSE
  BY DEF ClosedInv
<1>1. faults = 0
  BY TableStep DEF TypeOK
<1>2. CASE ses[r] = None
  <2>1. RefreshFind(r) \/ LogoutFind(r)
    <3>1. ~Untouched(r) /\ ~Arrive(r) /\ ~Refuse(r) /\ ~Crash
      BY <1>2 DEF Untouched, Arrive, Refuse, Crash, local
    <3>2. ~(\/ ReadFails(r) \/ RegisterLookup(r) \/ RegisterInsert(r)
            \/ LoginLookup(r) \/ LoginInsert(r) \/ RefreshUser(r)
            \/ RefreshExpire(r) \/ RefreshDelete(r) \/ RefreshCreate(r)
            \/ LogoutDelete(r) \/ RequestReset(r) \/ ResetPassword(r))
      BY <1>2 DEF ReadFails, RegisterLookup, RegisterInsert, LoginLookup,
         LoginInsert, RefreshUser, RefreshExpire, RefreshDelete,
         RefreshCreate, LogoutDelete, RequestReset, ResetPassword, local
    <3> QED
      BY <3>1, <3>2, StepOfOne DEF Serve
  <2> QED
    BY <1>2, <2>1 DEF RefreshFind, LogoutFind, Goto, TypeOK
<1>3. CASE ses[r] # None
  <2>1. /\ ses'[r] = ses[r] /\ s \in sessions
    BY <1>3, Lasting, TableStep DEF RowInv
  <2>2. CASE Untouched(r)
    BY <1>1, <1>3, <2>1, <2>2 DEF Untouched, ClosedInv
  <2>3. CASE Arrive(r) \/ Refuse(r)
    BY <1>3, <2>3 DEF Arrive, Refuse, At, ControlInv
  <2>4. CASE Crash /\ InFlight(r)
    BY <2>4 DEF Crash
  <2>5. CASE Serve(r)
    <3>1. \/ RefreshExpire(r) \/ RefreshDelete(r) \/ RefreshCreate(r)
          \/ LogoutDelete(r)
      BY <1>3, <2>5 DEF Serve, ReadFails, Reads, RegisterLookup,
         RegisterInsert, LoginLookup, LoginInsert, RefreshUser, RefreshFind,
         LogoutFind, RequestReset, ResetPassword, At, ProgressInv
    <3>2. CASE RefreshCreate(r)
      BY <1>1, <1>3, <2>1, <3>2 DEF RefreshCreate, At, ClosedInv
    <3>3. CASE RefreshExpire(r) \/ RefreshDelete(r) \/ LogoutDelete(r)
      <4>1. PICK ok \in BOOLEAN : DeleteSession(ses[r].id, ok)
        BY <3>3, Zenon DEF RefreshExpire, RefreshDelete, LogoutDelete
      <4>2. ~Fault
        BY <1>1 DEF Fault
      <4>3. \A t \in sessions' : t.id # ses[r].id
        BY <4>1, <4>2 DEF DeleteSession
      <4> QED
        BY <2>1, <4>3
    <3> QED
      BY <3>1, <3>2, <3>3
  <2> QED
    BY <2>2, <2>3, <2>4, <2>5, StepOfOne
<1> QED
  BY <1>2, <1>3

\* A login is refused only by an equal token, whose signer is another request.
LEMMA RefusedStep ==
    ASSUME SafetyInv, ProgressInv, SeedInv, RefusedInv, [Next]_vars
    PROVE  RefusedInv'
<1> USE DEF SafetyInv
<1> SUFFICES ASSUME NEW r \in Req, NEW u \in Seed, faults' = 0,
                    op'[r] = "Login", Verify(u, arg'[r]), reply'[r] = 500
             PROVE  /\ pair'[r] # None
                    /\ \E q \in Req \ {r} : pair'[q] = pair'[r]
  BY DEF RefusedInv, Verify
<1>1. faults = 0
  BY TableStep DEF TypeOK
<1>2. CASE Untouched(r)
  <2>1. pair[r] # None /\ \E q \in Req \ {r} : pair[q] = pair[r]
    BY <1>1, <1>2 DEF Untouched, RefusedInv, Verify
  <2> QED
    BY <2>1, Lasting
<1>3. CASE Arrive(r) \/ Refuse(r)
  BY <1>3, NoneAssumption DEF Arrive, Refuse, At, Goto, Answer, local, Status,
     AllOps, ControlInv, TypeOK
<1>4. CASE Crash /\ InFlight(r)
  BY <1>4 DEF Crash, Aborted
<1>5. CASE Serve(r)
  <2>1. op[r] = "Login" /\ arg'[r] = arg[r]
    BY <1>5 DEF Serve, ReadFails, RegisterLookup, RegisterInsert,
       LoginLookup, LoginInsert, RefreshUser, RefreshFind, RefreshExpire,
       RefreshDelete, RefreshCreate, LogoutFind, LogoutDelete, RequestReset,
       ResetPassword, local
  <2>2. LoginLookup(r) \/ LoginInsert(r)
    <3>1. ~ReadFails(r)
      BY <1>1 DEF ReadFails, Fault
    <3> QED
      BY <1>5, <2>1, <3>1 DEF Serve, RegisterLookup, RegisterInsert,
         RefreshUser, RefreshFind, RefreshExpire, RefreshDelete,
         RefreshCreate, LogoutFind, LogoutDelete, RequestReset,
         ResetPassword, At, ControlInv
  <2>3. ~LoginLookup(r)
    <3>1. \E v \in users : Verify(v, arg[r])
      BY <2>1 DEF SeedInv
    <3> QED
      BY <3>1, NoneAssumption
         DEF LoginLookup, At, Goto, ControlInv, Status
  <2>4. CASE LoginInsert(r)
    <3>1. PICK ok \in BOOLEAN :
            /\ CreateSession([id |-> r, user |-> pair[r].user,
                              token |-> pair[r],
                              expiresAt |-> pair[r].iat + RefreshExpiry], ok)
            /\ Answer(r, IF ok THEN 200 ELSE 500)
      BY <2>4, Zenon DEF LoginInsert
    <3>2. ~ok
      BY <3>1 DEF Answer, TypeOK
    <3>3. ~Fault
      BY <1>1 DEF Fault
    <3>4. PICK t \in sessions : t.token = pair[r] \/ t.id = r
      BY <3>1, <3>2, <3>3 DEF CreateSession
    <3>5. pc[r] = "login_insert" /\ pair' = pair
      BY <2>4 DEF LoginInsert, At, local
    <3>6. t.id \in Req /\ t.id # r /\ pair[t.id] = pair[r]
      BY <3>4, <3>5 DEF RowInv, TypeOK, Session
    <3> QED
      BY <3>5, <3>6 DEF DataInv
  <2> QED
    BY <2>2, <2>3, <2>4
<1> QED
  BY <1>2, <1>3, <1>4, <1>5, StepOfOne

\* Without a failing call the session of a refresh is stored, or one with an
\* equal token is there; and only who presents the token deletes it.
LEMMA RefreshTokenStep ==
    ASSUME SafetyInv, ProgressInv, RefreshTokenLive, [Next]_vars
    PROVE  RefreshTokenLive'
<1> USE DEF SafetyInv
<1> SUFFICES ASSUME NEW r \in Req, faults' = 0, Granted(r)',
                    ~Presented(pair[r], Req)'
             PROVE  \E s \in sessions' : s.token = pair'[r]
  BY DEF RefreshTokenLive
<1>1. faults = 0
  BY TableStep DEF TypeOK
<1>2. CASE Granted(r)
  <2>1. pair'[r] = pair[r]
    BY <1>2, Lasting
  <2>2. ~Presented(pair[r], Req)
    BY <2>1, Lasting, NoneAssumption DEF Presented, AllOps
  <2>3. PICK s \in sessions : s.token = pair[r]
    BY <1>1, <1>2, <2>2 DEF RefreshTokenLive
  <2>4. s \in sessions'
    BY <2>2, <2>3, TableStep DEF Presented
  <2> QED
    BY <2>1, <2>3, <2>4
<1>3. CASE ~Granted(r)
  <2>1. ~Untouched(r)
    BY <1>3 DEF Untouched, Granted
  <2>2. ~Arrive(r) /\ ~Refuse(r) /\ ~(Crash /\ InFlight(r))
    BY NoneAssumption DEF Arrive, Refuse, Crash, At, Goto, Answer, ControlInv,
       Granted, Status, Aborted, TypeOK
  <2>3. ~(\/ ReadFails(r) \/ RegisterLookup(r) \/ RegisterInsert(r)
          \/ LoginLookup(r) \/ RefreshUser(r) \/ RefreshFind(r)
          \/ RefreshExpire(r) \/ RefreshDelete(r)
          \/ RequestReset(r) \/ ResetPassword(r))
    BY NoneAssumption DEF ReadFails, ErrorStatus, RegisterLookup,
       RegisterInsert, LoginLookup, RefreshUser, RefreshFind, RefreshExpire,
       RefreshDelete, RequestReset, ResetPassword, At, Goto, Answer, local,
       ControlInv, Granted, Status, Aborted, TypeOK
  <2>4. ~(LogoutFind(r) \/ LogoutDelete(r))
    BY DEF LogoutFind, LogoutDelete, At, local, ControlInv, Granted
  <2>5. LoginInsert(r) \/ RefreshCreate(r)
    BY <2>1, <2>2, <2>3, <2>4, StepOfOne DEF Serve
  <2>6. pair' = pair
    BY <2>5 DEF LoginInsert, RefreshCreate, local
  <2>7. ~Fault
    BY <1>1 DEF Fault
  <2>8. CASE LoginInsert(r)
    <3> DEFINE s == [id |-> r, user |-> pair[r].user, token |-> pair[r],
                     expiresAt |-> pair[r].iat + RefreshExpiry]
    <3>1. PICK ok \in BOOLEAN :
            CreateSession(s, ok) /\ Answer(r, IF ok THEN 200 ELSE 500)
      BY <2>8, Zenon DEF LoginInsert
    <3>2. s.token = pair[r]
      OBVIOUS
    <3> HIDE DEF s
    <3>3. ok
      BY <3>1 DEF Answer, TypeOK, Granted
    <3>4. s \in sessions'
      BY <3>1, <3>3, CreateSessionEffect DEF TypeOK
    <3> QED
      BY <2>6, <3>2, <3>4
  <2>9. CASE RefreshCreate(r)
    <3>1. PICK ok \in BOOLEAN, t \in pair[r].iat..now :
            CreateSession([id |-> r, user |-> arg[r].user, token |-> pair[r],
                           expiresAt |-> t + ResetExpiry], ok)
      BY <2>9, Zenon DEF RefreshCreate
    <3> DEFINE s == [id |-> r, user |-> arg[r].user, token |-> pair[r],
                     expiresAt |-> t + ResetExpiry]
    <3>2. CreateSession(s, ok) /\ s.token = pair[r] /\ s.id = r
      BY <3>1
    <3> HIDE DEF s
    <3>3. \A x \in sessions : x.id # r
      BY <2>9 DEF RefreshCreate, At, RowInv
    <3>4. s \in sessions' \/ \E x \in sessions' : x.token = pair[r]
      BY <2>7, <3>2, <3>3 DEF CreateSession
    <3> QED
      BY <2>6, <3>2, <3>4
  <2> QED
    BY <2>5, <2>8, <2>9
<1> QED
  BY <1>2, <1>3

\* A token that only the refresh q presents was presented after it was answered.
LEMMA SoleUseBefore ==
    ASSUME SafetyInv, ProgressInv, [Next]_vars,
           NEW r \in Req, NEW q \in Req, SoleUse(r, q)'
    PROVE  /\ Granted(r) /\ pair'[r] = pair[r] /\ pair[r] \in Token
           /\ faults = 0 /\ op[r] = "Login"
           /\ \/ SoleUse(r, q)
              \/ Arrive(q) /\ ~Presented(pair[r], Req)
<1> USE DEF SafetyInv
<1>1. /\ faults' = 0 /\ op'[r] = "Login" /\ reply'[r] = 200
      /\ op'[q] = "Refresh" /\ arg'[q] = pair'[r] /\ r # q
      /\ ~Presented(pair[r], Req \ {q})'
      /\ \A p \in Req \ {r} : pair'[p] # pair'[r]
  BY DEF SoleUse
<1>2. pair'[r] # None /\ pair'[r].type = "refresh"
  BY <1>1, NextSafety DEF DataInv, Granted
<1>3. \E p \in Req : Granted(p) /\ pair[p] = arg'[q]
  <2>1. CASE op[q] # None
    BY <1>1, <1>2, <2>1, Lasting DEF ProgressInv
  <2>2. CASE op[q] = None
    <3>1. ~Serve(q)
      BY <1>1, <2>2, NoneAssumption DEF Serve, ReadFails, RegisterLookup,
         RegisterInsert, LoginLookup, LoginInsert, RefreshUser, RefreshFind,
         RefreshExpire, RefreshDelete, RefreshCreate, LogoutFind,
         LogoutDelete, RequestReset, ResetPassword, local, AllOps
    <3>2. Arrive(q)
      BY <1>1, <2>2, <3>1, StepOfOne, NoneAssumption
         DEF Untouched, Refuse, Crash, local, AllOps
    <3> QED
      BY <1>1, <1>2, <3>2, ArrivingToken
  <2> QED
    BY <2>1, <2>2
<1>4. Granted(r) /\ pair'[r] = pair[r]
  BY <1>1, <1>3, Lasting
<1>5. pair[r] \in Token /\ pair[r] # None
  BY <1>4, NoneAssumption DEF DataInv, TypeOK
<1>6. faults = 0 /\ op[r] = "Login"
  BY <1>1, <1>4, TableStep, Lasting, NoneAssumption
     DEF TypeOK, Granted, AllOps
<1>7. /\ ~Presented(pair[r], Req \ {q})
      /\ \A p \in Req \ {r} : pair[p] # pair[r]
  BY <1>1, <1>4, <1>5, Lasting, NoneAssumption DEF Presented, AllOps
<1>8. CASE op[q] # None
  <2>1. op[q] = "Refresh" /\ arg[q] = pair[r] /\ reply[r] = 200
    BY <1>1, <1>4, <1>8, Lasting DEF Granted
  <2> QED
    BY <1>4, <1>5, <1>6, <1>7, <2>1 DEF SoleUse
<1>9. CASE op[q] = None
  <2>1. ~Serve(q)
    BY <1>1, <1>9, NoneAssumption DEF Serve, ReadFails, RegisterLookup,
       RegisterInsert, LoginLookup, LoginInsert, RefreshUser, RefreshFind,
       RefreshExpire, RefreshDelete, RefreshCreate, LogoutFind,
       LogoutDelete, RequestReset, ResetPassword, local, AllOps
  <2>2. Arrive(q)
    BY <1>1, <1>9, <2>1, StepOfOne, NoneAssumption
       DEF Untouched, Refuse, Crash, local, AllOps
  <2>3. ~Presented(pair[r], Req)
    BY <1>7, <1>9, NoneAssumption DEF Presented, AllOps
  <2> QED
    BY <1>4, <1>5, <1>6, <2>2, <2>3
<1> QED
  BY <1>8, <1>9

LEMMA SoleUseStep ==
    ASSUME SafetyInv, ProgressInv, SoleUseInv, [Next]_vars
    PROVE  SoleUseInv'
<1> USE DEF SafetyInv
<1> SUFFICES ASSUME NEW r \in Req, NEW q \in Req, SoleUse(r, q)'
    PROVE  /\ pc'[q] \in {"ref_user", "ref_find"} =>
                \E s \in sessions' : /\ s.token = pair'[r]
                                     /\ s.expiresAt >= ExpiryOf(s.token)
           /\ pc'[q] = "ref_expire" \/ reply'[q] = 401 =>
                now' >= ExpiryOf(pair'[r])
  BY DEF SoleUseInv, ExpiryOf
<1>0. faults' = 0
  BY DEF SoleUse
<1>1. /\ Granted(r) /\ pair'[r] = pair[r] /\ pair[r] \in Token
      /\ faults = 0 /\ faults' = 0 /\ op[r] = "Login"
      /\ \/ SoleUse(r, q)
         \/ Arrive(q) /\ ~Presented(pair[r], Req)
  BY <1>0, SoleUseBefore
<1>2. /\ now \in Nat /\ now' \in Nat /\ now' >= now
      /\ ExpiryOf(pair[r]) \in Nat
  BY <1>1, TableStep DEF TypeOK, ExpiryOf, Token
<1>3. CASE Arrive(q) /\ ~Presented(pair[r], Req)
  <2>1. \E s \in sessions : /\ s.token = pair[r]
                            /\ s.expiresAt >= ExpiryOf(s.token)
    BY <1>1, <1>3 DEF LoginTokenLive, Granted
  <2>2. /\ sessions' = sessions /\ reply'[q] = None
        /\ pc'[q] \in {Entry[o] : o \in Ops}
    BY <1>3 DEF Arrive, At, Goto, ControlInv, TypeOK
  <2>3. pc'[q] # "ref_expire"
    BY <2>2 DEF Entry, AllOps
  <2> QED
    BY <1>1, <2>1, <2>2, <2>3, NoneAssumption DEF Status
<1>4. CASE SoleUse(r, q)
  <2>1. /\ op[q] = "Refresh" /\ arg[q] = pair[r]
        /\ \A p \in Req \ {q} :
              ~(op[p] \in {"Refresh", "Logout"} /\ arg[p] = pair[r])
    BY <1>4 DEF SoleUse, Presented
  <2>2. /\ pc[q] \in {"ref_user", "ref_find"} =>
             \E s \in sessions : /\ s.token = pair[r]
                                 /\ s.expiresAt >= ExpiryOf(s.token)
        /\ pc[q] = "ref_expire" \/ reply[q] = 401 => now >= ExpiryOf(pair[r])
    BY <1>4 DEF SoleUseInv
  <2>3. pc[q] \in {"ref_user", "ref_find"} =>
             \E s \in sessions' : /\ s.token = pair[r]
                                  /\ s.expiresAt >= ExpiryOf(s.token)
    <3> SUFFICES ASSUME pc[q] \in {"ref_user", "ref_find"}
                 PROVE  \E s \in sessions' : /\ s.token = pair[r]
                                  /\ s.expiresAt >= ExpiryOf(s.token)
      OBVIOUS
    <3>1. PICK s \in sessions : /\ s.token = pair[r]
                                /\ s.expiresAt >= ExpiryOf(s.token)
      BY <2>2
    <3>2. s \in sessions'
      BY <2>1, <3>1, TableStep
    <3> QED
      BY <3>1, <3>2
  <2>4. CASE Untouched(q)
    BY <1>1, <1>2, <2>2, <2>3, <2>4 DEF Untouched
  <2>5. CASE Arrive(q) \/ Refuse(q)
    BY <2>1, <2>5, NoneAssumption DEF Arrive, Refuse, At, ControlInv, AllOps
  <2>6. CASE Crash /\ InFlight(q)
    BY <2>6 DEF Crash, Aborted
  <2>7. CASE Serve(q)
    <3>1. \/ RefreshUser(q) \/ RefreshFind(q) \/ RefreshExpire(q)
          \/ RefreshDelete(q) \/ RefreshCreate(q)
      <4>1. ~ReadFails(q)
        BY <1>1 DEF ReadFails, Fault
      <4> QED
        BY <2>1, <2>7, <4>1 DEF Serve, RegisterLookup, RegisterInsert,
           LoginLookup, LoginInsert, LogoutFind, LogoutDelete, RequestReset,
           ResetPassword, At, ControlInv
    <3>2. CASE RefreshUser(q)
      <4>1. pc[q] = "ref_user" /\ now' = now /\ reply[q] = None
        BY <3>2 DEF RefreshUser, At, ControlInv
      <4>2. ValidRefreshToken(arg[q]) \/ now >= ExpiryOf(pair[r])
        BY <1>1, <1>2, <2>1 DEF ValidRefreshToken, DataInv
      <4>3. \E u \in users : u.id = arg[q].user
        BY <2>1 DEF DataInv, LoggedIn
      <4> QED
        BY <1>1, <2>3, <3>2, <4>1, <4>2, <4>3, NoneAssumption
           DEF RefreshUser, Goto, Answer, TypeOK, Status
    <3>3. CASE RefreshFind(q)
      <4>1. pc[q] = "ref_find" /\ now' = now /\ reply[q] = None
        BY <3>3 DEF RefreshFind, At, ControlInv
      <4>2. PICK s \in sessions : /\ s.token = pair[r]
                                  /\ s.expiresAt >= ExpiryOf(pair[r])
        BY <2>2, <4>1
      <4>3. \A t \in sessions : t.token = pair[r] => t = s
        BY <4>2 DEF TokenNamesSession
      <4>4. CASE Goto(q, "ref_expire") /\ now >= s.expiresAt
        <5>1. s.expiresAt \in Nat
          BY DEF TypeOK, Session
        <5> QED
          BY <1>1, <1>2, <4>1, <4>2, <4>4, <5>1 DEF Goto, TypeOK
      <4>5. CASE Goto(q, "ref_delete")
        BY <4>1, <4>5, NoneAssumption DEF Goto, TypeOK, Status
      <4> QED
        BY <2>1, <3>3, <4>2, <4>3, <4>4, <4>5 DEF RefreshFind
    <3>4. CASE RefreshExpire(q)
      BY <1>1, <2>2, <3>4 DEF RefreshExpire, At, Answer, TypeOK
    <3>5. CASE RefreshDelete(q)
      BY <3>5, NoneAssumption
         DEF RefreshDelete, At, Goto, ControlInv, TypeOK, Status
    <3>6. CASE RefreshCreate(q)
      BY <3>6 DEF RefreshCreate, Answer, TypeOK
    <3> QED
      BY <3>1, <3>2, <3>3, <3>4, <3>5, <3>6
  <2> QED
    BY <2>4, <2>5, <2>6, <2>7, StepOfOne
<1> QED
  BY <1>1, <1>3, <1>4

LEMMA QuietStep == SafetyInv /\ QuietInv /\ [Next]_vars => QuietInv'
<1> SUFFICES ASSUME SafetyInv, QuietInv, [Next]_vars PROVE QuietInv'
  OBVIOUS
<1> USE DEF QuietInv
<1>1. SeedInv'
  BY TableStep DEF SeedInv
<1> QED
  BY <1>1, ProgressStep, ReadStep, ClosedStep, RefusedStep, RefreshTokenStep,
     SoleUseStep

\* What holds besides the safety invariant in every reachable state.
THEOREM QuietInvariant == Spec => []QuietInv
  BY QuietInit, QuietStep, SafetyInvariant, PTL DEF Spec

\* While no call has failed, the token of a refresh is stored until it is
\* presented, although the handler ignores what CreateSession returns.
THEOREM RefreshTokensLive == Spec => []RefreshTokenLive
<1>1. QuietInv => RefreshTokenLive
  BY DEF QuietInv
<1> QED
  BY <1>1, QuietInvariant, PTL

\* While no call has failed, the session a refresh or a logout has found is
\* gone when it answers, and no later insert brings it back.
THEOREM PresentedSessionsGone == Spec => []PresentedSessionGone
<1>1. QuietInv => PresentedSessionGone
  BY DEF QuietInv, ClosedInv, PresentedSessionGone
<1> QED
  BY <1>1, QuietInvariant, PTL

\* While no call has failed, the one refresh that presents the token of a login
\* is refused only when the token has expired.
THEOREM FirstUsesAccepted == Spec => []FirstUseAccepted
<1>1. QuietInv => FirstUseAccepted
  BY DEF QuietInv, SoleUseInv, SoleUse, FirstUseAccepted
<1> QED
  BY <1>1, QuietInvariant, PTL

\* While no call has failed, a login with the credentials of an account is
\* refused only if another request has signed an equal token.
THEOREM LoginsSucceed == Spec => []LoginSucceeds
<1>1. QuietInv => LoginSucceeds
  BY DEF QuietInv, RefusedInv, LoginSucceeds
<1> QED
  BY <1>1, QuietInvariant, PTL

-----------------------------------------------------------------------------
(* AuthSessions implements SessionStore: every call of a request is a step  *)
(* of the store, an answer without effect, or nothing that is promised.     *)

ViewOf(s) == [token |-> s.token, user |-> s.user, until |-> s.expiresAt]

LEMMA InitImplements == Init => Store!Init
  BY DEF Init, Store!Init, Live

\* Steps between two calls of a request.
LEMMA SilentStep ==
    ASSUME UNCHANGED <<now, users, sessions, op, arg, pair, reply>>
    PROVE  UNCHANGED Store!vars
  BY DEF Live, Store!vars

\* A request that is served has been received and not answered.
LEMMA ServedPending ==
    ASSUME SafetyInv, NEW r \in Req, InFlight(r)
    PROVE  Store!Pending(r)
<1>1. op[r] # None
  BY NoneAssumption
     DEF SafetyInv, TypeOK, ControlInv, InFlight, Steps, AllOps
<1> QED
  BY <1>1 DEF SafetyInv, ControlInv, InFlight, Store!Pending

\* An answer that promises nothing.
LEMMA PlainAnswer ==
    ASSUME SafetyInv, NEW r \in Req, InFlight(r), NEW status,
           Answer(r, status), UNCHANGED <<now, users, sessions, op, arg, pair>>,
           status \in Store!Refusals(r)
    PROVE  Store!NoEffect(r)
<1>1. Live' = Live
  BY DEF Live
<1>2. Store!Answer(r, Store!Refusals(r))
  BY DEF Answer, Store!Answer
<1> QED
  BY <1>1, <1>2, ServedPending DEF Store!NoEffect

LEMMA RefusalsAre ==
    ASSUME NEW r \in Req
    PROVE  /\ op[r] \in {"Register", "Login", "RequestReset"} =>
                 Store!Refusals(r) = {500}
           /\ op[r] = "Refresh" =>
                 Store!Refusals(r) = IF pair[r] = None THEN {401} ELSE {200}
           /\ op[r] = "Logout" =>
                 Store!Refusals(r) = IF \E s \in Live : s.token = arg[r]
                                       THEN {500} ELSE {200, 500}
           /\ op[r] = "ResetPassword" => Store!Refusals(r) = {400}
  BY DEF Store!Refusals

LEMMA ArriveImplements ==
    ASSUME SafetyInv, NEW r \in Req, Arrive(r)
    PROVE  Store!Receive(r)
<1>1. PICK o \in Ops : \E a \in Bodies(o) :
        op' = [op EXCEPT ![r] = o] /\ arg' = [arg EXCEPT ![r] = a]
  BY Zenon DEF Arrive
<1>2. PICK a : arg' = [arg EXCEPT ![r] = a]
  BY <1>1
<1>3. /\ op[r] = None /\ reply[r] = None
      /\ UNCHANGED <<now, users, sessions, pair, reply>>
  BY DEF Arrive, At, Goto, SafetyInv, ControlInv
<1>4. op' = [op EXCEPT ![r] = op'[r]] /\ op'[r] \in AllOps
  BY <1>1 DEF SafetyInv, TypeOK
<1>5. arg' = [arg EXCEPT ![r] = arg'[r]]
  BY <1>2 DEF SafetyInv, TypeOK
<1>6. Live' = Live
  BY <1>3 DEF Live
<1> QED
  BY <1>3, <1>4, <1>5, <1>6 DEF Store!Receive

LEMMA RefuseImplements ==
    ASSUME SafetyInv, NEW r \in Req, Refuse(r)
    PROVE  Store!Refuse(r)
<1>1. /\ op[r] = None /\ reply[r] = None
      /\ UNCHANGED <<now, users, sessions, op, arg, pair>>
  BY DEF Refuse, At, local, SafetyInv, ControlInv
<1>2. Store!Answer(r, {400, 429})
  BY ZenonT(60) DEF Refuse, Answer, Store!Answer
<1>3. Live' = Live
  BY <1>1 DEF Live
<1> QED
  BY <1>1, <1>2, <1>3 DEF Store!Refuse

\* The calls that read and end the request or let it go on.
LEMMA LookupImplements ==
    ASSUME SafetyInv, ProgressInv, NEW r \in Req,
           \/ ReadFails(r) \/ RegisterLookup(r) \/ RefreshUser(r)
           \/ ResetPassword(r)
    PROVE  UNCHANGED Store!vars \/ Store!NoEffect(r)
<1>1. InFlight(r) /\ UNCHANGED <<now, users, sessions, op, arg, pair>>
  BY DEF ReadFails, Reads, RegisterLookup, RefreshUser, ResetPassword, At,
     local, InFlight
<1>2. CASE UNCHANGED reply
  BY <1>1, <1>2, SilentStep
<1>3. CASE RegisterLookup(r) /\ ~UNCHANGED reply
  <2>1. Answer(r, 500) /\ op[r] = "Register"
    BY <1>3 DEF RegisterLookup, At, Goto, SafetyInv, ControlInv
  <2> QED
    BY <1>1, <2>1, PlainAnswer, RefusalsAre
<1>4. CASE RefreshUser(r) /\ ~UNCHANGED reply
  <2>1. Answer(r, 401) /\ op[r] = "Refresh" /\ pair[r] = None
    BY <1>4 DEF RefreshUser, At, Goto, SafetyInv, ControlInv, ProgressInv
  <2> QED
    BY <1>1, <2>1, PlainAnswer, RefusalsAre
<1>5. CASE ResetPassword(r)
  <2>1. Answer(r, 400) /\ op[r] = "ResetPassword"
    BY <1>5 DEF ResetPassword, At, SafetyInv, ControlInv
  <2> QED
    BY <1>1, <2>1, PlainAnswer, RefusalsAre
<1>6. CASE ReadFails(r)
  <2>1. Answer(r, ErrorStatus(r)) /\ pc[r] \in Reads
    BY <1>6 DEF ReadFails
  <2>2. /\ op[r] \in {"Register", "Login", "Refresh", "Logout",
                      "RequestReset"}
        /\ op[r] = "Refresh" => pair[r] = None
    BY <2>1 DEF Reads, SafetyInv, ControlInv, ProgressInv
  <2>3. ErrorStatus(r) \in Store!Refusals(r)
    BY <2>2, RefusalsAre DEF ErrorStatus
  <2> QED
    BY <1>1, <2>1, <2>3, PlainAnswer
<1> QED
  BY <1>2, <1>3, <1>4, <1>5, <1>6

\* Some requests in flight are dropped.
LEMMA AbortImplements ==
    ASSUME SafetyInv, NEW some, some \subseteq {r \in Req : InFlight(r)},
           reply' = [r \in Req |-> IF r \in some THEN Aborted ELSE reply[r]],
           UNCHANGED <<now, users, sessions, op, arg, pair>>
    PROVE  Store!Abort
<1>1. some \in SUBSET {r \in Req : Store!Pending(r)}
  BY ServedPending
<1>2. Live' = Live
  BY DEF Live
<1> QED
  BY <1>1, <1>2 DEF Store!Abort

LEMMA ResetImplements ==
    ASSUME SafetyInv, NEW r \in Req, RequestReset(r)
    PROVE  Store!Abort \/ Store!NoEffect(r)
<1>1. /\ InFlight(r) /\ UNCHANGED <<now, users, sessions, op, arg, pair>>
      /\ op[r] = "RequestReset"
      /\ Answer(r, Aborted) \/ Answer(r, 500)
  BY DEF RequestReset, At, local, InFlight, SafetyInv, ControlInv
<1>2. CASE Answer(r, 500)
  BY <1>1, <1>2, PlainAnswer, RefusalsAre
<1>3. CASE Answer(r, Aborted)
  <2>1. reply' = [q \in Req |-> IF q \in {r} THEN Aborted ELSE reply[q]]
    BY <1>3 DEF Answer, SafetyInv, TypeOK
  <2> QED
    BY <1>1, <2>1, AbortImplements
<1> QED
  BY <1>1, <1>2, <1>3

\* The unique index on the email: an account is inserted if there is none.
LEMMA RegisterImplements ==
    ASSUME SafetyInv, NEW r \in Req, RegisterInsert(r)
    PROVE  Store!Register(r) \/ Store!NoEffect(r)
<1>1. /\ InFlight(r) /\ op[r] = "Register"
      /\ UNCHANGED <<now, sessions, op, arg, pair>>
  BY DEF RegisterInsert, At, local, InFlight, SafetyInv, ControlInv
<1> DEFINE u == [id |-> r, email |-> arg[r].email,
                 password |-> arg[r].password]
<1>2. PICK ok \in BOOLEAN :
        CreateUser(u, ok) /\ Answer(r, IF ok THEN 201 ELSE 500)
  BY Zenon DEF RegisterInsert
<1>3. Live' = Live
  BY <1>1 DEF Live
<1>4. u.email = arg[r].email
  OBVIOUS
<1> HIDE DEF u
<1>5. CASE users' = users \cup {u} /\ \A v \in users : v.email # u.email
  <2>1. Store!Answer(r, {201, 500})
    BY ZenonT(40), <1>2 DEF Answer, Store!Answer
  <2> QED
    BY <1>1, <1>3, <1>4, <1>5, <2>1, ServedPending
       DEF Store!Register, Store!Asked, u
<1>6. CASE users' = users /\ ~ok
  BY <1>1, <1>2, <1>6, PlainAnswer, RefusalsAre
<1>7. \/ users' = users \cup {u} /\ \A v \in users : v.email # u.email
      \/ users' = users /\ ~ok
  BY <1>2 DEF CreateUser
<1> QED
  BY <1>5, <1>6, <1>7

\* The password is checked and the tokens are signed in one step.
LEMMA LoginImplements ==
    ASSUME SafetyInv, ProgressInv, NEW r \in Req, LoginLookup(r)
    PROVE  Store!GrantLogin(r) \/ Store!NoEffect(r)
<1>1. /\ InFlight(r) /\ op[r] = "Login" /\ pair[r] = None
      /\ UNCHANGED <<now, users, sessions, op, arg>>
  BY DEF LoginLookup, At, InFlight, SafetyInv, ControlInv, ProgressInv
<1>2. CASE Answer(r, 500) /\ UNCHANGED pair
  BY <1>1, <1>2, PlainAnswer, RefusalsAre
<1>3. ASSUME NEW u \in users, Verify(u, arg[r]), UNCHANGED reply,
             pair' = [pair EXCEPT ![r] = GenerateRefreshToken(u.id)]
      PROVE  Store!GrantLogin(r)
  <2>1. Live' = Live
    BY <1>1 DEF Live
  <2>2. Store!Grant(r, u.id)
    BY <1>1, <1>3, <2>1 DEF Store!Grant, GenerateRefreshToken
  <2> QED
    BY <1>1, <1>3, <2>2, ServedPending
       DEF Store!GrantLogin, Store!Asked, Verify
<1> QED
  BY <1>2, <1>3 DEF LoginLookup, Goto

\* The inserts: the unique index on the token lets a session in once.
LEMMA OpenImplements ==
    ASSUME SafetyInv, NEW r \in Req, LoginInsert(r) \/ RefreshCreate(r)
    PROVE  Store!Open(r) \/ Store!NoEffect(r)
<1>1. /\ InFlight(r) /\ UNCHANGED <<now, users, op, arg, pair>>
      /\ pair[r] # None
      /\ \/ LoginInsert(r) /\ op[r] = "Login"
         \/ RefreshCreate(r) /\ op[r] = "Refresh" /\ pair[r].user = arg[r].user
  BY DEF LoginInsert, RefreshCreate, At, InFlight, local, SafetyInv,
         ControlInv, DataInv
<1> DEFINE x(t) == [id |-> r, user |-> pair[r].user, token |-> pair[r],
                    expiresAt |-> t + Store!Lifetime(r)]
<1>2. PICK t \in pair[r].iat..now :
        /\ \/ /\ sessions' = sessions \cup {x(t)}
              /\ \A s \in sessions : s.token # pair[r]
           \/ /\ sessions' = sessions
              /\ Answer(r, IF op[r] = "Login" THEN 500 ELSE 200)
        /\ \/ Answer(r, 200)
           \/ op[r] = "Login" /\ Answer(r, 500)
  <2>1. CASE LoginInsert(r) /\ op[r] = "Login"
    <3> DEFINE y == [id |-> r, user |-> pair[r].user, token |-> pair[r],
                     expiresAt |-> pair[r].iat + RefreshExpiry]
    <3>1. x(pair[r].iat) = y /\ y.token = pair[r]
      BY <2>1 DEF Store!Lifetime
    <3>2. PICK ok \in BOOLEAN : /\ CreateSession(y, ok)
                               /\ Answer(r, IF ok THEN 200 ELSE 500)
      BY <2>1, Zenon DEF LoginInsert
    <3>3. pair[r].iat \in pair[r].iat..now
      BY <1>1 DEF SafetyInv, DataInv, TypeOK, Token
    <3> HIDE DEF x, y
    <3>4. \/ /\ sessions' = sessions \cup {y}
             /\ \A s \in sessions : s.token # y.token
          \/ sessions' = sessions /\ ~ok
      BY <3>2 DEF CreateSession
    <3> QED
      BY <2>1, <3>1, <3>2, <3>3, <3>4
  <2>2. CASE /\ RefreshCreate(r) /\ op[r] = "Refresh"
             /\ pair[r].user = arg[r].user
    <3>1. PICK ok \in BOOLEAN, t \in pair[r].iat..now :
            CreateSession([id |-> r, user |-> arg[r].user, token |-> pair[r],
                           expiresAt |-> t + ResetExpiry], ok)
      BY <2>2, Zenon DEF RefreshCreate
    <3> DEFINE y == [id |-> r, user |-> arg[r].user, token |-> pair[r],
                     expiresAt |-> t + ResetExpiry]
    <3>2. x(t) = y /\ y.token = pair[r]
      BY <2>2 DEF Store!Lifetime
    <3> HIDE DEF x, y
    <3>3. \/ /\ sessions' = sessions \cup {y}
             /\ \A s \in sessions : s.token # y.token
          \/ sessions' = sessions
      BY <3>1 DEF CreateSession, y
    <3>4. Answer(r, 200)
      BY <2>2 DEF RefreshCreate
    <3> QED
      BY <2>2, <3>2, <3>3, <3>4
  <2> QED
    BY <1>1, <2>1, <2>2
<1>3. ViewOf(x(t)) = [token |-> pair[r], user |-> pair[r].user,
                      until |-> t + Store!Lifetime(r)]
  BY DEF ViewOf
<1> HIDE DEF x
<1>4. CASE sessions' = sessions \cup {x(t)} /\ \A s \in sessions : s.token # pair[r]
  <2>1. Live' = Live \cup {ViewOf(x(t))}
    BY <1>4 DEF Live, ViewOf
  <2>2. \A s \in Live : s.token # pair[r]
    BY <1>3, <1>4 DEF Live
  <2>3. Store!Answer(r, IF op[r] = "Login" THEN {200, 500} ELSE {200})
    BY <1>1, <1>2 DEF Answer, Store!Answer
  <2> QED
    BY <1>1, <1>3, <2>1, <2>2, <2>3, ServedPending
       DEF Store!Open, Store!Asked
<1>5. CASE /\ sessions' = sessions
           /\ Answer(r, IF op[r] = "Login" THEN 500 ELSE 200)
  BY <1>1, <1>5, PlainAnswer, RefusalsAre
<1> QED
  BY <1>2, <1>4, <1>5

\* A session is found by the token and granted the next one, or has expired.
LEMMA RefreshImplements ==
    ASSUME SafetyInv, ProgressInv, NEW r \in Req, RefreshFind(r)
    PROVE  \/ UNCHANGED Store!vars
           \/ Store!GrantRefresh(r) \/ Store!NoEffect(r)
<1>1. /\ InFlight(r) /\ op[r] = "Refresh" /\ pair[r] = None
      /\ UNCHANGED <<now, users, sessions, op, arg>>
  BY DEF RefreshFind, At, InFlight, SafetyInv, ControlInv, ProgressInv
<1>2. CASE Answer(r, 401) /\ UNCHANGED pair
  BY <1>1, <1>2, PlainAnswer, RefusalsAre
<1>3. CASE UNCHANGED <<reply, pair>>
  BY <1>1, <1>3, SilentStep
<1>4. ASSUME NEW s \in sessions, s.token = arg[r], now <= s.expiresAt,
             UNCHANGED reply,
             pair' = [pair EXCEPT ![r] = GenerateRefreshToken(arg[r].user)]
      PROVE  Store!GrantRefresh(r)
  <2>1. Live' = Live
    BY <1>1 DEF Live
  <2>2. s.user = arg[r].user
    BY <1>4 DEF SafetyInv, TokenNamesSession
  <2>3. Store!Grant(r, s.user)
    BY <1>1, <1>4, <2>1, <2>2 DEF Store!Grant, GenerateRefreshToken
  <2> DEFINE v == ViewOf(s)
  <2>4. v \in Live /\ v.token = arg[r] /\ now <= v.until /\ v.user = s.user
    BY <1>4 DEF Live, ViewOf
  <2> HIDE DEF v
  <2> QED
    BY <1>1, <2>3, <2>4, ServedPending DEF Store!GrantRefresh, Store!Asked
<1> QED
  BY <1>2, <1>3, <1>4 DEF RefreshFind, Goto

\* A DELETE by the id of a row that was read ends the session of the token
\* that was sent, or finds nothing.
LEMMA CloseEffect ==
    ASSUME SafetyInv, ReadInv, NEW r \in Req, ses[r] # None,
           NEW ok \in BOOLEAN, DeleteSession(ses[r].id, ok)
    PROVE  \/ sessions' = sessions /\ ~ok
           \/ \E s \in Live : /\ s.token = arg[r]
                              /\ s.until = ses[r].expiresAt
                              /\ Live' = Live \ {s}
<1> DEFINE gone == {s \in sessions : s.id = ses[r].id}
<1>1. gone \subseteq {ses[r]}
  BY DEF ReadInv
<1>2. CASE gone = {} \/ sessions' = sessions
  BY <1>2 DEF DeleteSession
<1>3. CASE gone # {} /\ sessions' # sessions
  <2>1. ses[r] \in sessions /\ sessions' = sessions \ {ses[r]}
    BY <1>1, <1>3 DEF DeleteSession
  <2>2. ses[r].token = arg[r]
    BY DEF SafetyInv, RowInv
  <2>3. \A s \in sessions : ViewOf(s) = ViewOf(ses[r]) => s = ses[r]
    BY <2>1 DEF ViewOf, SafetyInv, TokenNamesSession
  <2>4. Live' = Live \ {ViewOf(ses[r])}
    BY <2>1, <2>3 DEF Live, ViewOf
  <2> DEFINE v == ViewOf(ses[r])
  <2>5. v \in Live /\ v.token = arg[r] /\ v.until = ses[r].expiresAt
    BY <2>1, <2>2 DEF Live, ViewOf
  <2>6. Live' = Live \ {v}
    BY <2>4
  <2> HIDE DEF v
  <2> QED
    BY <2>5, <2>6
<1> QED
  BY <1>2, <1>3

LEMMA CloseImplements ==
    ASSUME SafetyInv, ProgressInv, ReadInv, NEW r \in Req,
           RefreshExpire(r) \/ RefreshDelete(r) \/ LogoutDelete(r)
    PROVE  \/ UNCHANGED Store!vars
           \/ Store!Close(r) \/ Store!NoEffect(r)
<1>1. /\ InFlight(r) /\ ses[r] # None
      /\ UNCHANGED <<now, users, op, arg, pair>>
  BY DEF RefreshExpire, RefreshDelete, LogoutDelete, At, InFlight, local,
         SafetyInv, DataInv
<1> DEFINE Closed == \E s \in Live : /\ s.token = arg[r]
                                    /\ s.until = ses[r].expiresAt
                                    /\ Live' = Live \ {s}
<1>2. \/ /\ RefreshExpire(r) /\ Answer(r, 401)
         /\ sessions' = sessions \/ Closed
      \/ /\ RefreshDelete(r) /\ UNCHANGED reply
         /\ sessions' = sessions \/ Closed
      \/ /\ LogoutDelete(r)
         /\ \/ sessions' = sessions /\ Answer(r, 500)
            \/ Closed /\ (Answer(r, 200) \/ Answer(r, 500))
  <2> HIDE DEF Closed
  <2>0. ASSUME NEW ok \in BOOLEAN, DeleteSession(ses[r].id, ok)
        PROVE  (sessions' = sessions /\ ~ok) \/ Closed
    BY <1>1, <2>0, CloseEffect DEF Closed
  <2>1. CASE RefreshExpire(r)
    <3>1. PICK ok \in BOOLEAN : DeleteSession(ses[r].id, ok)
      BY <2>1, Zenon DEF RefreshExpire
    <3> QED
      BY <2>0, <2>1, <3>1 DEF RefreshExpire
  <2>2. CASE RefreshDelete(r)
    <3>1. PICK ok \in BOOLEAN : DeleteSession(ses[r].id, ok)
      BY <2>2, Zenon DEF RefreshDelete
    <3> QED
      BY <2>0, <2>2, <3>1 DEF RefreshDelete, Goto
  <2>3. CASE LogoutDelete(r)
    <3>1. PICK ok \in BOOLEAN : /\ DeleteSession(ses[r].id, ok)
                               /\ Answer(r, IF ok THEN 200 ELSE 500)
      BY <2>3, Zenon DEF LogoutDelete
    <3>2. (sessions' = sessions /\ ~ok) \/ Closed
      BY <2>0, <3>1
    <3> QED
      BY <2>3, <3>1, <3>2
  <2> QED
    BY <2>1, <2>2, <2>3
<1>3. /\ RefreshExpire(r) => /\ op[r] = "Refresh" /\ pair[r] = None
                             /\ ses[r].expiresAt <= now
      /\ RefreshDelete(r) => op[r] = "Refresh" /\ pair[r] # None
      /\ LogoutDelete(r) => op[r] = "Logout"
  BY <1>1 DEF RefreshExpire, RefreshDelete, LogoutDelete, At, SafetyInv,
     ControlInv, DataInv, ProgressInv, ReadInv
<1>4. CASE /\ sessions' = sessions
           /\ \/ RefreshDelete(r) /\ UNCHANGED reply
              \/ RefreshExpire(r) /\ Answer(r, 401)
              \/ LogoutDelete(r) /\ Answer(r, 500)
  <2>1. CASE RefreshDelete(r) /\ UNCHANGED reply
    BY <1>1, <1>4, <2>1, SilentStep
  <2>2. CASE RefreshExpire(r) /\ Answer(r, 401)
    BY <1>1, <1>3, <1>4, <2>2, PlainAnswer, RefusalsAre
  <2>3. CASE LogoutDelete(r) /\ Answer(r, 500)
    BY <1>1, <1>3, <1>4, <2>3, PlainAnswer, RefusalsAre
  <2> QED
    BY <1>4, <2>1, <2>2, <2>3
<1>5. CASE Closed
  <2>1. PICK s \in Live : /\ s.token = arg[r]
                          /\ s.until = ses[r].expiresAt
                          /\ Live' = Live \ {s}
    BY <1>5
  <2> HIDE DEF Closed
  <2>2. Store!Pending(r)
    BY <1>1, ServedPending
  <2>3. \/ Store!Asked(r, "Logout") /\ Store!Answer(r, {200, 500})
        \/ /\ Store!Asked(r, "Refresh") /\ pair[r] = None /\ s.until <= now
           /\ Store!Answer(r, {401})
        \/ Store!Asked(r, "Refresh") /\ pair[r] # None /\ UNCHANGED reply
    <3>1. CASE RefreshExpire(r) /\ Answer(r, 401)
      BY <1>3, <2>1, <2>2, <3>1 DEF Store!Asked, Store!Answer, Answer
    <3>2. CASE RefreshDelete(r) /\ UNCHANGED reply
      BY <1>3, <2>2, <3>2 DEF Store!Asked
    <3>3. CASE LogoutDelete(r) /\ (Answer(r, 200) \/ Answer(r, 500))
      BY <1>3, <2>2, <3>3 DEF Store!Asked, Store!Answer, Answer
    <3> QED
      BY <1>2, <3>1, <3>2, <3>3
  <2> QED
    BY <1>1, <2>1, <2>3 DEF Store!Close
<1> HIDE DEF Closed
<1> QED
  BY <1>2, <1>4, <1>5

LEMMA LogoutImplements ==
    ASSUME SafetyInv, NEW r \in Req, LogoutFind(r)
    PROVE  UNCHANGED Store!vars \/ Store!NoEffect(r)
<1>1. /\ InFlight(r) /\ op[r] = "Logout"
      /\ UNCHANGED <<now, users, sessions, op, arg, pair>>
  BY DEF LogoutFind, At, InFlight, SafetyInv, ControlInv
<1>2. CASE UNCHANGED reply
  BY <1>1, <1>2, SilentStep
<1>3. CASE Answer(r, 200) /\ ~\E s \in sessions : s.token = arg[r]
  <2>1. ~\E s \in Live : s.token = arg[r]
    BY <1>3 DEF Live
  <2> QED
    BY <1>1, <1>3, <2>1, PlainAnswer, RefusalsAre
<1> QED
  BY <1>2, <1>3 DEF LogoutFind, Goto

\* Every step is one of the store, or none.
LEMMA NextImplements ==
    SafetyInv /\ QuietInv /\ [Next]_vars => [Store!Next]_Store!vars
<1> SUFFICES ASSUME SafetyInv, QuietInv, [Next]_vars
             PROVE  [Store!Next]_Store!vars
  OBVIOUS
<1>0. ProgressInv /\ ReadInv
  BY DEF QuietInv
<1>1. ASSUME NEW r \in Req, Arrive(r) \/ Refuse(r)
      PROVE  Store!Next
  BY <1>1, ArriveImplements, RefuseImplements DEF Store!Next
<1>2. ASSUME NEW r \in Req, Serve(r)
      PROVE  Store!Next \/ UNCHANGED Store!vars
  <2>1. CASE \/ ReadFails(r) \/ RegisterLookup(r) \/ RefreshUser(r)
             \/ ResetPassword(r) \/ LogoutFind(r)
    <3>1. UNCHANGED Store!vars \/ Store!NoEffect(r)
      BY <1>0, <2>1, LookupImplements, LogoutImplements
    <3> QED
      BY <3>1 DEF Store!Next
  <2>2. CASE RequestReset(r)
    BY <2>2, ResetImplements DEF Store!Next
  <2>3. CASE \/ RegisterInsert(r) \/ LoginLookup(r) \/ LoginInsert(r)
             \/ RefreshCreate(r)
    <3>1. \/ Store!Register(r) \/ Store!GrantLogin(r) \/ Store!Open(r)
          \/ Store!NoEffect(r)
      BY <1>0, <2>3, RegisterImplements, LoginImplements, OpenImplements
    <3> QED
      BY <3>1 DEF Store!Next
  <2>4. CASE \/ RefreshFind(r) \/ RefreshExpire(r) \/ RefreshDelete(r)
             \/ LogoutDelete(r)
    <3>1. \/ UNCHANGED Store!vars
          \/ Store!GrantRefresh(r) \/ Store!Close(r) \/ Store!NoEffect(r)
      BY <1>0, <2>4, RefreshImplements, CloseImplements
    <3> QED
      BY <3>1 DEF Store!Next
  <2> QED
    BY <1>2, <2>1, <2>2, <2>3, <2>4 DEF Serve
<1>3. CASE Crash
  <2> DEFINE some == {r \in Req : InFlight(r)}
  <2>1. reply' = [r \in Req |-> IF r \in some THEN Aborted ELSE reply[r]]
    BY <1>3 DEF Crash
  <2>2. UNCHANGED <<now, users, sessions, op, arg, pair>>
    BY <1>3 DEF Crash, local
  <2> HIDE DEF some
  <2>3. some \subseteq {r \in Req : InFlight(r)}
    BY DEF some
  <2> QED
    BY <2>1, <2>2, <2>3, AbortImplements DEF Store!Next
<1>4. CASE Tick
  <2>1. Store!Tick
    BY <1>4 DEF Tick, Store!Tick, Live, local
  <2> QED
    BY <2>1 DEF Store!Next
<1>5. CASE Finished \/ UNCHANGED vars
  <2>1. UNCHANGED <<now, users, sessions, op, arg, pair, reply>>
    BY <1>5 DEF Finished, vars, local
  <2> QED
    BY <2>1, SilentStep
<1> QED
  BY <1>1, <1>2, <1>3, <1>4, <1>5 DEF Next

\* The handlers of the authentication routes, their calls interleaved with
\* those of all other requests, failing or cut off at any point, implement a
\* store in which a token is granted only to the credentials or the live
\* session of its own account, opens a session at most once, and loses it only
\* to a request that presents it.
THEOREM AuthImplementsStore == Spec => ImplementsStore
<1>1. Init => Store!Init
  BY InitImplements
<1>2. SafetyInv /\ QuietInv /\ [Next]_vars => [Store!Next]_Store!vars
  BY NextImplements
<1> QED
  BY <1>1, <1>2, SafetyInvariant, QuietInvariant, PTL
     DEF Spec, ImplementsStore, Store!Spec

=============================================================================
