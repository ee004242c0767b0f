------------------------ MODULE AccessControlProofs ------------------------
(***************************************************************************)
(* Proofs about AccessControl, for every set of requests and accounts, any *)
(* lifetimes and any bound on the clock.                                   *)
(***************************************************************************)
EXTENDS AccessControl, TLAPS

-----------------------------------------------------------------------------
(* What a step leaves alone.                                               *)

Fixed(q) ==
    /\ pc'[q] = pc[q] /\ reply'[q] = reply[q] /\ req'[q] = req[q]
    /\ began'[q] = began[q] /\ acct'[q] = acct[q] /\ ses'[q] = ses[q]
    /\ grant'[q] = grant[q]

LEMMA AnswerParts ==
    ASSUME TypeOK, NEW r \in Req, NEW status, Answer(r, status)
    PROVE  /\ pc'[r] = "done" /\ reply'[r] = status
           /\ \A q \in Req \ {r} : pc'[q] = pc[q] /\ reply'[q] = reply[q]
  BY DEF TypeOK, Answer

LEMMA GotoParts ==
    ASSUME TypeOK, NEW r \in Req, NEW step, Goto(r, step)
    PROVE  /\ pc'[r] = step /\ reply' = reply
           /\ \A q \in Req \ {r} : pc'[q] = pc[q]
  BY DEF TypeOK, Goto

LEMMA AnswerTypes ==
    ASSUME TypeOK, NEW r \in Req, NEW status \in Status, Answer(r, status)
    PROVE  /\ pc' \in [Req -> Steps \cup {"idle", "done"}]
           /\ reply' \in [Req -> Status \cup {None}]
  BY DEF TypeOK, Answer

LEMMA GotoTypes ==
    ASSUME TypeOK, NEW r \in Req, NEW step \in Steps, Goto(r, step)
    PROVE  /\ pc' \in [Req -> Steps \cup {"idle", "done"}]
           /\ reply' \in [Req -> Status \cup {None}]
  BY DEF TypeOK, Goto

\* The steps that a call may be followed by are steps.
LEMMA StepsAre ==
    /\ {"login_lookup", "ref_user", "auth", "update", "delete", "logout_all",
        "login_insert", "ref_find", "ref_expire", "ref_delete", "ref_create",
        "profile", "profile_list", "create"} \subseteq Steps
    /\ \A o \in AllOps : FirstCall[o] \in Steps
    /\ {200, 201, 401, 403, 404, 500} \subseteq Status
  BY DEF Steps, AllOps, FirstCall, Status

-----------------------------------------------------------------------------
(* Claims.                                                                 *)

LEMMA SignedForUser ==
    ASSUME TypeOK, NEW u \in User
    PROVE  /\ GenerateRefreshToken(u) \in Claims
           /\ GenerateRefreshToken(u) # None
           /\ GenerateRefreshToken(u).type = "refresh"
           /\ GenerateRefreshToken(u).user = u.id
           /\ GenerateRefreshToken(u).role = u.role
           /\ GenerateRefreshToken(u).iat = now
<1>1. GenerateRefreshToken(u) \in Claims
  BY DEF TypeOK, User, GenerateRefreshToken, Claims
<1> QED
  BY <1>1, NoneAssumption DEF GenerateRefreshToken

LEMMA AccessParts ==
    ASSUME NEW t \in Claims
    PROVE  /\ AccessOf(t) \in Claims /\ AccessOf(t).type = "access"
           /\ AccessOf(t).user = t.user /\ AccessOf(t).role = t.role
           /\ AccessOf(t).iat = t.iat
  BY DEF AccessOf, Claims

LEMMA HeldGrows ==
    ASSUME past \subseteq past', NEW u, NEW ro, NEW t1 \in Nat, NEW t2 \in Nat,
           NEW t3 \in Nat, t2 <= t3, Held(u, ro, t1, t2)
    PROVE  Held(u, ro, t1, t3)'
<1>1. PICK t \in t1..t2 : [at |-> t, id |-> u, role |-> ro] \in past
  BY DEF Held
<1>2. t \in t1..t3
  OBVIOUS
<1>3. [at |-> t, id |-> u, role |-> ro] \in past'
  BY <1>1
<1> QED
  BY <1>2, <1>3 DEF Held

\* An account that is there now has its role now.
LEMMA HeldNow ==
    ASSUME SafetyInv, NEW u \in users, NEW t1 \in Nat, t1 <= now
    PROVE  Held(u.id, u.role, t1, now)
<1>1. [at |-> now, id |-> u.id, role |-> u.role] \in past
  BY DEF SafetyInv, PastInv, At2
<1>2. now \in t1..now
  BY DEF SafetyInv, TypeOK
<1> QED
  BY <1>1, <1>2 DEF Held

-----------------------------------------------------------------------------
(* The steps of a request.                                                 *)

LEMMA ArriveIs ==
    ASSUME SafetyInv, NEW r \in Req, Arrive(r)
    PROVE  /\ UNCHANGED <<now, tables, past, acct, ses, grant>>
           /\ pc[r] = "idle" /\ reply' = reply
           /\ req' = [req EXCEPT ![r] = req'[r]] /\ req'[r] \in Request
           /\ req'[r] # None
           /\ began' = [began EXCEPT ![r] = now]
           /\ pc'[r] = FirstCall[req'[r].op] /\ Goto(r, pc'[r])
           /\ req'[r].op \in {"Refresh"} \cup Protected =>
                 req'[r].token \in Delivered
           /\ req'[r].op = "UpdateUser" => req'[r].role \in Roles
<1> USE DEF SafetyInv
<1>0. PICK o \in Ops : \E b \in Bodies(o) :
         /\ req' = [req EXCEPT ![r] = b]
         /\ Goto(r, FirstCall[o])
  BY DEF Arrive
<1>1. PICK b \in Bodies(o) :
         /\ req' = [req EXCEPT ![r] = b]
         /\ Goto(r, FirstCall[o])
  BY <1>0
<1>2. Delivered \subseteq Claims
  <2>1. \A g \in Req : Granted(g) => grant[g] \in Claims
    BY DEF ClaimsInv, Path, TypeOK
  <2> QED
    BY <2>1, AccessParts DEF Delivered
<1>3. /\ b \in Request /\ b.op = o
      /\ o \in {"Refresh"} \cup Protected => b.token \in Delivered
      /\ o = "UpdateUser" => b.role \in Roles
  <2>1. o \in AllOps
    BY OpsAssumption
  <2> QED
    BY <1>2, <2>1 DEF Bodies, Request, AllOps, Protected
<1>4. req'[r] = b /\ pc'[r] = FirstCall[o]
  BY <1>1, GotoParts DEF TypeOK
<1> QED
  BY <1>1, <1>3, <1>4, GotoParts, NoneAssumption DEF Arrive, At

LEMMA ServeCases ==
    ASSUME NEW r, Serve(r)
    PROVE  \/ LoginLookup(r) \/ LoginInsert(r) \/ RefreshUser(r)
           \/ RefreshFind(r) \/ RefreshExpire(r) \/ RefreshDelete(r)
           \/ RefreshCreate(r) \/ Authorize(r) \/ GetProfile(r)
           \/ ListResumes(r) \/ CreateResume(r) \/ UpdateUser(r)
           \/ DeleteUser(r) \/ LogoutAll(r)
  BY DEF Serve

\* The next call of a request, or its answer, and what it has read or signed.
Replied(r) ==
    /\ pc'[r] = "done" /\ reply'[r] \in Status
    /\ reply'[r] = 200 /\ (Asks(r, "Login") \/ Asks(r, "Refresh")) =>
          pc[r] \in {"login_insert", "ref_create"}
    /\ UNCHANGED <<acct, ses, grant>>

Signs(r) ==
    \/ /\ pc[r] = "login_lookup" /\ pc'[r] = "login_insert"
       /\ \E u \in users : grant' = [grant EXCEPT ![r] = GenerateRefreshToken(u)]
       /\ UNCHANGED <<acct, ses>>
    \/ /\ pc[r] = "ref_find" /\ pc'[r] = "ref_delete"
       /\ grant' = [grant EXCEPT ![r] = GenerateRefreshToken(acct[r])]
       /\ UNCHANGED acct
       /\ \E s \in sessions : ses' = [ses EXCEPT ![r] = s]

Reads(r) ==
    /\ UNCHANGED grant
    /\ \/ /\ \/ pc[r] = "ref_user" /\ pc'[r] = "ref_find"
             \/ pc[r] = "profile" /\ pc'[r] = "profile_list"
          /\ \E u \in users : acct' = [acct EXCEPT ![r] = u]
          /\ UNCHANGED ses
       \/ /\ pc[r] = "ref_find" /\ pc'[r] = "ref_expire"
          /\ \E s \in sessions : ses' = [ses EXCEPT ![r] = s]
          /\ UNCHANGED acct

Continues(r) ==
    /\ UNCHANGED <<acct, ses, grant>>
    /\ \/ pc[r] = "ref_delete" /\ pc'[r] = "ref_create"
       \/ /\ pc[r] = "auth" /\ pc'[r] \in {"profile", "create"}
          /\ ~Asks(r, "AdminUsers") /\ Authorize(r)

\* What a step of a request changes of itself and of others.
LEMMA ServeStep ==
    ASSUME SafetyInv, NEW r \in Req, Serve(r)
    PROVE  /\ UNCHANGED <<now, req, began>> /\ past \subseteq past'
           /\ pc[r] \notin {"idle", "done"}
           /\ \A q \in Req \ {r} : pc'[q] = pc[q] /\ reply'[q] = reply[q]
           /\ \/ Replied(r)
              \/ /\ reply' = reply
                 /\ pc'[r] \in Steps \ {"idle", "done"}
                 /\ Signs(r) \/ Reads(r) \/ Continues(r)
<1> USE StepsAre DEF SafetyInv, local, At
<1>1. CASE LoginLookup(r)
  <2>1. /\ UNCHANGED <<now, past, req, began, acct, ses>>
        /\ pc[r] = "login_lookup"
    BY <1>1 DEF LoginLookup
  <2>2. CASE Answer(r, 500) /\ UNCHANGED grant
    BY <2>1, <2>2, AnswerParts DEF Replied, Status
  <2>3. CASE /\ Goto(r, "login_insert")
             /\ \E u \in users :
                   grant' = [grant EXCEPT ![r] = GenerateRefreshToken(u)]
    <3>1. Signs(r)
      BY ZenonT(60), <2>1, <2>3, GotoParts DEF Signs
    <3> QED
      BY <2>1, <2>3, <3>1, GotoParts
  <2> QED
    BY <1>1, <2>2, <2>3 DEF LoginLookup
<1>2. CASE LoginInsert(r)
  <2>1. /\ UNCHANGED <<now, past, req, began, acct, ses, grant>>
        /\ pc[r] = "login_insert" /\ (Answer(r, 200) \/ Answer(r, 500))
    BY <1>2 DEF LoginInsert
  <2> QED
    BY <2>1, AnswerParts DEF Replied, Status
<1>3. CASE RefreshUser(r)
  <2>1. /\ UNCHANGED <<now, past, req, began, ses, grant>> /\ pc[r] = "ref_user"
    BY <1>3 DEF RefreshUser
  <2>2. CASE Answer(r, 401) /\ UNCHANGED acct
    BY <2>1, <2>2, AnswerParts DEF Replied, Status
  <2>3. CASE /\ Goto(r, "ref_find")
             /\ \E u \in users : acct' = [acct EXCEPT ![r] = u]
    <3>1. Reads(r)
      BY ZenonT(60), <2>1, <2>3, GotoParts DEF Reads
    <3> QED
      BY <2>1, <2>3, <3>1, GotoParts
  <2> QED
    BY <1>3, <2>2, <2>3 DEF RefreshUser
<1>4. CASE RefreshFind(r)
  <2>1. /\ UNCHANGED <<now, past, req, began, acct>> /\ pc[r] = "ref_find"
    BY <1>4 DEF RefreshFind
  <2>2. CASE Answer(r, 401) /\ UNCHANGED <<ses, grant>>
    BY <2>1, <2>2, AnswerParts DEF Replied, Status
  <2>3. CASE /\ Goto(r, "ref_expire") /\ UNCHANGED grant
             /\ \E s \in sessions : ses' = [ses EXCEPT ![r] = s]
    <3>1. Reads(r)
      BY ZenonT(60), <2>1, <2>3, GotoParts DEF Reads
    <3> QED
      BY <2>1, <2>3, <3>1, GotoParts
  <2>4. CASE /\ Goto(r, "ref_delete")
             /\ \E s \in sessions : ses' = [ses EXCEPT ![r] = s]
             /\ grant' = [grant EXCEPT ![r] = GenerateRefreshToken(acct[r])]
    <3>1. Signs(r)
      BY ZenonT(60), <2>1, <2>4, GotoParts DEF Signs
    <3> QED
      BY <2>1, <2>4, <3>1, GotoParts
  <2> QED
    BY <1>4, <2>2, <2>3, <2>4 DEF RefreshFind
<1>5. CASE RefreshExpire(r)
  BY <1>5, AnswerParts DEF RefreshExpire, Replied, Status
<1>6. CASE RefreshDelete(r)
  BY <1>6, GotoParts DEF RefreshDelete, Continues
<1>7. CASE RefreshCreate(r)
  BY <1>7, AnswerParts DEF RefreshCreate, Replied, Status
<1>8. CASE Authorize(r)
  <2>1. /\ UNCHANGED <<now, past, req, began, acct, ses, grant>> /\ pc[r] = "auth"
    BY <1>8 DEF Authorize
  <2>2. CASE \/ Answer(r, 401) \/ Answer(r, 403)
             \/ Answer(r, 200) /\ Asks(r, "AdminUsers")
    <3>1. Asks(r, "AdminUsers") => ~Asks(r, "Login") /\ ~Asks(r, "Refresh")
      BY DEF Asks
    <3> QED
      BY <2>1, <2>2, <3>1, AnswerParts DEF Replied, Status
  <2>3. CASE /\ ~Asks(r, "AdminUsers")
             /\ Goto(r, "profile") \/ Goto(r, "create")
    BY <1>8, <2>1, <2>3, GotoParts DEF Continues
  <2> QED
    BY <1>8, <2>2, <2>3 DEF Authorize
<1>9. CASE GetProfile(r)
  <2>1. /\ UNCHANGED <<now, past, req, began, ses, grant>> /\ pc[r] = "profile"
    BY <1>9 DEF GetProfile
  <2>2. CASE Answer(r, 404) /\ UNCHANGED acct
    BY <2>1, <2>2, AnswerParts DEF Replied, Status
  <2>3. CASE /\ Goto(r, "profile_list")
             /\ \E u \in users : acct' = [acct EXCEPT ![r] = u]
    <3>1. Reads(r)
      BY ZenonT(60), <2>1, <2>3, GotoParts DEF Reads
    <3> QED
      BY <2>1, <2>3, <3>1, GotoParts
  <2> QED
    BY <1>9, <2>2, <2>3 DEF GetProfile
<1>10. CASE ListResumes(r)
  <2>1. ~Asks(r, "Login") /\ ~Asks(r, "Refresh")
    BY <1>10 DEF ListResumes, ClaimsInv, Path, Asks
  <2> QED
    BY <1>10, <2>1, AnswerParts DEF ListResumes, Replied, Status
<1>11. CASE CreateResume(r)
  BY <1>11, AnswerParts DEF CreateResume, Replied, Status
<1>12. CASE UpdateUser(r) \/ DeleteUser(r)
  <2>1. ~Asks(r, "Login") /\ ~Asks(r, "Refresh")
    BY <1>12 DEF UpdateUser, DeleteUser, ClaimsInv, Path, Asks
  <2>2. /\ UNCHANGED <<now, req, began, acct, ses, grant>> /\ past \subseteq past'
        /\ pc[r] \in {"update", "delete"} /\ (Answer(r, 200) \/ Answer(r, 404))
    BY <1>12 DEF UpdateUser, DeleteUser
  <2> QED
    BY <2>1, <2>2, AnswerParts DEF Replied, Status
<1>13. CASE LogoutAll(r)
  BY <1>13, AnswerParts DEF LogoutAll, Replied, Status
<1> QED
  BY <1>1, <1>2, <1>3, <1>4, <1>5, <1>6, <1>7, <1>8, <1>9, <1>10, <1>11,
     <1>12, <1>13, ServeCases

\* What a step does to the tables.
LEMMA ServeTables ==
    ASSUME SafetyInv, NEW r \in Req, Serve(r)
    PROVE  /\ \/ UNCHANGED <<users, past>>
              \/ /\ UserExists(req[r].user) /\ req[r].user \in Account
                 /\ req[r].role \in Roles
                 /\ users' = {u \in users : u.id # req[r].user}
                               \cup {[id |-> req[r].user, role |-> req[r].role]}
                 /\ past' = past \cup At2(now, users')
                 /\ UNCHANGED <<sessions, resumes>>
              \/ /\ past' \in {past, past \cup At2(now, users)}
                 /\ \/ users' = users /\ UNCHANGED <<sessions, resumes>>
                    \/ /\ users' = {u \in users : u.id # req[r].user}
                       /\ sessions' = {s \in sessions : s.user # req[r].user}
                       /\ resumes' = {c \in resumes : c.owner # req[r].user}
           /\ \/ sessions' \subseteq sessions
              \/ \E s \in Session : sessions' = sessions \cup {s} /\ UserExists(s.user)
                                      /\ users' = users
           /\ \/ resumes' \subseteq resumes
              \/ \E i \in Account : /\ UserExists(i) /\ users' = users
                                     /\ resumes' = resumes \cup
                                          {[id |-> r, owner |-> i]}
<1> USE DEF SafetyInv, tables, At
<1>1. CASE LoginInsert(r)
  <2>1. grant[r] \in Claims /\ grant[r].iat + RefreshExpiry \in Nat
    BY <1>1, ExpiryAssumption DEF LoginInsert, ClaimsInv, Path, TypeOK, Claims
  <2> DEFINE s == [id |-> r, user |-> grant[r].user, token |-> grant[r],
                   expiresAt |-> grant[r].iat + RefreshExpiry]
  <2>2. s \in Session
    BY <2>1 DEF Session, Claims
  <2>3. PICK ok \in BOOLEAN : CreateSession(s, ok)
    BY <1>1 DEF LoginInsert
  <2>4. UNCHANGED <<users, resumes, past>>
    BY <1>1 DEF LoginInsert
  <2> HIDE DEF s
  <2>5. sessions' = sessions \/ (sessions' = sessions \cup {s} /\ UserExists(s.user))
    BY <2>3 DEF CreateSession, UserExists
  <2> QED
    BY <2>2, <2>4, <2>5
<1>2. CASE RefreshCreate(r)
  <2>1. PICK ok \in BOOLEAN, t \in grant[r].iat..now :
          CreateSession([id |-> r, user |-> grant[r].user, token |-> grant[r],
                         expiresAt |-> t + ResetExpiry], ok)
    BY <1>2, Zenon DEF RefreshCreate
  <2> DEFINE s == [id |-> r, user |-> grant[r].user, token |-> grant[r],
                   expiresAt |-> t + ResetExpiry]
  <2>2. grant[r] \in Claims /\ t + ResetExpiry \in Nat
    BY <1>2, ExpiryAssumption DEF RefreshCreate, ClaimsInv, Path, TypeOK, Claims
  <2>3. s \in Session /\ CreateSession(s, ok)
    BY <2>1, <2>2 DEF Session, Claims
  <2>4. UNCHANGED <<users, resumes, past>>
    BY <1>2 DEF RefreshCreate
  <2> HIDE DEF s
  <2>5. sessions' = sessions \/ (sessions' = sessions \cup {s} /\ UserExists(s.user))
    BY <2>3 DEF CreateSession, UserExists
  <2> QED
    BY <2>3, <2>4, <2>5
<1>3. CASE CreateResume(r)
  <2>1. req[r].token.user \in Account \/ ~UserExists(req[r].token.user)
    BY DEF UserExists, TypeOK, User
  <2> QED
    BY <1>3, <2>1 DEF CreateResume
<1>4. CASE UpdateUser(r)
  <2>1. UserExists(req[r].user) => req[r].user \in Account
    BY DEF UserExists, TypeOK, User
  <2>2. UserExists(req[r].user) => req[r].role \in Roles
    BY <1>4 DEF UpdateUser, ClaimsInv, Path, TypeOK
  <2> QED
    BY <1>4, <2>1, <2>2 DEF UpdateUser
<1>5. CASE DeleteUser(r)
  BY <1>5 DEF DeleteUser
<1>6. CASE RefreshExpire(r) \/ RefreshDelete(r)
  BY <1>6 DEF RefreshExpire, RefreshDelete, DeleteSession
<1> QED
  BY <1>1, <1>2, <1>3, <1>4, <1>5, <1>6, ServeCases
     DEF LoginLookup, RefreshUser, RefreshFind, Authorize, GetProfile,
         ListResumes, LogoutAll

-----------------------------------------------------------------------------
(* Types and tables.                                                       *)

LEMMA ArriveTypes ==
    ASSUME SafetyInv, NEW r \in Req, Arrive(r)
    PROVE  TypeOK'
<1> USE DEF SafetyInv
<1>1. /\ UNCHANGED <<now, users, sessions, resumes, past, acct, ses, grant, reply>>
      /\ req' \in [Req -> Request \cup {None}]
      /\ began' \in [Req -> 0..MaxTime]
  BY ArriveIs DEF TypeOK, tables
<1>2. pc' \in [Req -> Steps \cup {"idle", "done"}]
  <2>1. pc'[r] \in Steps
    BY ArriveIs, StepsAre DEF Request
  <2> QED
    BY <2>1, ArriveIs, GotoTypes
<1> QED
  BY <1>1, <1>2 DEF TypeOK

LEMMA ServeTypes ==
    ASSUME SafetyInv, NEW r \in Req, Serve(r)
    PROVE  TypeOK'
<1> USE DEF SafetyInv
<1>1. UNCHANGED <<now, req, began>>
  BY ServeStep
<1>2. users' \subseteq User
  BY ServeTables DEF TypeOK, User
<1>3. sessions' \subseteq Session
  BY ServeTables DEF TypeOK
<1>4. resumes' \subseteq [id : Req, owner : Account]
  BY ServeTables DEF TypeOK
<1>5. past' \subseteq [at : 0..MaxTime, id : Account, role : Roles]
  <2>1. \A rows : rows \subseteq User =>
           At2(now, rows) \subseteq [at : 0..MaxTime, id : Account, role : Roles]
    BY DEF At2, User, TypeOK
  <2>2. \/ past' = past \/ past' = past \cup At2(now, users)
        \/ past' = past \cup At2(now, users')
    BY ServeTables
  <2> QED
    BY <1>2, <2>1, <2>2 DEF TypeOK
<1>6. /\ acct' \in [Req -> User \cup {None}] /\ ses' \in [Req -> Session \cup {None}]
      /\ grant' \in [Req -> Claims \cup {None}]
  <2>1. CASE Signs(r)
    <3>1. \A u \in users : GenerateRefreshToken(u) \in Claims
      BY SignedForUser DEF TypeOK
    <3>2. pc[r] = "ref_find" => GenerateRefreshToken(acct[r]) \in Claims
      BY SignedForUser DEF TypeOK, ClaimsInv, Path
    <3> QED
      BY <2>1, <3>1, <3>2 DEF Signs, TypeOK
  <2>2. CASE Reads(r)
    BY <2>2 DEF Reads, TypeOK
  <2> QED
    BY <2>1, <2>2, ServeStep DEF Replied, Continues, TypeOK
<1>7. /\ pc' \in [Req -> Steps \cup {"idle", "done"}]
      /\ reply' \in [Req -> Status \cup {None}]
  <2>1. \/ \E status \in Status : Answer(r, status)
        \/ \E step \in Steps : Goto(r, step)
    <3>1. CASE LoginLookup(r) \/ LoginInsert(r) \/ RefreshUser(r)
      BY <3>1, StepsAre DEF LoginLookup, LoginInsert, RefreshUser
    <3>2. CASE RefreshFind(r) \/ RefreshExpire(r)
      BY <3>2, StepsAre DEF RefreshFind, RefreshExpire
    <3>3. CASE RefreshDelete(r) \/ RefreshCreate(r) \/ GetProfile(r)
      BY <3>3, StepsAre DEF RefreshDelete, RefreshCreate, GetProfile
    <3>4. CASE Authorize(r)
      BY <3>4, StepsAre DEF Authorize
    <3>5. CASE ListResumes(r) \/ CreateResume(r) \/ LogoutAll(r)
      BY <3>5, StepsAre DEF ListResumes, CreateResume, LogoutAll
    <3>6. CASE UpdateUser(r) \/ DeleteUser(r)
      BY <3>6, StepsAre DEF UpdateUser, DeleteUser
    <3> QED
      BY <3>1, <3>2, <3>3, <3>4, <3>5, <3>6, ServeCases
  <2> QED
    BY <2>1, AnswerTypes, GotoTypes
<1> QED
  BY <1>1, <1>2, <1>3, <1>4, <1>5, <1>6, <1>7 DEF TypeOK

LEMMA TickTypes ==
    ASSUME SafetyInv, Tick
    PROVE  TypeOK'
<1>1. now' \in 0..MaxTime /\ MaxTime \in Nat
  BY ExpiryAssumption DEF Tick, SafetyInv, TypeOK
<1>2. At2(now', users) \subseteq [at : 0..MaxTime, id : Account, role : Roles]
  BY <1>1 DEF At2, User, SafetyInv, TypeOK
<1>3. UNCHANGED <<users, sessions, resumes, pc, req, began, acct, ses, grant,
                  reply>> /\ past' = past \cup At2(now', users)
  BY DEF Tick, tables, local
<1> QED
  BY <1>1, <1>2, <1>3 DEF SafetyInv, TypeOK

\* RowsOfAccounts after a step.
LEMMA RowsAre ==
    ASSUME \A s \in sessions' : \E u \in users' : u.id = s.user,
           \A c \in resumes' : \E u \in users' : u.id = c.owner,
           \A u, v \in users' : u.id = v.id => u = v
    PROVE  RowsOfAccounts'
  BY DEF RowsOfAccounts, UserExists

LEMMA ServeRows ==
    ASSUME SafetyInv, NEW r \in Req, Serve(r)
    PROVE  RowsOfAccounts' /\ PastInv'
<1>1. now' = now
  BY ServeStep
<1>2. PastInv'
  <2>1. \A rows : {u \in rows : u.id # req[r].user} \subseteq rows
    OBVIOUS
  <2>2. \A some, rows : some \subseteq rows => At2(now, some) \subseteq At2(now, rows)
    BY DEF At2
  <2> QED
    BY <1>1, <2>1, <2>2, ServeTables DEF SafetyInv, PastInv, At2
<1>3. \A u, v \in users' : u.id = v.id => u = v
  BY ServeTables DEF SafetyInv, RowsOfAccounts
<1>4. CASE UNCHANGED users
  <2>1. \A i : UserExists(i) => \E u \in users' : u.id = i
    BY <1>4 DEF UserExists
  <2>2. \A s \in sessions' : UserExists(s.user)
    BY ServeTables DEF SafetyInv, RowsOfAccounts
  <2>3. \A c \in resumes' : UserExists(c.owner)
    BY ServeTables DEF SafetyInv, RowsOfAccounts
  <2>4. \A s \in sessions' : \E u \in users' : u.id = s.user
    BY <2>1, <2>2
  <2>5. \A c \in resumes' : \E u \in users' : u.id = c.owner
    BY <2>1, <2>3
  <2> QED
    BY <1>2, <1>3, <2>4, <2>5, RowsAre
<1>5. CASE /\ UserExists(req[r].user)
           /\ users' = {u \in users : u.id # req[r].user}
                         \cup {[id |-> req[r].user, role |-> req[r].role]}
           /\ UNCHANGED <<sessions, resumes>>
  <2>1. ASSUME NEW i, UserExists(i)
        PROVE  \E u \in users' : u.id = i
    <3>1. CASE i = req[r].user
      <4>1. [id |-> req[r].user, role |-> req[r].role] \in users'
        BY <1>5
      <4> QED
        BY <3>1, <4>1
    <3>2. CASE i # req[r].user
      BY <1>5, <2>1, <3>2 DEF UserExists
    <3> QED
      BY <3>1, <3>2
  <2>2. /\ \A s \in sessions' : UserExists(s.user)
        /\ \A c \in resumes' : UserExists(c.owner)
    BY <1>5 DEF SafetyInv, RowsOfAccounts
  <2>3. \A s \in sessions' : \E u \in users' : u.id = s.user
    BY <2>1, <2>2
  <2>4. \A c \in resumes' : \E u \in users' : u.id = c.owner
    BY <2>1, <2>2
  <2> QED
    BY <1>2, <1>3, <2>3, <2>4, RowsAre
<1>6. CASE /\ users' = {u \in users : u.id # req[r].user}
           /\ sessions' = {s \in sessions : s.user # req[r].user}
           /\ resumes' = {c \in resumes : c.owner # req[r].user}
  <2>1. \A i : UserExists(i) /\ i # req[r].user => \E u \in users' : u.id = i
    BY <1>6 DEF UserExists
  <2>2. /\ \A s \in sessions' : UserExists(s.user) /\ s.user # req[r].user
        /\ \A c \in resumes' : UserExists(c.owner) /\ c.owner # req[r].user
    BY <1>6 DEF SafetyInv, RowsOfAccounts
  <2>3. \A s \in sessions' : \E u \in users' : u.id = s.user
    BY <2>1, <2>2
  <2>4. \A c \in resumes' : \E u \in users' : u.id = c.owner
    BY <2>1, <2>2
  <2> QED
    BY <1>2, <1>3, <2>3, <2>4, RowsAre
<1> QED
  BY <1>2, <1>4, <1>5, <1>6, ServeTables

-----------------------------------------------------------------------------
(* Claims.                                                                 *)

\* What was granted stays granted, with its claims.
GrantsKept == \A g \in Req : Granted(g) => Granted(g)' /\ grant'[g] = grant[g]

LEMMA ServeKeepsGrants ==
    ASSUME SafetyInv, NEW r \in Req, Serve(r)
    PROVE  GrantsKept /\ \A q \in Req \ {r} : Fixed(q)
<1>1. \A q \in Req \ {r} : Fixed(q)
  BY ServeStep
     DEF Fixed, Replied, Signs, Reads, Continues, SafetyInv, TypeOK
<1>2. ~Granted(r)
  BY ServeStep, NoneAssumption
     DEF SafetyInv, ClaimsInv, Path, Granted, Status
<1> QED
  BY <1>1, <1>2 DEF GrantsKept, Fixed, Granted, Asks

LEMMA ArriveKeepsGrants ==
    ASSUME SafetyInv, NEW r \in Req, Arrive(r)
    PROVE  GrantsKept /\ \A q \in Req \ {r} : Fixed(q)
<1>1. \A q \in Req \ {r} : Fixed(q)
  BY ArriveIs, GotoParts DEF Fixed, SafetyInv, TypeOK
<1>2. ~Granted(r)
  BY ArriveIs, NoneAssumption DEF SafetyInv, ClaimsInv, Path, Granted, Status
<1> QED
  BY <1>1, <1>2 DEF GrantsKept, Fixed, Granted, Asks

\* A request of which nothing changes keeps its claims.
LEMMA ClaimsFixed ==
    ASSUME SafetyInv, NEW q \in Req, Fixed(q), GrantsKept,
           past \subseteq past', now' \in Nat, now <= now'
    PROVE  (Path(q) /\ Signed(q) /\ FromGrant(q))'
<1>1. Path(q) /\ Signed(q) /\ FromGrant(q)
  BY DEF SafetyInv, ClaimsInv
<1>2. /\ pc'[q] = pc[q] /\ reply'[q] = reply[q] /\ req'[q] = req[q]
      /\ began'[q] = began[q] /\ acct'[q] = acct[q] /\ grant'[q] = grant[q]
  BY DEF Fixed
<1>3. Path(q)'
  BY <1>1, <1>2 DEF Path, Asks, Granted
<1>4. Signed(q)'
  <2>1. now \in Nat /\ began[q] \in Nat
    BY DEF SafetyInv, TypeOK
  <2>2. pc[q] = "ref_find" =>
           \E t \in began[q]..now' :
              [at |-> t, id |-> acct[q].id, role |-> acct[q].role] \in past'
    <3> SUFFICES ASSUME pc[q] = "ref_find"
                 PROVE  \E t \in began[q]..now' :
                           [at |-> t, id |-> acct[q].id, role |-> acct[q].role]
                              \in past'
      OBVIOUS
    <3>1. PICK t \in began[q]..now :
             [at |-> t, id |-> acct[q].id, role |-> acct[q].role] \in past
      BY <1>1 DEF Signed, Held
    <3> QED
      BY <2>1, <3>1
  <2>3. grant[q] # None =>
           /\ grant[q].type = "refresh" /\ grant[q].iat <= now'
           /\ \E t \in began[q]..grant[q].iat :
                 [at |-> t, id |-> grant[q].user, role |-> grant[q].role]
                    \in past'
    <3> SUFFICES ASSUME grant[q] # None
                 PROVE  /\ grant[q].type = "refresh" /\ grant[q].iat <= now'
                        /\ \E t \in began[q]..grant[q].iat :
                              [at |-> t, id |-> grant[q].user,
                               role |-> grant[q].role] \in past'
      OBVIOUS
    <3>1. PICK t \in began[q]..grant[q].iat :
             [at |-> t, id |-> grant[q].user, role |-> grant[q].role] \in past
      BY <1>1 DEF Signed, Truthful, Held
    <3>2. grant[q].iat \in Nat
      BY DEF SafetyInv, TypeOK, Claims
    <3> QED
      BY <1>1, <2>1, <3>1, <3>2 DEF Signed
  <2>4. began[q] <= now'
    BY <1>1, <2>1 DEF Signed
  <2> QED
    BY <1>2, <2>2, <2>3, <2>4 DEF Signed, Truthful, Held
<1>5. FromGrant(q)'
  BY <1>1, <1>2 DEF FromGrant, GrantsKept
<1> QED
  BY <1>3, <1>4, <1>5

LEMMA ArriveClaims ==
    ASSUME SafetyInv, NEW r \in Req, Arrive(r)
    PROVE  ClaimsInv'
<1>1. now' = now /\ past' = past /\ now \in Nat
  BY ArriveIs DEF SafetyInv, TypeOK
<1>2. GrantsKept /\ \A q \in Req \ {r} : Fixed(q)
  BY ArriveKeepsGrants
<1>3. ASSUME NEW q \in Req, q # r
      PROVE  (Path(q) /\ Signed(q) /\ FromGrant(q))'
  BY <1>1, <1>2, <1>3, ClaimsFixed
<1>4. /\ grant'[r] = None /\ acct'[r] = None /\ reply'[r] = None
      /\ began'[r] = now /\ req'[r] # None
  BY ArriveIs DEF SafetyInv, ClaimsInv, Path, TypeOK
<1>5. Path(r)'
  <2>1. req'[r].op \in AllOps /\ pc'[r] = FirstCall[req'[r].op]
    BY ArriveIs DEF Request
  <2>2. \/ req'[r].op = "Login" /\ pc'[r] = "login_lookup"
        \/ req'[r].op = "Refresh" /\ pc'[r] = "ref_user"
        \/ req'[r].op \in Protected /\ pc'[r] = "auth"
        \/ req'[r].op = "UpdateUser" /\ pc'[r] = "update"
        \/ req'[r].op = "DeleteUser" /\ pc'[r] = "delete"
        \/ req'[r].op = "LogoutAll" /\ pc'[r] = "logout_all"
    BY <2>1 DEF AllOps, FirstCall, Protected
  <2>3. ~Granted(r)'
    BY <1>4, NoneAssumption DEF Granted, Status
  <2> QED
    BY <1>4, <2>2, <2>3, ArriveIs DEF Path, Asks
<1>6. Signed(r)'
  <2>1. pc'[r] # "ref_find"
    BY ArriveIs DEF Request, AllOps, FirstCall
  <2> QED
    BY <1>1, <1>4, <2>1 DEF Signed
<1>7. FromGrant(r)'
  <2>1. req'[r].op \in {"Refresh"} \cup Protected =>
           \E g \in Req : Granted(g) /\ req'[r].token \in {grant[g], AccessOf(grant[g])}
    BY ArriveIs DEF Delivered
  <2> QED
    BY <1>2, <2>1 DEF FromGrant, GrantsKept
<1> QED
  BY <1>3, <1>5, <1>6, <1>7 DEF ClaimsInv

LEMMA ServeClaims ==
    ASSUME SafetyInv, NEW r \in Req, Serve(r)
    PROVE  ClaimsInv'
<1>1. now' = now /\ past \subseteq past' /\ now \in Nat /\ req' = req
      /\ began' = began
  BY ServeStep DEF SafetyInv, TypeOK
<1>2. GrantsKept /\ \A q \in Req \ {r} : Fixed(q)
  BY ServeKeepsGrants
<1>3. ASSUME NEW q \in Req, q # r
      PROVE  (Path(q) /\ Signed(q) /\ FromGrant(q))'
  BY <1>1, <1>2, <1>3, ClaimsFixed
<1>4. Path(r) /\ Signed(r) /\ FromGrant(r) /\ began[r] \in Nat
  BY DEF SafetyInv, ClaimsInv, TypeOK
<1>5. FromGrant(r)'
  BY <1>1, <1>2, <1>4 DEF FromGrant, GrantsKept
<1>6. CASE Replied(r)
  <2>1. acct'[r] = acct[r] /\ grant'[r] = grant[r] /\ pc'[r] = "done"
    BY <1>6 DEF Replied
  <2>2. Granted(r)' => grant'[r] # None
    BY <1>1, <1>4, <1>6, <2>1 DEF Replied, Granted, Asks, Path
  <2>3. Path(r)'
    BY <2>1, <2>2 DEF Path
  <2>4. grant[r] # None =>
           \E t \in began[r]..grant[r].iat :
              [at |-> t, id |-> grant[r].user, role |-> grant[r].role] \in past'
    BY <1>1, <1>4 DEF Signed, Truthful, Held
  <2>5. Signed(r)'
    BY <1>1, <1>4, <2>1, <2>4 DEF Signed, Truthful, Held
  <2> QED
    BY <1>3, <1>5, <2>3, <2>5 DEF ClaimsInv
<1>7. CASE /\ reply' = reply /\ pc[r] \notin {"idle", "done"}
           /\ pc'[r] \notin {"idle", "done"}
           /\ Signs(r) \/ Reads(r) \/ Continues(r)
  <2>1. reply'[r] = None /\ ~Granted(r)'
    BY <1>4, <1>7, NoneAssumption DEF Path, Granted, Status
  <2>2. CASE Signs(r)
    <3>1. PICK u \in User : /\ grant'[r] = GenerateRefreshToken(u)
                            /\ Held(u.id, u.role, began[r], now)
      <4>1. CASE pc[r] = "login_lookup"
        <5>1. PICK u \in users :
                 grant' = [grant EXCEPT ![r] = GenerateRefreshToken(u)]
          BY <2>2, <4>1 DEF Signs
        <5>2. grant'[r] = GenerateRefreshToken(u) /\ u \in User
          BY <5>1 DEF SafetyInv, TypeOK
        <5>3. Held(u.id, u.role, began[r], now)
          BY <1>4, HeldNow DEF Signed
        <5> QED
          BY <5>2, <5>3
      <4>2. CASE pc[r] = "ref_find"
        BY <1>4, <2>2, <4>2 DEF Signs, Path, Signed, SafetyInv, TypeOK
      <4> QED
        BY <2>2, <4>1, <4>2 DEF Signs
    <3>2. /\ grant'[r] # None /\ grant'[r].type = "refresh"
          /\ grant'[r].user = u.id /\ grant'[r].role = u.role
          /\ grant'[r].iat = now
      BY <3>1, SignedForUser DEF SafetyInv
    <3>3. \E t \in began[r]..now : [at |-> t, id |-> u.id, role |-> u.role] \in past'
      BY <1>1, <3>1 DEF Held
    <3>4. pc'[r] \in {"login_insert", "ref_delete"}
          /\ (pc'[r] = "login_insert" => pc[r] = "login_lookup")
          /\ (pc'[r] = "ref_delete" => pc[r] = "ref_find")
      BY <2>2 DEF Signs
    <3>5. Path(r)'
      BY <1>1, <1>4, <2>1, <3>2, <3>4 DEF Path, Asks
    <3>6. Signed(r)'
      BY <1>1, <1>4, <3>2, <3>3, <3>4 DEF Signed, Truthful, Held
    <3> QED
      BY <1>3, <1>5, <3>5, <3>6 DEF ClaimsInv
  <2>3. CASE Reads(r) \/ Continues(r)
    <3>1. grant' = grant
      BY <2>3 DEF Reads, Continues
    <3>2. \/ pc[r] = "ref_user" /\ pc'[r] = "ref_find"
          \/ pc[r] = "profile" /\ pc'[r] = "profile_list"
          \/ pc[r] = "ref_find" /\ pc'[r] = "ref_expire"
          \/ pc[r] = "ref_delete" /\ pc'[r] = "ref_create"
          \/ /\ pc[r] = "auth" /\ pc'[r] \in {"profile", "create"}
             /\ ~Asks(r, "AdminUsers")
      BY <2>3 DEF Reads, Continues
    <3>3. pc'[r] = "ref_find" =>
             /\ acct'[r] # None
             /\ \E t \in began[r]..now :
                   [at |-> t, id |-> acct'[r].id, role |-> acct'[r].role] \in past'
      <4> SUFFICES ASSUME pc'[r] = "ref_find"
                   PROVE  /\ acct'[r] # None
                          /\ \E t \in began[r]..now :
                                [at |-> t, id |-> acct'[r].id,
                                 role |-> acct'[r].role] \in past'
        OBVIOUS
      <4>1. PICK u \in users : acct' = [acct EXCEPT ![r] = u]
        BY <2>3, <3>2 DEF Reads, Continues
      <4>2. acct'[r] = u /\ u # None
        BY <4>1, NoneAssumption DEF SafetyInv, TypeOK
      <4>3. Held(u.id, u.role, began[r], now)
        BY <1>4, HeldNow DEF Signed
      <4> QED
        BY <1>1, <4>2, <4>3 DEF Held
    <3>4. grant[r] # None =>
             \E t \in began[r]..grant[r].iat :
                [at |-> t, id |-> grant[r].user, role |-> grant[r].role] \in past'
      BY <1>1, <1>4 DEF Signed, Truthful, Held
    <3>5. pc[r] = "auth" /\ ~Asks(r, "AdminUsers") =>
             Asks(r, "Profile") \/ Asks(r, "CreateResume")
      BY <1>4 DEF Path, Asks, Protected
    <3>6. Path(r)'
      BY <1>1, <1>4, <2>1, <3>1, <3>2, <3>3, <3>5 DEF Path, Asks
    <3>7. Signed(r)'
      BY <1>1, <1>4, <3>1, <3>3, <3>4 DEF Signed, Truthful, Held
    <3> QED
      BY <1>3, <1>5, <3>6, <3>7 DEF ClaimsInv
  <2> QED
    BY <1>7, <2>2, <2>3
<1> QED
  BY <1>6, <1>7, ServeStep

LEMMA TickSafety ==
    ASSUME SafetyInv, Tick
    PROVE  SafetyInv'
<1>1. /\ now' = now + 1 /\ now \in Nat /\ past \subseteq past'
      /\ UNCHANGED <<users, sessions, resumes, pc, req, began, acct, ses, grant,
                     reply>>
  BY DEF Tick, tables, local, SafetyInv, TypeOK
<1>2. GrantsKept /\ \A q \in Req : Fixed(q)
  BY <1>1 DEF GrantsKept, Fixed, Granted, Asks
<1>3. ClaimsInv'
  BY <1>1, <1>2, ClaimsFixed DEF ClaimsInv
<1>4. PastInv'
  BY DEF Tick, tables, PastInv, At2
<1>5. RowsOfAccounts'
  BY <1>1 DEF SafetyInv, RowsOfAccounts, UserExists
<1> QED
  BY <1>3, <1>4, <1>5, TickTypes DEF SafetyInv

-----------------------------------------------------------------------------
(* Together.                                                               *)

LEMMA InitSafety == Init => SafetyInv
<1> SUFFICES ASSUME Init
             PROVE  SafetyInv
  OBVIOUS
<1>1. TypeOK
  <2>1. 0 \in 0..MaxTime
    BY ExpiryAssumption
  <2>2. past \subseteq [at : 0..MaxTime, id : Account, role : Roles]
    BY <2>1, SeedAssumption DEF Init, User, At2
  <2>3. /\ pc \in [Req -> Steps \cup {"idle", "done"}]
        /\ req \in [Req -> Request \cup {None}]
        /\ began \in [Req -> 0..MaxTime]
    BY <2>1 DEF Init
  <2>4. /\ acct \in [Req -> User \cup {None}] /\ ses \in [Req -> Session \cup {None}]
        /\ grant \in [Req -> Claims \cup {None}]
        /\ reply \in [Req -> Status \cup {None}]
    BY DEF Init
  <2>5. /\ users \subseteq User /\ sessions \subseteq Session
        /\ resumes \subseteq [id : Req, owner : Account] /\ now \in 0..MaxTime
    BY <2>1, SeedAssumption DEF Init
  <2> QED
    BY <2>2, <2>3, <2>4, <2>5 DEF TypeOK
<1>2. ClaimsInv
  <2> SUFFICES ASSUME NEW r \in Req
               PROVE  Path(r) /\ Signed(r) /\ FromGrant(r)
    BY DEF ClaimsInv
  <2>1. /\ pc[r] = "idle" /\ req[r] = None /\ grant[r] = None /\ acct[r] = None
        /\ reply[r] = None /\ began[r] = 0 /\ now = 0
    BY DEF Init
  <2>2. ~Granted(r)
    BY <2>1 DEF Granted, Asks
  <2> QED
    BY <2>1, <2>2 DEF Path, Signed, FromGrant
<1>3. PastInv /\ RowsOfAccounts
  BY SeedAssumption DEF Init, PastInv, RowsOfAccounts
<1> QED
  BY <1>1, <1>2, <1>3 DEF SafetyInv

LEMMA NextSafety == SafetyInv /\ [Next]_vars => SafetyInv'
<1> SUFFICES ASSUME SafetyInv, [Next]_vars
             PROVE  SafetyInv'
  OBVIOUS
<1>1. ASSUME NEW r \in Req, Arrive(r)
      PROVE  SafetyInv'
  <2>1. PastInv' /\ RowsOfAccounts'
    BY <1>1, ArriveIs
       DEF SafetyInv, PastInv, RowsOfAccounts, UserExists, At2, tables
  <2> QED
    BY <1>1, <2>1, ArriveTypes, ArriveClaims DEF SafetyInv
<1>2. ASSUME NEW r \in Req, Serve(r)
      PROVE  SafetyInv'
  BY <1>2, ServeTypes, ServeClaims, ServeRows DEF SafetyInv
<1>3. CASE Tick
  BY <1>3, TickSafety
<1>4. CASE UNCHANGED vars
  <2>1. UNCHANGED <<now, users, sessions, resumes, past, pc, req, began, acct,
                    ses, grant, reply>>
    BY <1>4 DEF vars, tables, local
  <2>2. GrantsKept /\ \A q \in Req : Fixed(q)
    BY <2>1 DEF GrantsKept, Fixed, Granted, Asks
  <2>3. now \in Nat /\ now' = now /\ past \subseteq past'
    BY <2>1 DEF SafetyInv, TypeOK
  <2>4. ClaimsInv'
    BY <2>2, <2>3, ClaimsFixed DEF ClaimsInv
  <2>5. TypeOK' /\ PastInv' /\ RowsOfAccounts'
    BY <2>1 DEF SafetyInv, TypeOK, PastInv, At2, RowsOfAccounts, UserExists
  <2> QED
    BY <2>4, <2>5 DEF SafetyInv
<1> QED
  BY <1>1, <1>2, <1>3, <1>4 DEF Next, Finished

-----------------------------------------------------------------------------
(* Who is let in, and the end of an account.                               *)

LEMMA LetInStep ==
    ASSUME SafetyInv, Next, NEW r \in Req, At(r, "auth"), LetIn(r)
    PROVE  \E g \in Req :
              /\ Granted(g) /\ Truthful(g)
              /\ req[r].token = AccessOf(grant[g])
              /\ now < grant[g].iat + AccessExpiry
              /\ Asks(r, "AdminUsers") =>
                    Held(grant[g].user, "admin", began[g], grant[g].iat)
<1>1. pc[r] = "auth" /\ reply[r] = None /\ None # 200
  BY NoneAssumption DEF At, SafetyInv, ClaimsInv, Path, Status
<1>2. ~Fixed(r)
  BY <1>1 DEF LetIn, Fixed
<1>3. Serve(r)
  <2>1. ASSUME NEW q \in Req, Arrive(q)
        PROVE  Serve(r)
    <3>1. q # r
      BY <1>1, <2>1 DEF Arrive, At
    <3> QED
      BY <1>2, <2>1, <3>1, ArriveKeepsGrants
  <2>2. ASSUME NEW q \in Req, Serve(q)
        PROVE  Serve(r)
    BY <1>2, <2>2, ServeKeepsGrants
  <2>3. ~Tick /\ ~Finished
    BY <1>2 DEF Tick, Finished, Fixed, vars, local
  <2> QED
    BY <2>1, <2>2, <2>3 DEF Next
<1>4. Authorize(r)
  BY <1>1, <1>3
     DEF Serve, At, LoginLookup, LoginInsert, RefreshUser, RefreshFind,
         RefreshExpire, RefreshDelete, RefreshCreate, GetProfile, ListResumes,
         CreateResume, UpdateUser, DeleteUser, LogoutAll
<1>5. ValidAccessToken(req[r].token) /\ RequireRole(r)
  <2>1. ASSUME NEW status \in {401, 403}, Answer(r, status)
        PROVE  FALSE
    BY <2>1, AnswerParts DEF LetIn, SafetyInv
  <2> QED
    BY <1>4, <2>1 DEF Authorize
<1>6. PICK g \in Req : /\ Granted(g)
                       /\ req[r].token \in {grant[g], AccessOf(grant[g])}
  BY <1>1 DEF SafetyInv, ClaimsInv, Path, FromGrant
<1>7. /\ grant[g] \in Claims /\ grant[g].type = "refresh" /\ Truthful(g)
  BY <1>6 DEF SafetyInv, ClaimsInv, Path, Signed, TypeOK
<1>8. req[r].token = AccessOf(grant[g])
  BY <1>5, <1>6, <1>7 DEF ValidAccessToken
<1>9. now < grant[g].iat + AccessExpiry
  BY <1>5, <1>7, <1>8, AccessParts DEF ValidAccessToken
<1>10. Asks(r, "AdminUsers") => grant[g].role = "admin"
  BY <1>5, <1>7, <1>8, AccessParts DEF RequireRole
<1> QED
  BY <1>6, <1>7, <1>8, <1>9, <1>10 DEF Truthful

LEMMA ExtinctStep ==
    ASSUME SafetyInv, Next, NEW i \in Account, Extinct(i)
    PROVE  /\ Extinct(i)'
           /\ \A r \in Req : Granted(r)' /\ grant'[r].user = i => Granted(r)
<1>1. /\ \A u \in users : u.id # i
      /\ \A r \in Req : pc[r] \notin {"idle", "done"} =>
            /\ acct[r] = None \/ acct[r].id # i
            /\ grant[r] = None \/ grant[r].user # i
  BY DEF Extinct, UserExists
<1>2. \A r \in Req : Fixed(r) /\ Granted(r)' => Granted(r)
  BY DEF Fixed, Granted, Asks
<1>3. ASSUME users' = users, \A r \in Req : Fixed(r)
      PROVE  /\ Extinct(i)'
             /\ \A r \in Req : Granted(r)' => Granted(r)
  <2>1. \A r \in Req : pc'[r] \notin {"idle", "done"} =>
           /\ acct'[r] = None \/ acct'[r].id # i
           /\ grant'[r] = None \/ grant'[r].user # i
    BY <1>1, <1>3 DEF Fixed
  <2> QED
    BY <1>1, <1>2, <1>3, <2>1 DEF Extinct, UserExists
<1>4. ASSUME NEW r \in Req, Arrive(r)
      PROVE  /\ Extinct(i)'
             /\ \A q \in Req : Granted(q)' => Granted(q)
  <2>1. users' = users /\ grant'[r] = None /\ acct'[r] = None /\ reply'[r] = None
    BY <1>4, ArriveIs DEF SafetyInv, ClaimsInv, Path, tables
  <2>2. \A q \in Req \ {r} : Fixed(q)
    BY <1>4, ArriveKeepsGrants
  <2>3. ~Granted(r)'
    BY <2>1, NoneAssumption DEF Granted, Status
  <2>4. \A q \in Req : pc'[q] \notin {"idle", "done"} =>
           /\ acct'[q] = None \/ acct'[q].id # i
           /\ grant'[q] = None \/ grant'[q].user # i
    BY <1>1, <2>1, <2>2 DEF Fixed
  <2> QED
    BY <1>1, <1>2, <2>1, <2>2, <2>3, <2>4 DEF Extinct, UserExists
<1>5. ASSUME NEW r \in Req, Serve(r)
      PROVE  /\ Extinct(i)'
             /\ \A q \in Req : Granted(q)' /\ grant'[q].user = i => Granted(q)
  <2>1. \A u \in users' : u.id # i
    BY <1>1, <1>5, ServeTables DEF UserExists
  <2>2. \A q \in Req \ {r} : Fixed(q)
    BY <1>5, ServeKeepsGrants
  <2>3. /\ acct[r] = None \/ acct[r].id # i
        /\ grant[r] = None \/ grant[r].user # i
    BY <1>1, <1>5, ServeStep
  <2>4. /\ acct'[r] = None \/ acct'[r].id # i
        /\ grant'[r] = None \/ grant'[r].user # i
    <3>1. \A u \in users : u.id # i /\ u \in User
      BY <1>1 DEF SafetyInv, TypeOK
    <3>2. CASE Signs(r)
      <4>1. \A u \in users : GenerateRefreshToken(u).user # i
        BY <3>1, SignedForUser DEF SafetyInv
      <4>2. pc[r] = "ref_find" => GenerateRefreshToken(acct[r]).user # i
        BY <2>3, SignedForUser DEF SafetyInv, ClaimsInv, Path, TypeOK
      <4>3. acct' = acct
        BY <3>2 DEF Signs
      <4>4. \E u : /\ grant' = [grant EXCEPT ![r] = GenerateRefreshToken(u)]
                   /\ GenerateRefreshToken(u).user # i
        BY <3>2, <4>1, <4>2 DEF Signs
      <4> QED
        BY <2>3, <4>3, <4>4 DEF SafetyInv, TypeOK
    <3>3. CASE Reads(r)
      BY <2>3, <3>1, <3>3 DEF Reads, SafetyInv, TypeOK
    <3> QED
      BY <1>5, <2>3, <3>2, <3>3, ServeStep DEF Replied, Continues
  <2>5. \A q \in Req : pc'[q] \notin {"idle", "done"} =>
           /\ acct'[q] = None \/ acct'[q].id # i
           /\ grant'[q] = None \/ grant'[q].user # i
    BY <1>1, <2>2, <2>4 DEF Fixed
  <2>6. Granted(r)' => grant'[r] # None
    BY <1>5, ServeClaims DEF ClaimsInv, Path
  <2> QED
    BY <1>2, <2>1, <2>2, <2>4, <2>5, <2>6 DEF Extinct, UserExists
<1>6. CASE Tick \/ Finished
  <2>1. users' = users /\ \A r \in Req : Fixed(r)
    BY <1>6 DEF Tick, Finished, Fixed, vars, local, tables
  <2> QED
    BY <1>3, <2>1
<1> QED
  BY <1>4, <1>5, <1>6 DEF Next

-----------------------------------------------------------------------------
(* The theorems.                                                           *)

\* The inductive invariant holds: which calls a request makes, that what it has
\* signed was true while it was under way, and that the tables refer to
\* accounts that exist.
THEOREM SafetyInvariant == Spec => []SafetyInv
  BY InitSafety, NextSafety, PTL DEF Spec

\* Every variable keeps its type.
THEOREM TypeCorrect == Spec => []TypeOK
  BY SafetyInvariant, PTL DEF SafetyInv

\* No session and no resume outlives its account, though tokens do
\* (CreateSession, CreateCV, DeleteUser).
THEOREM RowsHaveAccounts == Spec => []RowsOfAccounts
  BY SafetyInvariant, PTL DEF SafetyInv

\* AuthRequired and RequireRole let in only with an access token that was
\* granted less than its lifetime ago, to an account that had the role the
\* token says at a time within the login or refresh that granted it.
THEOREM LetInWithRecentRole == Spec => LetInByRecentRole
<1>1. SafetyInv /\ [Next]_vars =>
         [\A r \in Req : At(r, "auth") /\ LetIn(r) =>
            \E g \in Req :
               /\ Granted(g) /\ Truthful(g)
               /\ req[r].token = AccessOf(grant[g])
               /\ now < grant[g].iat + AccessExpiry
               /\ Asks(r, "AdminUsers") =>
                     Held(grant[g].user, "admin", began[g], grant[g].iat)]_vars
  BY LetInStep
<1> QED
  BY <1>1, SafetyInvariant, PTL DEF Spec, LetInByRecentRole

\* Once an account is deleted and the requests that had read its row are over,
\* no login or refresh is answered with a pair for it (RefreshToken reads the
\* row again).
THEOREM ExtinctForGood == Spec => NoGrantWhenExtinct
<1>1. SafetyInv /\ [Next]_vars =>
         [\A i \in Account : Extinct(i) =>
            /\ Extinct(i)'
            /\ \A r \in Req : Granted(r)' /\ grant'[r].user = i =>
                                 Granted(r)]_vars
  BY ExtinctStep
<1> QED
  BY <1>1, SafetyInvariant, PTL DEF Spec, NoGrantWhenExtinct
=============================================================================
