------------------------------ MODULE Resumes ------------------------------
(***************************************************************************)
(* Resumes, the entries of their sections, and the connection pool.        *)
(*                                                                         *)
(* Each element of Req is one authenticated HTTP request to a route under  *)
(* /api/v1/resumes (internal/handler/resume_handler.go).  Its handler      *)
(* checks the owner with one query and acts with another, and nothing ties *)
(* the two together: there is one action per call of                       *)
(* internal/repository/cv_repository.go, and the calls of concurrent       *)
(* requests interleave.  Only AddProject opens a transaction; it keeps a   *)
(* connection of the pool from BEGIN to COMMIT or ROLLBACK, and the        *)
(* foreign key of the project it has inserted locks the resume's row.      *)
(*                                                                         *)
(* A UUID drawn by a request (the id of the resume or the entry it         *)
(* inserts) is the request itself.  The k-th technology of project p is    *)
(* the pair <<p, k>>.  The personal_info table has no column of the model: *)
(* its INSERT ... ON CONFLICT (resume_id) names a constraint the table     *)
(* does not have, so the statement fails and the table stays empty.        *)
(***************************************************************************)
EXTENDS Naturals, FiniteSets

CONSTANTS
    Req,        \* the HTTP requests of a behaviour
    Person,     \* the accounts that send them (UserID of the claims)
    Admins,     \* those whose claims have the role "admin"
    Ops,        \* the routes that are called
    Parts,      \* the sections they are called for
    Seed,       \* the rows of the resumes table when the server starts
    None,       \* no value
    MaxConns,   \* SetMaxOpenConns
    MaxTechs,   \* bound on the technologies of a project
    MaxFaults   \* bound on the failing database calls

AllOps == {"CreateResume", "DeleteResume", "GetResume", "ListResumes",
           "SavePersonalInfo", "GetPersonalInfo", "Add", "Get", "Delete"}

Sections == {"education", "experience", "skills", "projects",
             "certifications"}

\* The connection is closed without a status.
Aborted == 0

Status == {200, 201, 400, 401, 403, 404, 500, Aborted}

ResumeId == {c.id : c \in Seed} \cup Req
Resume   == [id : ResumeId, owner : Person]
SectionEntry == [id : Req, resume : ResumeId, section : Sections]
Request  == [op : AllOps, who : Person, resume : ResumeId \cup {None},
             section : Sections \cup {None}, entry : Req \cup {None},
             techs : 0..MaxTechs]

\* An entry as it is answered; None is the null that GetProjectByCV leaves
\* in the place of a project whose technologies it could not read.
Shown == [id : Req, techs : (0..MaxTechs) \cup {None}]

ASSUME RouteAssumption == Ops \subseteq AllOps /\ Parts \subseteq Sections

ASSUME SeedAssumption ==
    /\ \A c \in Seed : /\ c.id \notin Req /\ c.owner \in Person
                       /\ c = [id |-> c.id, owner |-> c.owner]
    /\ \A c, d \in Seed : c.id = d.id => c = d

ASSUME BoundAssumption ==
    /\ IsFiniteSet(Req)
    /\ MaxConns \in Nat \ {0} /\ MaxTechs \in Nat /\ MaxFaults \in Nat

ASSUME NoneAssumption ==
    /\ None \notin Request \cup Resume \cup Status
    /\ None \notin ResumeId \cup Sections \cup Nat

VARIABLES
    resumes,  \* table resumes
    entries,  \* tables education, experience, skills, projects, certifications
    techs,    \* table project_technologies
    pc,       \* the next database call of a request
    req,      \* what it asks for
    row,      \* the resume row it has read
    made,     \* technologies its transaction has inserted
    rows,     \* projects whose technologies it has still to read
    view,     \* the entries it has read
    reply,    \* the HTTP status answered, or Aborted
    held,     \* requests that hold a connection between two actions
    locks,    \* requests whose open transaction locks its resume's row
    faults    \* failing database calls so far

tables == <<resumes, entries, techs>>
local  == <<req, row, made, rows, view>>
pool   == <<held, locks>>
vars   == <<tables, pc, local, reply, pool, faults>>

Steps == {"find", "create", "list", "save_info", "get_info", "insert",
          "tx_begin", "tx_insert", "tx_tech", "tx_commit", "delete",
          "delete_wait", "delete_entry", "read_techs"} \cup Sections

Init ==
    /\ resumes = Seed
    /\ entries = {}
    /\ techs = {}
    /\ pc = [r \in Req |-> "idle"]
    /\ req = [r \in Req |-> None]
    /\ row = [r \in Req |-> None]
    /\ made = [r \in Req |-> 0]
    /\ rows = [r \in Req |-> {}]
    /\ view = [r \in Req |-> {}]
    /\ reply = [r \in Req |-> None]
    /\ held = {}
    /\ locks = {}
    /\ faults = 0

-----------------------------------------------------------------------------
(* Control of a request.                                                   *)

At(r, step) == pc[r] = step

Asks(r, o) == req[r] # None /\ req[r].op = o

Goto(r, step) == pc' = [pc EXCEPT ![r] = step] /\ UNCHANGED reply

Answer(r, status) ==
    /\ pc' = [pc EXCEPT ![r] = "done"]
    /\ reply' = [reply EXCEPT ![r] = status]

\* A call fails: the connection breaks, the client has gone, or PostgreSQL
\* refuses a value that Validate lets pass.
Fault == faults < MaxFaults /\ faults' = faults + 1

NoFault == UNCHANGED faults

\* A statement outside a transaction needs a connection for its duration.
Free == Cardinality(held) < MaxConns

\* The resumes and entries whose ids clients have been answered or can list,
\* which shows those of an INSERT that was answered 500 too; one that was not
\* stored, or has been deleted since, stands for any unknown id.
KnownResumes ==
    {c.id : c \in Seed} \cup
    {q \in Req : At(q, "done") /\ Asks(q, "CreateResume")}

KnownEntries == {q \in Req : At(q, "done") /\ Asks(q, "Add")}

\* What the path and the body of a route name.
PathResumes(o) == IF o \in {"CreateResume", "ListResumes"} THEN {None}
                                                           ELSE KnownResumes

PathSections(o) == IF o \in {"Add", "Get", "Delete"} THEN Parts ELSE {None}

PathEntries(o) == IF o = "Delete" THEN KnownEntries ELSE {None}

Technologies(o, s) == IF o = "Add" /\ s = "projects" THEN 0..MaxTechs ELSE {0}

Entry(o) == IF o = "CreateResume" THEN "create"
            ELSE IF o = "ListResumes" THEN "list" ELSE "find"

Arrive(r) ==
    /\ At(r, "idle")
    /\ \E o \in Ops, u \in Person :
       \E c \in PathResumes(o), s \in PathSections(o), e \in PathEntries(o) :
       \E n \in Technologies(o, s) :
          /\ req' = [req EXCEPT ![r] =
                       [op |-> o, who |-> u, resume |-> c, section |-> s,
                        entry |-> e, techs |-> n]]
          /\ Goto(r, Entry(o))
    /\ UNCHANGED <<tables, row, made, rows, view, pool, faults>>

\* AuthRequired finds no valid access token, or an id does not parse.
Refuse(r) ==
    /\ At(r, "idle")
    /\ \E status \in {401, 400} : Answer(r, status)
    /\ UNCHANGED <<tables, local, pool, faults>>

-----------------------------------------------------------------------------
(* The resume of the path and its owner.                                   *)

AllowedAnyone(r, c) == TRUE

Allowed(r, c) == c.owner = req[r].who \/ req[r].who \in Admins

\* The call that follows the check of the owner.
Act(r) ==
    LET after == [DeleteResume |-> "delete", GetResume |-> "get_info",
                  SavePersonalInfo |-> "save_info",
                  GetPersonalInfo |-> "get_info", Delete |-> "delete_entry"]
    IN  IF req[r].op = "Get" THEN req[r].section
        ELSE IF req[r].op = "Add"
          THEN IF req[r].section = "projects" THEN "tx_begin" ELSE "insert"
          ELSE after[req[r].op]

\* GetCVById and the handler's check; the body of an add is decoded and
\* validated after it.  GetResumeHandler checks when everything is read.
FindResume(r) ==
    /\ At(r, "find") /\ Free
    /\ \/ /\ \A c \in resumes : c.id # req[r].resume
          /\ Answer(r, 404)
          /\ UNCHANGED row
       \/ \E c \in resumes :
             /\ c.id = req[r].resume
             /\ row' = [row EXCEPT ![r] = c]
             /\ IF Allowed(r, c) \/ req[r].op = "GetResume"
                  THEN \/ Goto(r, Act(r))
                       \/ /\ req[r].op \in {"Add", "SavePersonalInfo"}
                          /\ Answer(r, 400)
                  ELSE Answer(r, 403)
    /\ UNCHANGED <<tables, req, made, rows, view, pool, faults>>

\* A statement without effect that fails and whose error is answered as 500.
\* A client that hangs up takes its request out of the queue for a
\* connection, but Beginx does not look at the request's context.
CallFails(r) ==
    /\ \/ pc[r] \in {"find", "create", "list", "save_info", "delete",
                     "delete_wait", "delete_entry"}
       \/ At(r, "tx_begin") /\ Free
    /\ Fault
    /\ Answer(r, 500)
    /\ held' = held \ {r}
    /\ UNCHANGED <<tables, local, locks>>

-----------------------------------------------------------------------------
(* Resumes.  A statement that fails may have taken effect all the same.     *)

CreateCV(r) ==
    /\ At(r, "create") /\ Free
    /\ resumes' = resumes \cup {[id |-> r, owner |-> req[r].who]}
    /\ \/ Answer(r, 201) /\ NoFault
       \/ Answer(r, 500) /\ Fault
    /\ UNCHANGED <<entries, techs, local, pool>>

\* GetCVByUserId.
ListResumes(r) ==
    /\ At(r, "list") /\ Free
    /\ Answer(r, 200)
    /\ UNCHANGED <<tables, local, pool, faults>>

Locked(c) == \E q \in locks : req[q].resume = c

\* The DELETE meets the lock of an open transaction and waits for it with its
\* connection in hand.
WaitForLock(r) ==
    /\ At(r, "delete") /\ Free
    /\ Locked(req[r].resume)
    /\ held' = held \cup {r}
    /\ Goto(r, "delete_wait")
    /\ UNCHANGED <<tables, local, locks, faults>>

\* ON DELETE CASCADE reaches the entries of a resume and the technologies of
\* a project.
CascadeTechs(gone) ==
    techs' = {t \in techs : \A e \in gone : e.id # t[1]}

NoCascade(c) == UNCHANGED <<entries, techs>>

Cascade(c) ==
    LET gone == {e \in entries : e.resume = c}
    IN  entries' = entries \ gone /\ CascadeTechs(gone)

DeleteRow(c) == resumes' = {d \in resumes : d.id # c} /\ Cascade(c)

\* "No rows" is ErrNotFound, which DeleteResumeHandler answers as 500.
DeleteCV(r) ==
    LET found == \E c \in resumes : c.id = req[r].resume
    IN  /\ (At(r, "delete") /\ Free) \/ At(r, "delete_wait")
        /\ ~Locked(req[r].resume)
        /\ DeleteRow(req[r].resume)
        /\ \/ Answer(r, IF found THEN 200 ELSE 500) /\ NoFault
           \/ Answer(r, 500) /\ Fault
        /\ held' = held \ {r}
        /\ UNCHANGED <<local, locks>>

-----------------------------------------------------------------------------
(* Personal information.                                                   *)

\* SavePersonalInfo: the statement is refused by PostgreSQL.
SavePersonalInfo(r) ==
    /\ At(r, "save_info") /\ Free
    /\ Answer(r, 500)
    /\ UNCHANGED <<tables, local, pool, faults>>

\* GetPersonalInfo: no row.  Its own route answers null with status 200;
\* GetCompleteResume, which ignores every error, goes on to the sections.
GetPersonalInfo(r) ==
    /\ At(r, "get_info")
    /\ \E status \in {200, 500} :
          /\ IF status = 200 THEN Free /\ NoFault ELSE Fault
          /\ IF Asks(r, "GetResume") THEN Goto(r, "education")
                                     ELSE Answer(r, status)
    /\ UNCHANGED <<tables, local, pool>>

-----------------------------------------------------------------------------
(* Entries of the sections.                                                *)

EntryOf(r) == [id |-> r, resume |-> req[r].resume, section |-> req[r].section]

ResumeExists(r) == \E c \in resumes : c.id = req[r].resume

\* AddEducation, AddSkill, AddCertification and AddExperience: one INSERT,
\* refused by the foreign key when the resume has gone.  AddExperience only
\* logs the error, so its handler answers 201 either way.
InsertEntry(r) ==
    LET failed == IF req[r].section = "experience" THEN 201 ELSE 500
    IN  /\ At(r, "insert")
        /\ \/ /\ Free /\ ResumeExists(r)
              /\ entries' = entries \cup {EntryOf(r)}
              /\ \/ Answer(r, 201) /\ NoFault
                 \/ Answer(r, failed) /\ Fault
           \/ /\ Free /\ ~ResumeExists(r)
              /\ Answer(r, failed)
              /\ UNCHANGED entries /\ NoFault
           \/ Answer(r, failed) /\ Fault /\ UNCHANGED entries
        /\ UNCHANGED <<resumes, techs, local, pool>>

DeleteSectionOf(r) ==
    {e \in entries : e.resume = req[r].resume /\ e.section = req[r].section}

\* The rows a DELETE ... WHERE id = $1 on the table of the section reaches.
Targets(r) ==
    {e \in entries : e.id = req[r].entry /\ e.section = req[r].section}

DeleteAlwaysSucceeds(gone) == 200

DeleteStatus(gone) == IF gone = {} THEN 404 ELSE 200

\* DeleteEducation, DeleteExperience, DeleteSkill, DeleteProject and
\* DeleteCertification.
DeleteEntry(r) ==
    /\ At(r, "delete_entry") /\ Free
    /\ entries' = entries \ Targets(r)
    /\ CascadeTechs(Targets(r))
    /\ \/ Answer(r, DeleteStatus(Targets(r))) /\ NoFault
       \/ Answer(r, 500) /\ Fault
    /\ UNCHANGED <<resumes, local, pool>>

-----------------------------------------------------------------------------
(* AddProject: the only transaction.                                       *)

\* Beginx takes a connection out of the pool.
BeginTx(r) ==
    /\ At(r, "tx_begin") /\ Free
    /\ held' = held \cup {r}
    /\ Goto(r, "tx_insert")
    /\ UNCHANGED <<tables, local, locks, faults>>

NextInsertShort(r, n) == IF n + 1 < req[r].techs THEN "tx_tech"
                                                 ELSE "tx_commit"

NextInsert(r, n) == IF n < req[r].techs THEN "tx_tech" ELSE "tx_commit"

EndTxLeak(r) == UNCHANGED held /\ locks' = locks \ {r}

EndTxKeepLock(r) == held' = held \ {r} /\ UNCHANGED locks

\* Commit and Rollback give the connection back and release the lock.
EndTx(r) == held' = held \ {r} /\ locks' = locks \ {r}

\* The foreign key check locks the row of the resume, or fails; on any error
\* the deferred function rolls back.
TxInsert(r) ==
    /\ At(r, "tx_insert")
    /\ \/ /\ ResumeExists(r)
          /\ locks' = locks \cup {r}
          /\ Goto(r, NextInsert(r, 0))
          /\ UNCHANGED held /\ NoFault
       \/ ~ResumeExists(r) /\ EndTx(r) /\ Answer(r, 500) /\ NoFault
       \/ EndTx(r) /\ Answer(r, 500) /\ Fault
    /\ UNCHANGED <<tables, local>>

\* addProjectTechnology.  Its error is kept in a variable of the loop that
\* shadows the one the deferred function looks at (cv_repository.go:737), so
\* nothing is rolled back and the connection never returns to the pool.
\* PostgreSQL gives up the locks if it was the server that refused the
\* statement, and keeps the transaction open if the statement never got there.
TxTech(r) ==
    /\ At(r, "tx_tech")
    /\ \/ /\ made' = [made EXCEPT ![r] = @ + 1]
          /\ Goto(r, NextInsert(r, made[r] + 1))
          /\ UNCHANGED locks /\ NoFault
       \/ /\ locks' \in {locks, locks \ {r}}
          /\ Answer(r, 500) /\ Fault /\ UNCHANGED made
    /\ UNCHANGED <<tables, req, row, rows, view, held>>

\* The project and its technologies become visible together.
TxCommit(r) ==
    LET visible == /\ entries' = entries \cup {EntryOf(r)}
                   /\ techs' = techs \cup {<<r, k>> : k \in 1..made[r]}
    IN  /\ At(r, "tx_commit")
        /\ \/ visible /\ Answer(r, 201) /\ NoFault
           \/ visible /\ Answer(r, 500) /\ Fault
           \/ UNCHANGED <<entries, techs>> /\ Answer(r, 500) /\ Fault
        /\ EndTx(r)
        /\ UNCHANGED <<resumes, local>>

-----------------------------------------------------------------------------
(* Reading the sections.                                                   *)

\* GetCompleteResume reads the sections in this order.
Following == [education |-> "experience", experience |-> "skills",
              skills |-> "projects", projects |-> "certifications"]

\* What comes after the section has been read: a route of one section
\* answers, GetResume reads on and checks the owner at the end.
Proceed(r, section) ==
    IF req[r].op = "Get"
      THEN Answer(r, 200)
      ELSE IF section = "certifications"
             THEN Answer(r, IF Allowed(r, row[r]) THEN 200 ELSE 403)
             ELSE Goto(r, Following[section])

\* A project is left to be completed by GetProjectTechnologies.
NextProject(r, rest) ==
    /\ rows' = [rows EXCEPT ![r] = rest]
    /\ IF rest = {} THEN Proceed(r, "projects") ELSE Goto(r, "read_techs")

See(r, shown) == view' = [view EXCEPT ![r] = @ \cup shown]

SelectAnyResume(r) == {e.id : e \in {x \in entries : x.section = pc[r]}}

Select(r) ==
    {e.id : e \in {x \in entries : x.section = pc[r] /\
                                    x.resume = req[r].resume}}

\* The SELECT of one section.  GetCompleteResume ignores its error.
ReadSection(r) ==
    /\ pc[r] \in Sections
    /\ \/ /\ Free /\ pc[r] = "projects"
          /\ NextProject(r, Select(r))
          /\ UNCHANGED view /\ NoFault
       \/ /\ Free /\ pc[r] # "projects"
          /\ See(r, {[id |-> i, techs |-> 0] : i \in Select(r)})
          /\ Proceed(r, pc[r])
          /\ UNCHANGED rows /\ NoFault
       \/ /\ Fault
          /\ IF Asks(r, "Get") THEN Answer(r, 500) ELSE Proceed(r, pc[r])
          /\ UNCHANGED <<rows, view>>
    /\ UNCHANGED <<tables, req, row, made, pool>>

TechsOf(p) == {k \in 1..MaxTechs : <<p, k>> \in techs}

\* GetProjectTechnologies of one of the projects read; on an error the loop
\* of GetProjectByCV goes on and leaves a null.
ReadTechs(r) ==
    /\ At(r, "read_techs")
    /\ \E p \in rows[r] :
          /\ \/ /\ Free /\ NoFault
                /\ See(r, {[id |-> p, techs |-> Cardinality(TechsOf(p))]})
             \/ Fault /\ See(r, {[id |-> p, techs |-> None]})
          /\ NextProject(r, rows[r] \ {p})
    /\ UNCHANGED <<tables, req, row, made, pool>>

-----------------------------------------------------------------------------
(* The process.                                                            *)

InFlight(r) == pc[r] \notin {"idle", "done"}

\* The process ends: the requests in flight get no answer, PostgreSQL rolls
\* back what was open, and the pool starts empty.
Crash ==
    /\ \E r \in Req : InFlight(r)
    /\ pc' = [r \in Req |-> IF InFlight(r) THEN "done" ELSE pc[r]]
    /\ reply' = [r \in Req |-> IF InFlight(r) THEN Aborted ELSE reply[r]]
    /\ held' = {} /\ locks' = {}
    /\ UNCHANGED <<tables, local, faults>>

Finished == (\A r \in Req : At(r, "done")) /\ UNCHANGED vars

Serve(r) ==
    \/ FindResume(r) \/ CallFails(r)
    \/ CreateCV(r) \/ ListResumes(r) \/ WaitForLock(r) \/ DeleteCV(r)
    \/ SavePersonalInfo(r) \/ GetPersonalInfo(r)
    \/ InsertEntry(r) \/ DeleteEntry(r)
    \/ BeginTx(r) \/ TxInsert(r) \/ TxTech(r) \/ TxCommit(r)
    \/ ReadSection(r) \/ ReadTechs(r)

Next ==
    \/ \E r \in Req : Arrive(r) \/ Refuse(r) \/ Serve(r)
    \/ Crash
    \/ Finished

Spec == Init /\ [][Next]_vars

\* The Go scheduler runs every goroutine that can run, and a statement that
\* is not blocked returns.
FairSpec == Spec /\ \A r \in Req : WF_vars(Serve(r))

-----------------------------------------------------------------------------
(* Properties.                                                             *)

\* Every variable has its type.
TypeOK ==
    /\ resumes \subseteq Resume
    /\ entries \subseteq SectionEntry
    /\ techs \subseteq Req \X (1..MaxTechs)
    /\ pc \in [Req -> Steps \cup {"idle", "done"}]
    /\ req \in [Req -> Request \cup {None}]
    /\ row \in [Req -> Resume \cup {None}]
    /\ made \in [Req -> 0..MaxTechs]
    /\ rows \in [Req -> SUBSET Req]
    /\ view \in [Req -> SUBSET Shown]
    /\ reply \in [Req -> Status \cup {None}]
    /\ held \subseteq Req
    /\ locks \subseteq Req
    /\ faults \in 0..MaxFaults

\* r got past the check of the owner.
Permitted(r) ==
    row[r] # None /\ (row[r].owner = req[r].who \/ req[r].who \in Admins)

\* The owner of the entry's resume and the administrators may delete the entry.
\* A resume is owned by who has created it, from then on.
MayDelete(q, e) ==
    \/ [id |-> e.resume, owner |-> req[q].who] \in Seed
    \/ e.resume \in Req /\ Asks(e.resume, "CreateResume")
                        /\ req[e.resume].who = req[q].who
    \/ req[q].who \in Admins

AsksDeletion(q, e) ==
    Asks(q, "Delete") /\ req[q].entry = e.id /\ req[q].section = e.section

\* Somebody who may delete the entry, or its resume, has been let in to do so.
DeleteAsked(e) ==
    \E q \in Req :
        /\ Permitted(q)
        /\ \/ Asks(q, "DeleteResume") /\ req[q].resume = e.resume
           \/ AsksDeletion(q, e) /\ MayDelete(q, e)

\* Somebody who may not has been let in to another resume, the one of the path.
\* The handler does not look whether the entry is in it, and the DELETE has the
\* id of the entry only (EntryKeptForOwner).
Misdirected(e) ==
    \E q \in Req : Permitted(q) /\ AsksDeletion(q, e) /\ ~MayDelete(q, e)

\* The entry is going to be deleted, or has been.
Doomed(e) == DeleteAsked(e) \/ Misdirected(e)

\* Whatever interleaves between the check of a resume and the insert, and
\* between the insert and the commit of a project: an entry's resume exists,
\* and so does a technology's project.
NoOrphans ==
    /\ \A e \in entries : \E c \in resumes : c.id = e.resume
    /\ \A t \in techs : \E e \in entries : e.id = t[1] /\ e.section = "projects"

\* A project is stored with all the technologies it was sent with.
ProjectWhole ==
    \A e \in entries :
        e.section = "projects" => TechsOf(e.id) = 1..req[e.id].techs

\* An entry that was promised with 201 is stored until its deletion, or that of
\* its resume, is asked for by who may have it; nothing but a misdirected
\* deletion takes it away before.  For an experience this takes that no call has
\* failed.
PromisedEntryKept ==
    \A r \in Req :
        /\ Asks(r, "Add") /\ reply[r] = 201
        /\ req[r].section # "experience" \/ faults = 0
        => EntryOf(r) \in entries \/ Doomed(EntryOf(r))

\* A resume whose deletion was answered 200 stays deleted with everything in
\* it, although adds that have passed the check may still be on their way.
DeletedStaysDeleted ==
    \A r \in Req :
        Asks(r, "DeleteResume") /\ reply[r] = 200 =>
            /\ \A c \in resumes : c.id # req[r].resume
            /\ \A e \in entries : e.resume # req[r].resume
            /\ \A q \in locks : req[q].resume # req[r].resume

\* Of the requests that delete one thing at most one is told that it did.
DeletedOnce ==
    \A r, q \in Req :
        /\ r # q /\ reply[r] = 200 /\ reply[q] = 200
        /\ Asks(r, "Delete") \/ Asks(r, "DeleteResume")
        => \/ req[q].op # req[r].op
           \/ /\ req[r].op = "DeleteResume"
              /\ req[q].resume # req[r].resume
           \/ /\ req[r].op = "Delete"
              /\ <<req[q].entry, req[q].section>> #
                    <<req[r].entry, req[r].section>>

\* What a read shows was added to that resume, and a project comes with all
\* its technologies; with none if it is being deleted, with null if a call
\* failed; never with a part of them.
ShownWhole ==
    \A r \in Req : \A s \in view[r] :
        LET e == EntryOf(s.id)
        IN  /\ Asks(s.id, "Add") /\ e.resume = req[r].resume
            /\ \/ s.techs = req[s.id].techs
               \/ s.techs = 0 /\ Doomed(e)
               \/ s.techs = None /\ faults > 0

\* Requests that are over and whose connection did not return to the pool.
Leaked == {r \in held : At(r, "done")}

\* The pool is never overdrawn, a lock is never held without a connection,
\* and a connection is lost only with a call that failed: that of an added
\* project of which some but not all statements were sent.
ConnectionsReturned ==
    /\ Cardinality(held) <= MaxConns
    /\ locks \subseteq held
    /\ Cardinality(Leaked) <= faults
    /\ \A r \in Leaked : /\ Asks(r, "Add") /\ reply[r] = 500
                         /\ made[r] < req[r].techs

\* A resume leaves the table only by a request of its owner or of an admin,
\* although the owner is checked one call before the DELETE.
OwnerDeletes ==
    [][\A c \in resumes \ resumes' :
          \E r \in Req :
              /\ Asks(r, "DeleteResume") /\ req[r].resume = c.id
              /\ req[r].who = c.owner \/ req[r].who \in Admins
              /\ ~At(r, "done") /\ At(r, "done")']_vars

\* A request that has left its transaction open, at a technology that failed.
Abandoned(r) == r \in held /\ At(r, "done") /\ made[r] < req[r].techs

\* A connection that is not coming back: its transaction is abandoned, or its
\* DELETE waits for the lock of one that is.
Stuck(r) ==
    \/ Abandoned(r)
    \/ /\ At(r, "delete_wait")
       /\ \E q \in locks : Abandoned(q) /\ req[q].resume = req[r].resume

\* A request that has entered its handler is answered, unless an abandoned
\* transaction blocks its DELETE or has, with what it blocks, used up the
\* pool.
EveryRequestEnds ==
    \A r \in Req :
        InFlight(r) ~> \/ At(r, "done")
                       \/ Stuck(r)
                       \/ Cardinality({q \in Req : Stuck(q)}) = MaxConns

-----------------------------------------------------------------------------
(* The inductive invariant behind the safety properties.                   *)

\* Control: what a request asks for is set when it arrives, and decides the
\* calls it makes; all but GetResume have passed the check of the owner before.
ControlInv ==
    \A r \in Req :
        /\ pc[r] = "idle" => req[r] = None
        /\ InFlight(r) => req[r] # None
        /\ pc[r] # "done" => reply[r] = None
        /\ req[r] = None => row[r] = None
        /\ req[r] # None /\ req[r].op \in {"Add", "Get", "Delete"} =>
              req[r].section \in Sections
        /\ pc[r] = "find" => req[r].op \notin {"CreateResume", "ListResumes"}
        /\ pc[r] = "create" => Asks(r, "CreateResume")
        /\ pc[r] = "list" => Asks(r, "ListResumes")
        /\ pc[r] = "get_info" =>
              \/ Asks(r, "GetPersonalInfo") /\ Permitted(r)
              \/ Asks(r, "GetResume") /\ row[r] # None
        /\ pc[r] \in Sections \cup {"read_techs"} =>
              \/ Asks(r, "Get") /\ Permitted(r)
              \/ Asks(r, "GetResume") /\ row[r] # None
        /\ pc[r] = "save_info" => Asks(r, "SavePersonalInfo")
        /\ pc[r] = "insert" =>
              /\ Asks(r, "Add") /\ req[r].section # "projects"
              /\ Permitted(r)
        /\ pc[r] \in {"delete", "delete_wait"} =>
              Asks(r, "DeleteResume") /\ Permitted(r)
        /\ pc[r] = "delete_entry" => Asks(r, "Delete") /\ Permitted(r)
        /\ pc[r] \in {"tx_begin", "tx_insert", "tx_tech", "tx_commit"} =>
              /\ Asks(r, "Add") /\ req[r].section = "projects"
              /\ Permitted(r)

\* Ids: a resume that is asked for was there, and its id is never drawn again.
IdInv ==
    /\ \A r, q \in Req :
          req[r] # None /\ req[r].resume = q => pc[q] = "done"
    /\ \A r \in Req : \A c \in resumes : c.id = r => pc[r] = "done"
    /\ \A c, d \in resumes : c.id = d.id => c = d
    /\ \A r \in Req : row[r] # None =>
          /\ row[r].id = req[r].resume
          /\ \A c \in resumes : c.id = row[r].id => c = row[r]
    /\ \A e \in entries : /\ At(e.id, "done") /\ Asks(e.id, "Add")
                          /\ e = EntryOf(e.id)

\* A resume that was found is there until its deletion was let in.
FoundInv ==
    \A r \in Req : row[r] # None =>
        \/ ResumeExists(r)
        \/ \E q \in Req : /\ Permitted(q) /\ Asks(q, "DeleteResume")
                          /\ req[q].resume = req[r].resume

\* Transactions: the lock is held from the insert of the project on, it keeps
\* the resume, and the technologies are counted.
TxInv ==
    /\ \A r \in Req :
          /\ pc[r] \in {"tx_tech", "tx_commit"} => r \in locks
          /\ pc[r] \in {"tx_insert", "tx_tech", "tx_commit", "delete_wait"} =>
                r \in held
          /\ pc[r] \in {"idle", "find", "tx_begin", "tx_insert"} => made[r] = 0
          /\ pc[r] = "tx_tech" => made[r] < req[r].techs
          /\ pc[r] = "tx_commit" => made[r] = req[r].techs
    /\ \A r \in locks : /\ pc[r] \in {"tx_tech", "tx_commit", "done"}
                        /\ ResumeExists(r)
    /\ locks \subseteq held

SafetyInv ==
    /\ TypeOK
    /\ ControlInv
    /\ IdInv
    /\ FoundInv
    /\ TxInv
    /\ NoOrphans
    /\ ProjectWhole
    /\ PromisedEntryKept
    /\ DeletedStaysDeleted

\* What a request carries: it reads and is granted nothing before it asks, only
\* a project comes with technologies, and an entry is deleted after it was added.
AskInv ==
    \A r \in Req :
        /\ req[r] = None => rows[r] = {} /\ view[r] = {} /\ reply[r] # 200
        /\ req[r] # None /\ req[r].techs > 0 =>
              Asks(r, "Add") /\ req[r].section = "projects"
        /\ Asks(r, "Delete") => req[r].entry \in Req /\ At(req[r].entry, "done")

\* An entry whose deletion was answered 200 is gone for good.
GoneInv ==
    \A r \in Req :
        Asks(r, "Delete") /\ reply[r] = 200 => Targets(r) = {}

\* A project that is still to be completed was read from that resume, and is
\* stored unless its deletion was let in.
PendingInv ==
    \A r \in Req : \A p \in rows[r] :
        /\ Asks(p, "Add") /\ req[p].section = "projects"
        /\ req[p].resume = req[r].resume
        /\ EntryOf(p) \in entries \/ Doomed(EntryOf(p))

\* Who holds a connection between two calls.
HeldInv ==
    \A r \in held :
        \/ pc[r] \in {"tx_insert", "tx_tech", "tx_commit", "delete_wait"}
        \/ /\ At(r, "done") /\ Asks(r, "Add") /\ reply[r] = 500
           /\ made[r] < req[r].techs

AnswerInv ==
    /\ AskInv
    /\ GoneInv
    /\ PendingInv
    /\ HeldInv
    /\ DeletedOnce
    /\ ShownWhole
    /\ ConnectionsReturned

-----------------------------------------------------------------------------
(* What the routes promise, without the calls they make.                   *)

\* The entries with their technologies.
Stored ==
    {[id |-> e.id, resume |-> e.resume, section |-> e.section,
      techs |-> TechsOf(e.id)] : e \in entries}

\* The requests that were let in to the resume of their path.
LetIn == {r \in Req : Permitted(r)}

Store == INSTANCE ResumeStore WITH stored <- Stored, may <- LetIn

\* The check of the owner, the statements and the transactions of concurrent
\* requests amount to effects on whole resumes and whole entries, each in one
\* step with its answer.  A resume is deleted, an entry added and a resume or a
\* section shown only for the owner of that resume or an administrator; an
\* entry is deleted for who was let in to some resume.
ImplementsStore == Store!Spec

-----------------------------------------------------------------------------
(* What the source says of itself and the code does not do.                *)

\* AddExperienceHandler answers 201 "Experience added successfully"
\* (resume_handler.go:476).  AddExperience only logs the error of its INSERT
\* (cv_repository.go:1373), so the experience need not be there.
AddedExperienceStored ==
    \A r \in Req :
        Asks(r, "Add") /\ req[r].section = "experience" /\ reply[r] = 201 =>
            EntryOf(r) \in entries \/ Doomed(EntryOf(r))

\* The handler that deletes an education answers who may not change the resume
\* "You don't have permission to update this resume" (resume_handler.go:396),
\* and so do those of the other sections.  It looks at the resume of the path
\* and deletes the entry of the path, whatever resume that is in
\* (resume_handler.go:400, cv_repository.go:347).
EntryKeptForOwner ==
    \A r \in Req :
        /\ Asks(r, "Add") /\ reply[r] = 201
        /\ req[r].section # "experience" \/ faults = 0
        => EntryOf(r) \in entries \/ DeleteAsked(EntryOf(r))

=============================================================================
