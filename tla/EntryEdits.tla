----------------------------- MODULE EntryEdits -----------------------------
(***************************************************************************)
(* One entry of a resume, read and changed through the repository          *)
(* (internal/repository/cv_repository.go): the Update, Get and Delete of   *)
(* each kind of entry and the operations on the technologies of a project. *)
(* No route calls the updates yet; the requests are any callers of the     *)
(* repository's interface.                                                 *)
(*                                                                         *)
(* The kinds other than projects are changed by single statements.         *)
(* UpdateProject is a transaction.  PostgreSQL (READ COMMITTED) locks the  *)
(* project's row from its UPDATE and the technologies it has deleted from  *)
(* its DELETE to the end of the transaction, and shows others nothing of   *)
(* it before.  An INSERT of a technology is not blocked by that lock.  A   *)
(* statement deletes its technologies together: that two may deadlock,     *)
(* when each has a part of them, is a call that fails.                     *)
(***************************************************************************)
EXTENDS Documents, FiniteSets, Sequences

CONSTANTS
    Req,        \* the calls of a behaviour
    Edited,     \* the kinds of entries that are edited
    Drafts,     \* the documents that are sent, by kind
    Names,      \* the technologies that are added and deleted one by one
    None,       \* no value
    MaxConns,   \* SetMaxOpenConns
    MaxFaults   \* bound on the failing database calls

ProjectOps == {"AddTechnology", "DeleteTechnology"}

AllOps == {"Update", "Delete", "Get"} \cup ProjectOps

Replies == {"ok", "invalid", "not_found", "error", "aborted"}

\* What a request may ask for.
Request == [op : AllOps, doc : (UNION {Drafts[k] : k \in Edited}) \cup {None},
            name : Names \cup {None}]

\* A row with the call that wrote it.
Row == [by : Req \cup {None},
        columns : UNION {{ToRow(k, BeforeSave(k, d)) : d \in Drafts[k]} :
                            k \in Edited}]

ASSUME EditsAssumption ==
    /\ Edited \subseteq EntryKinds /\ Edited \subseteq DOMAIN Drafts
    /\ \A k \in DOMAIN Drafts : \A d \in Drafts[k] : IsDocument(k, d)
    /\ IsFiniteSet(Req)
    /\ MaxConns \in Nat \ {0} /\ MaxFaults \in Nat
    /\ None \notin Req /\ None \notin Replies
    /\ None \notin Request /\ None \notin Row

VARIABLES
    kind,     \* the kind of the entry
    row,      \* its row: the columns and the call that wrote them
    techs,    \* its rows of project_technologies
    log,      \* the updates that were committed, in order (history)
    pc,       \* the next database call of a request
    req,      \* what it asks for
    cleared,  \* technologies its transaction has deleted
    made,     \* positions of the technologies its transaction has inserted
    seen,     \* what its statement or its first statement has read
    view,     \* the entry it was answered
    reply,    \* its result
    held,     \* requests that hold a connection between two actions
    lock,     \* the request whose transaction locks the row
    faults    \* failing database calls so far

entry == <<kind, row, techs, log>>
local == <<cleared, made, seen>>
vars  == <<entry, pc, req, local, view, reply, held, lock, faults>>

IsProject == kind = "projects"

\* The technologies of a document as rows.
TechRows(by, list, positions) ==
    {[by |-> by, at |-> i, name |-> list[i]] : i \in positions}

Stored(by, d) == [by |-> by, columns |-> ToRow(kind, d)]

SavedRaw(r) == req[r].doc

\* The document of an update when it reaches its statements.
Saved(r) == BeforeSave(kind, req[r].doc)

\* There is no such entry, or one that was added before.
Init ==
    /\ kind \in Edited
    /\ \/ row = None /\ techs = {}
       \/ \E d \in Drafts[kind] :
             /\ Validate(kind, d)
             /\ row = Stored(None, BeforeSave(kind, d))
             /\ techs = IF IsProject
                          THEN LET list == BeforeSave(kind, d).technologies
                               IN  TechRows(None, list, DOMAIN list)
                          ELSE {}
    /\ log = <<>>
    /\ pc = [r \in Req |-> "idle"]
    /\ req = [r \in Req |-> None]
    /\ cleared = [r \in Req |-> {}]
    /\ made = [r \in Req |-> {}]
    /\ seen = [r \in Req |-> None]
    /\ view = [r \in Req |-> None]
    /\ reply = [r \in Req |-> None]
    /\ held = {}
    /\ lock = None
    /\ faults = 0

-----------------------------------------------------------------------------
(* Control.                                                                *)

At(r, step) == pc[r] = step

Asks(r, o) == req[r] # None /\ req[r].op = o

Goto(r, step) == pc' = [pc EXCEPT ![r] = step] /\ UNCHANGED reply

\* The function returns, and its local variables are gone.
Answer(r, result) ==
    /\ pc' = [pc EXCEPT ![r] = "done"]
    /\ reply' = [reply EXCEPT ![r] = result]
    /\ cleared' = [cleared EXCEPT ![r] = {}]
    /\ made' = [made EXCEPT ![r] = {}]
    /\ seen' = [seen EXCEPT ![r] = None]

Fault == faults < MaxFaults /\ faults' = faults + 1

NoFault == UNCHANGED faults

Free == Cardinality(held) < MaxConns

\* The commit of a change that r has made.
Committed(r) == log' = Append(log, r)

FirstCall == [Delete |-> "delete", Get |-> "get",
              AddTechnology |-> "add_tech", DeleteTechnology |-> "drop_tech"]

\* An update is cleaned, then validated, before its first statement.
Arrive(r) ==
    /\ At(r, "idle")
    /\ \/ \E d \in Drafts[kind] :
             /\ req' = [req EXCEPT ![r] =
                          [op |-> "Update", doc |-> d, name |-> None]]
             /\ IF Validate(kind, BeforeSave(kind, d))
                  THEN /\ Goto(r, IF IsProject THEN "tx_begin" ELSE "update")
                       /\ UNCHANGED local
                  ELSE Answer(r, "invalid")
       \/ \E o \in {"Delete", "Get"} :
             /\ req' = [req EXCEPT ![r] =
                          [op |-> o, doc |-> None, name |-> None]]
             /\ Goto(r, FirstCall[o]) /\ UNCHANGED local
       \/ \E o \in ProjectOps, n \in Names :
             /\ IsProject
             /\ req' = [req EXCEPT ![r] =
                          [op |-> o, doc |-> None, name |-> n]]
             /\ Goto(r, FirstCall[o]) /\ UNCHANGED local
    /\ UNCHANGED <<entry, view, held, lock, faults>>

\* A statement without effect that fails, while it waits or not.
CallFails(r) ==
    /\ pc[r] \in {"update", "delete", "delete_wait", "get", "get_techs",
                  "drop_tech", "drop_wait"}
    /\ Fault
    /\ Answer(r, "error")
    /\ held' = held \ {r}
    /\ UNCHANGED <<entry, req, view, lock>>

-----------------------------------------------------------------------------
(* Updates in one statement.                                               *)

OverwriteOrInsert(r, k) ==
    /\ At(r, "update") /\ Free
    /\ kind = k
    /\ row' = Stored(r, Saved(r))
    /\ Committed(r)
    /\ Answer(r, "ok") /\ NoFault
    /\ UNCHANGED <<kind, techs, req, view, held, lock>>

\* A statement that fails may have taken effect all the same.
Overwrite(r, k) ==
    /\ At(r, "update") /\ Free
    /\ kind = k
    /\ \/ /\ row # None
          /\ row' = Stored(r, Saved(r))
          /\ Committed(r)
          /\ \/ Answer(r, "ok") /\ NoFault
             \/ Answer(r, "error") /\ Fault
       \/ /\ row = None
          /\ Answer(r, "not_found") /\ NoFault
          /\ UNCHANGED <<row, log>>
    /\ UNCHANGED <<kind, techs, req, view, held, lock>>

UpdateEducation(r) == Overwrite(r, "education")

UpdateExperience(r) == Overwrite(r, "experience")

UpdateCertification(r) == Overwrite(r, "certifications")

UpdateSkill(r) == Overwrite(r, "skills")

-----------------------------------------------------------------------------
(* UpdateProject.                                                          *)

RollbackForgotten(r) == Answer(r, "error") /\ UNCHANGED <<held, lock>>

\* The deferred function: err is the variable of the whole function here, and
\* every statement that fails assigns it.
Rollback(r) ==
    /\ held' = held \ {r}
    /\ lock' = IF lock = r THEN None ELSE lock
    /\ Answer(r, "error")

BeginTx(r) ==
    /\ At(r, "tx_begin") /\ Free
    /\ \/ /\ held' = held \cup {r}
          /\ Goto(r, "tx_update")
          /\ UNCHANGED local /\ NoFault
       \/ Answer(r, "error") /\ Fault /\ UNCHANGED held
    /\ UNCHANGED <<entry, req, view, lock>>

\* The UPDATE waits for the row.  When there is none the function returns
\* ErrNotFound with err still nil: the deferred function does not roll back,
\* and the connection never returns to the pool.
TxUpdate(r) ==
    /\ At(r, "tx_update")
    /\ \/ /\ lock = None /\ row # None
          /\ lock' = r
          /\ Goto(r, "tx_clear")
          /\ UNCHANGED <<local, held>> /\ NoFault
       \/ /\ lock = None /\ row = None
          /\ Answer(r, "not_found")
          /\ UNCHANGED <<held, lock>> /\ NoFault
       \/ Rollback(r) /\ Fault
    /\ UNCHANGED <<entry, req, view>>

Technologies(r) == Saved(r).technologies

\* The loop over the technologies, after those at the given positions.
NextInsert(r, positions) ==
    IF positions = DOMAIN Technologies(r) THEN "tx_commit" ELSE "tx_tech"

ClearedNothing == {}

\* DELETE FROM project_technologies: those that are committed by now.
Cleared == techs

TxClear(r) ==
    /\ At(r, "tx_clear")
    /\ \/ /\ cleared' = [cleared EXCEPT ![r] = Cleared]
          /\ Goto(r, NextInsert(r, {}))
          /\ UNCHANGED <<made, seen, held, lock>> /\ NoFault
       \/ Rollback(r) /\ Fault
    /\ UNCHANGED <<entry, req, view>>

TxTechOutside(r) ==
    /\ At(r, "tx_tech")
    /\ techs' = techs \cup TechRows(r, Technologies(r), DOMAIN Technologies(r))
    /\ made' = [made EXCEPT ![r] = DOMAIN Technologies(r)]
    /\ Goto(r, "tx_commit")
    /\ UNCHANGED <<kind, row, log, req, cleared, seen, view, held, lock,
                   faults>>

\* addProjectTechnology, in the order of the list.
TxTech(r) ==
    /\ At(r, "tx_tech")
    /\ \/ \E i \in DOMAIN Technologies(r) \ made[r] :
             /\ \A j \in DOMAIN Technologies(r) \ made[r] : i <= j
             /\ made' = [made EXCEPT ![r] = @ \cup {i}]
             /\ Goto(r, NextInsert(r, made[r] \cup {i}))
             /\ UNCHANGED <<cleared, seen, held, lock>> /\ NoFault
       \/ Rollback(r) /\ Fault
    /\ UNCHANGED <<entry, req, view>>

\* What a commit makes visible.
TxEffect(r) ==
    /\ row' = Stored(r, Saved(r))
    /\ techs' = (techs \ cleared[r]) \cup TechRows(r, Technologies(r), made[r])
    /\ Committed(r)

TxCommit(r) ==
    /\ At(r, "tx_commit")
    /\ \/ /\ TxEffect(r)
          /\ \/ /\ Answer(r, "ok")
                /\ held' = held \ {r} /\ lock' = None /\ NoFault
             \/ Rollback(r) /\ Fault
       \/ Rollback(r) /\ Fault /\ UNCHANGED <<row, techs, log>>
    /\ UNCHANGED <<kind, req, view>>

-----------------------------------------------------------------------------
(* Deletion.                                                               *)

\* The DELETE meets the lock and waits for it with its connection in hand.
WaitForRow(r) ==
    /\ At(r, "delete") /\ Free
    /\ lock # None
    /\ held' = held \cup {r}
    /\ Goto(r, "delete_wait")
    /\ UNCHANGED <<entry, req, local, view, lock, faults>>

\* DeleteEducation, DeleteExperience, DeleteCertification, DeleteSkill and
\* DeleteProject, whose technologies go with it.
Delete(r) ==
    /\ (At(r, "delete") /\ Free) \/ At(r, "delete_wait")
    /\ lock = None
    /\ row' = None /\ techs' = {}
    /\ \/ Answer(r, IF row = None THEN "not_found" ELSE "ok") /\ NoFault
       \/ Answer(r, "error") /\ Fault
    /\ held' = held \ {r}
    /\ UNCHANGED <<kind, log, req, view, lock>>

-----------------------------------------------------------------------------
(* Technologies one by one.                                                *)

\* AddProjectTechnology logs the error of its INSERT and returns nil.
AddTechnology(r) ==
    /\ At(r, "add_tech")
    /\ \/ /\ Free /\ row # None /\ NoFault
          /\ techs' = techs \cup
                {[by |-> r, at |-> 1, name |-> req[r].name]}
       \/ Free /\ row = None /\ NoFault /\ UNCHANGED techs
       \/ Fault /\ UNCHANGED techs
    /\ Answer(r, "ok")
    /\ UNCHANGED <<kind, row, log, req, view, held, lock>>

Named(r) == {t \in techs : t.name = req[r].name}

\* Deleted by the open transaction of an update.
TechsLocked(some) == lock # None /\ some \cap cleared[lock] # {}

\* The DELETE has found technologies that an open transaction has deleted.
WaitForTechs(r) ==
    /\ At(r, "drop_tech") /\ Free
    /\ TechsLocked(Named(r))
    /\ seen' = [seen EXCEPT ![r] = Named(r)]
    /\ held' = held \cup {r}
    /\ Goto(r, "drop_wait")
    /\ UNCHANGED <<entry, req, cleared, made, view, lock, faults>>

\* After a wait what the statement has found is deleted as far as it is still
\* there; what the update has inserted is not looked for.
DeleteTechnology(r) ==
    LET found == IF At(r, "drop_wait") THEN seen[r] ELSE Named(r)
    IN  /\ (At(r, "drop_tech") /\ Free) \/ At(r, "drop_wait")
        /\ ~TechsLocked(found)
        /\ techs' = techs \ found
        /\ \/ /\ Answer(r, IF found \cap techs = {} THEN "not_found" ELSE "ok")
              /\ NoFault
           \/ Answer(r, "error") /\ Fault
        /\ held' = held \ {r}
        /\ UNCHANGED <<kind, row, log, req, view, lock>>

-----------------------------------------------------------------------------
(* Reading.                                                                *)

\* GetEducation, GetExperience, GetCertification and GetSkill, and the first
\* statement of GetProject.
Get(r) ==
    /\ At(r, "get") /\ Free
    /\ \/ row = None /\ Answer(r, "not_found") /\ UNCHANGED view
       \/ /\ row # None /\ IsProject
          /\ seen' = [seen EXCEPT ![r] = row]
          /\ Goto(r, "get_techs")
          /\ UNCHANGED <<cleared, made, view>>
       \/ /\ row # None /\ ~IsProject
          /\ view' = [view EXCEPT ![r] = [row |-> row, techs |-> {}]]
          /\ Answer(r, "ok")
    /\ UNCHANGED <<entry, req, held, lock, faults>>

\* GetProjectTechnologies, a statement of its own.
GetTechs(r) ==
    /\ At(r, "get_techs") /\ Free
    /\ view' = [view EXCEPT ![r] = [row |-> seen[r], techs |-> techs]]
    /\ Answer(r, "ok")
    /\ UNCHANGED <<entry, req, held, lock, faults>>

-----------------------------------------------------------------------------
(* The process.                                                            *)

InFlight(r) == pc[r] \notin {"idle", "done"}

\* PostgreSQL rolls back what was open, and the pool starts empty.
Crash ==
    /\ \E r \in Req : InFlight(r)
    /\ pc' = [r \in Req |-> IF InFlight(r) THEN "done" ELSE pc[r]]
    /\ reply' = [r \in Req |-> IF InFlight(r) THEN "aborted" ELSE reply[r]]
    /\ cleared' = [r \in Req |-> {}] /\ made' = [r \in Req |-> {}]
    /\ seen' = [r \in Req |-> None]
    /\ held' = {} /\ lock' = None
    /\ UNCHANGED <<entry, req, view, faults>>

Finished == (\A r \in Req : At(r, "done")) /\ UNCHANGED vars

Serve(r) ==
    \/ CallFails(r)
    \/ UpdateEducation(r) \/ UpdateExperience(r)
    \/ UpdateCertification(r) \/ UpdateSkill(r)
    \/ BeginTx(r) \/ TxUpdate(r) \/ TxClear(r) \/ TxTech(r) \/ TxCommit(r)
    \/ WaitForRow(r) \/ Delete(r)
    \/ AddTechnology(r) \/ WaitForTechs(r) \/ DeleteTechnology(r)
    \/ Get(r) \/ GetTechs(r)

Next ==
    \/ \E r \in Req : Arrive(r) \/ Serve(r)
    \/ Crash
    \/ Finished

Spec == Init /\ [][Next]_vars

\* The Go scheduler runs every goroutine that can run, and a statement that
\* is not blocked returns.
FairSpec == Spec /\ \A r \in Req : WF_vars(Serve(r))

-----------------------------------------------------------------------------
(* Properties.                                                             *)

\* Every variable has its type.
TypeOK ==
    /\ kind \in Edited
    /\ row = None \/ row \in Row
    /\ \A t \in techs : t.by \in Req \cup {None}
    /\ log \in Seq(Req)
    /\ pc \in [Req -> {"idle", "update", "tx_begin", "tx_update", "tx_clear",
                       "tx_tech", "tx_commit", "delete", "delete_wait", "get",
                       "get_techs", "add_tech", "drop_tech", "drop_wait",
                       "done"}]
    /\ DOMAIN req = Req /\ DOMAIN view = Req /\ DOMAIN seen = Req
    /\ DOMAIN cleared = Req /\ DOMAIN made = Req
    /\ \A r \in Req : req[r] # None => req[r].op \in AllOps
    /\ reply \in [Req -> Replies \cup {None}]
    /\ held \subseteq Req
    /\ lock \in Req \cup {None}
    /\ faults \in 0..MaxFaults

DraftsAcceptedTwice ==
    \A k \in DOMAIN Drafts : \A d \in Drafts[k] :
        Validate(k, d) => Validate(k, BeforeSave(k, d))

\* A document that a handler accepts, before it is cleaned, is not refused by
\* the repository, which validates it after it has been cleaned.
AcceptedTwice ==
    /\ DraftsAcceptedTwice
    /\ \A r \in Req :
          reply[r] = "invalid" => ~Validate(kind, req[r].doc)

\* Whatever has been stored can be edited: the document that is read is
\* accepted again, and stored unchanged.
ReadBack ==
    row # None =>
        LET d == FromRow(kind, row.columns, [i \in {} |-> NoText])
        IN  /\ Validate(kind, d)
            /\ ToRow(kind, BeforeSave(kind, d)) = row.columns

\* A deletion of the technology has got to its statement.
Dropped(n) ==
    \E q \in Req : Asks(q, "DeleteTechnology") /\ req[q].name = n /\ At(q, "done")

\* Inserted by AddProjectTechnology.
Added(t) == t.by # None /\ Asks(t.by, "AddTechnology")

\* The columns and the technologies of a project are of one update: none of
\* an earlier one is left, and none is missing that was not deleted by name.
OneUpdate ==
    /\ row = None => techs = {}
    /\ \A t \in techs : t.by = row.by \/ Added(t)
    /\ row # None /\ row.by # None /\ IsProject =>
          LET list == Technologies(row.by)
          IN  \A i \in DOMAIN list :
                 \/ TechRows(row.by, list, {i}) \subseteq techs
                 \/ Dropped(list[i])

\* An entry whose deletion succeeded stays deleted with its technologies,
\* although updates of it have begun.
DeletedForGood ==
    \A r \in Req : Asks(r, "Delete") /\ reply[r] = "ok" =>
                      row = None /\ techs = {} /\ lock = None

\* The updates committed after the one that wrote by.
After(by) ==
    IF by = None THEN {log[i] : i \in DOMAIN log}
    ELSE {log[i] : i \in {j \in DOMAIN log :
                             \E k \in DOMAIN log : k < j /\ log[k] = by}}

\* GetProject may show the technologies of a later update than its columns,
\* never of an earlier one, and never of two.
ReadsForward ==
    \A r \in Req : view[r] # None =>
        LET by == view[r].row.by
            replaced == {t \in view[r].techs :
                           t.by = None \/ Asks(t.by, "Update")}
        IN  /\ \A t \in replaced : t.by = by \/ t.by \in After(by)
            /\ \A t, u \in replaced : t.by = u.by

\* The pool is never overdrawn; a request that is over keeps a connection only
\* as the update of a project that was not there; a lock has a connection.
ConnectionsAccounted ==
    /\ Cardinality(held) <= MaxConns
    /\ \A r \in held : At(r, "done") =>
          IsProject /\ Asks(r, "Update") /\ reply[r] = "not_found"
    /\ lock # None => lock \in held /\ InFlight(lock)

Leaked == {r \in held : At(r, "done")}

\* No two requests wait for each other: none of them, each of which comes but
\* once, stays under way for ever, unless updates of missing projects have used
\* up the pool.
EveryRequestEnds ==
    <>[](\A r \in Req : InFlight(r) => Cardinality(Leaked) = MaxConns)

-----------------------------------------------------------------------------
(* The inductive invariant behind them.                                    *)

InTx(r) == pc[r] \in {"tx_begin", "tx_update", "tx_clear", "tx_tech", "tx_commit"}

\* In its transaction, after the UPDATE.
Writing(r) == pc[r] \in {"tx_clear", "tx_tech", "tx_commit"}

\* In a transaction, or waiting for one.
Holding(r) == Writing(r) \/ pc[r] \in {"tx_update", "delete_wait", "drop_wait"}

\* The update is in the log, or the row is that of the start.
Logged(by) ==
    by = None \/ (Asks(by, "Update") /\ \E i \in DOMAIN log : log[i] = by)

\* The call a request is at goes with what it asks for.
Control(r) ==
    /\ pc[r] = "idle" <=> req[r] = None
    /\ pc[r] # "done" => reply[r] = None
    /\ InTx(r) => Asks(r, "Update") /\ IsProject
    /\ pc[r] = "update" => Asks(r, "Update") /\ ~IsProject
    /\ pc[r] \in {"delete", "delete_wait"} => Asks(r, "Delete")
    /\ pc[r] \in {"get", "get_techs"} => Asks(r, "Get")
    /\ pc[r] = "get_techs" => IsProject
    /\ pc[r] = "add_tech" => Asks(r, "AddTechnology")
    /\ pc[r] \in {"drop_tech", "drop_wait"} => Asks(r, "DeleteTechnology")
    /\ pc[r] = "drop_wait" => \A t \in seen[r] : t.name = req[r].name
    /\ Asks(r, "Update") => req[r].doc \in Drafts[kind]
    /\ Asks(r, "AddTechnology") => IsProject

ControlInv == \A r \in Req : Control(r)

\* The row is that of a document that was cleaned and accepted.
RowInv ==
    /\ row # None => \E d \in Drafts[kind] :
                        /\ Validate(kind, BeforeSave(kind, d))
                        /\ row.columns = ToRow(kind, BeforeSave(kind, d))
    /\ \A r \in Req : pc[r] = "update" \/ InTx(r) => Validate(kind, Saved(r))
    /\ ~IsProject => techs = {}

\* A transaction has the row to itself from its UPDATE on, and has deleted
\* what others than AddProjectTechnology have inserted.
TxInv ==
    /\ lock # None => row # None /\ lock \in held /\ Writing(lock)
    /\ \A r \in Req :
          /\ Writing(r) => lock = r
          /\ Holding(r) => r \in held
          /\ pc[r] \notin {"tx_tech", "tx_commit"} => made[r] = {}
          /\ pc[r] = "tx_commit" => made[r] = DOMAIN Technologies(r)
          /\ pc[r] \in {"tx_tech", "tx_commit"} =>
                \A t \in techs : t \in cleared[r] \/ Added(t)
    /\ \A r \in held : Holding(r) \/ At(r, "done")

\* Rows are written in the order of the log.
LogInv ==
    /\ row # None => Logged(row.by)
    /\ \A r \in Req : pc[r] = "get_techs" =>
          /\ Logged(seen[r].by)
          /\ row # None => row.by = seen[r].by \/ row.by \in After(seen[r].by)
    /\ \A r \in Req : view[r] # None =>
          \A t \in view[r].techs :
             t.by # None => t.by \in Req /\ req[t.by] # None

SafetyInv ==
    /\ TypeOK
    /\ ControlInv /\ RowInv /\ TxInv /\ LogInv
    /\ AcceptedTwice /\ OneUpdate /\ DeletedForGood /\ ReadsForward
    /\ ConnectionsAccounted

=============================================================================
