-------------------------- MODULE EntryEditsProofs --------------------------
(***************************************************************************)
(* Proofs about EntryEdits, for every set of requests and documents, every *)
(* size of the pool and every bound.                                       *)
(***************************************************************************)
EXTENDS EntryEdits, DocumentsProofs, FiniteSetTheorems

-----------------------------------------------------------------------------
(* Documents.                                                              *)

LEMMA DraftIsDocument ==
    ASSUME TypeOK, NEW d \in Drafts[kind]
    PROVE  kind \in EntryKinds /\ IsDocument(kind, d)
  BY EditsAssumption DEF TypeOK

LEMMA DraftsAccepted == DraftsAcceptedTwice
<1> SUFFICES ASSUME NEW k \in DOMAIN Drafts, NEW d \in Drafts[k], Validate(k, d)
             PROVE  Validate(k, BeforeSave(k, d))
  BY DEF DraftsAcceptedTwice
<1>1. IsDocument(k, d)
  BY EditsAssumption
<1>2. k \in Kinds
  BY <1>1 DEF IsDocument, Kinds, EntryKinds
<1> QED
  BY <1>1, <1>2, AcceptedAgain

-----------------------------------------------------------------------------
(* What a step leaves alone.                                               *)

Fixed(q) ==
    /\ pc'[q] = pc[q] /\ reply'[q] = reply[q] /\ req'[q] = req[q]
    /\ cleared'[q] = cleared[q] /\ made'[q] = made[q] /\ seen'[q] = seen[q]
    /\ view'[q] = view[q]
    /\ (q \in held' <=> q \in held)

LEMMA AnswerParts ==
    ASSUME TypeOK, NEW r \in Req, NEW result, Answer(r, result)
    PROVE  /\ pc'[r] = "done" /\ reply'[r] = result /\ cleared'[r] = {}
           /\ made'[r] = {} /\ seen'[r] = None
           /\ \A q \in Req \ {r} : /\ pc'[q] = pc[q] /\ reply'[q] = reply[q]
                                   /\ cleared'[q] = cleared[q]
                                   /\ made'[q] = made[q] /\ seen'[q] = seen[q]
  BY DEF TypeOK, Answer

LEMMA GotoParts ==
    ASSUME TypeOK, NEW r \in Req, NEW step, Goto(r, step)
    PROVE  /\ pc'[r] = step /\ reply' = reply
           /\ \A q \in Req \ {r} : pc'[q] = pc[q]
  BY DEF TypeOK, Goto

\* A step of a request changes nothing of another.
LEMMA ArriveFrame ==
    ASSUME TypeOK, NEW r \in Req, Arrive(r)
    PROVE  /\ UNCHANGED <<entry, view, held, lock, faults>> /\ pc[r] = "idle"
           /\ \A q \in Req \ {r} : Fixed(q)
<1>1. UNCHANGED <<entry, view, held, lock, faults>> /\ pc[r] = "idle"
  BY DEF Arrive, At
<1>2. \E b : req' = [req EXCEPT ![r] = b]
  BY DEF Arrive
<1>3. \A q \in Req \ {r} : req'[q] = req[q]
  BY <1>2 DEF TypeOK
<1>4. \/ \E step : Goto(r, step) /\ UNCHANGED local
      \/ Answer(r, "invalid")
  BY DEF Arrive
<1>5. CASE \E step : Goto(r, step) /\ UNCHANGED local
  BY <1>1, <1>3, <1>5, GotoParts DEF Fixed, local
<1>6. CASE Answer(r, "invalid")
  BY <1>1, <1>3, <1>6, AnswerParts DEF Fixed
<1> QED
  BY <1>1, <1>4, <1>5, <1>6

LEMMA RollbackFrame ==
    ASSUME TypeOK, NEW r \in Req, Rollback(r)
    PROVE  /\ pc'[r] = "done" /\ reply'[r] = "error" /\ held' = held \ {r}
           /\ lock' = IF lock = r THEN None ELSE lock
           /\ \A q \in Req \ {r} : view'[q] = view[q] /\ req'[q] = req[q]
                                     => Fixed(q)
  BY AnswerParts DEF Rollback, Fixed

LEMMA OverwriteFrame ==
    ASSUME TypeOK, NEW r \in Req, NEW k, Overwrite(r, k)
    PROVE  /\ UNCHANGED <<kind, techs, req, view, held, lock>>
           /\ pc[r] = "update" /\ kind = k
           /\ pc'[r] = "done" /\ reply'[r] \in {"ok", "error", "not_found"}
           /\ \A q \in Req \ {r} : Fixed(q)
<1>1. PICK result \in {"ok", "error", "not_found"} : Answer(r, result)
  BY DEF Overwrite
<1> QED
  BY <1>1, AnswerParts DEF Overwrite, Fixed, At

Updated(r) ==
    \/ UpdateEducation(r) \/ UpdateExperience(r)
    \/ UpdateCertification(r) \/ UpdateSkill(r)

LEMMA UpdatedIs ==
    ASSUME NEW r, Updated(r)
    PROVE  \E k \in {"education", "experience", "certifications", "skills"} :
              Overwrite(r, k)
  BY DEF Updated, UpdateEducation, UpdateExperience, UpdateCertification,
         UpdateSkill

LEMMA ServeCases ==
    ASSUME NEW r, Serve(r)
    PROVE  \/ CallFails(r) \/ Updated(r) \/ BeginTx(r) \/ TxUpdate(r)
           \/ TxClear(r) \/ TxTech(r) \/ TxCommit(r) \/ WaitForRow(r)
           \/ Delete(r) \/ AddTechnology(r) \/ WaitForTechs(r)
           \/ DeleteTechnology(r) \/ Get(r) \/ GetTechs(r)
  BY DEF Serve, Updated

LEMMA ServeFrame ==
    ASSUME TypeOK, NEW r \in Req, Serve(r)
    PROVE  /\ req' = req /\ kind' = kind /\ InFlight(r)
           /\ \A q \in Req \ {r} : Fixed(q)
<1> USE DEF At, entry, local
<1>1. CASE CallFails(r)
  BY <1>1, AnswerParts DEF CallFails, Fixed, InFlight
<1>2. CASE Updated(r)
  BY <1>2, UpdatedIs, OverwriteFrame DEF InFlight
<1>3. CASE BeginTx(r)
  <2>1. /\ UNCHANGED <<entry, req, view>> /\ pc[r] = "tx_begin"
        /\ held' = held \/ held' = held \cup {r}
    BY <1>3 DEF BeginTx
  <2>2. \/ Goto(r, "tx_update") /\ UNCHANGED local
        \/ Answer(r, "error")
    BY <1>3 DEF BeginTx
  <2> QED
    BY <2>1, <2>2, AnswerParts, GotoParts DEF Fixed, InFlight
<1>4. CASE TxUpdate(r)
  <2>1. UNCHANGED <<entry, req, view>> /\ pc[r] = "tx_update"
    BY <1>4 DEF TxUpdate
  <2>2. \/ Goto(r, "tx_clear") /\ UNCHANGED <<local, held>>
        \/ Answer(r, "not_found") /\ UNCHANGED held
        \/ Rollback(r)
    BY <1>4 DEF TxUpdate
  <2> QED
    BY <2>1, <2>2, AnswerParts, GotoParts, RollbackFrame DEF Fixed, InFlight
<1>5. CASE TxClear(r)
  <2>1. UNCHANGED <<entry, req, view>> /\ pc[r] = "tx_clear"
    BY <1>5 DEF TxClear
  <2>2. \/ /\ \E step : Goto(r, step)
           /\ cleared' = [cleared EXCEPT ![r] = Cleared]
           /\ UNCHANGED <<made, seen, held>>
        \/ Rollback(r)
    BY <1>5 DEF TxClear
  <2> QED
    BY <2>1, <2>2, GotoParts, RollbackFrame DEF TypeOK, Fixed, InFlight
<1>6. CASE TxTech(r)
  <2>1. UNCHANGED <<entry, req, view>> /\ pc[r] = "tx_tech"
    BY <1>6 DEF TxTech
  <2>2. \/ /\ \E step : Goto(r, step)
           /\ \E i : made' = [made EXCEPT ![r] = @ \cup {i}]
           /\ UNCHANGED <<cleared, seen, held>>
        \/ Rollback(r)
    BY <1>6 DEF TxTech
  <2> QED
    BY <2>1, <2>2, GotoParts, RollbackFrame DEF TypeOK, Fixed, InFlight
<1>7. CASE TxCommit(r)
  <2>1. UNCHANGED <<kind, req, view>> /\ pc[r] = "tx_commit"
    BY <1>7 DEF TxCommit
  <2>2. \/ Answer(r, "ok") /\ held' = held \ {r}
        \/ Rollback(r)
    BY <1>7 DEF TxCommit
  <2> QED
    BY <2>1, <2>2, AnswerParts, RollbackFrame DEF Fixed, InFlight
<1>8. CASE WaitForRow(r)
  BY <1>8, GotoParts DEF WaitForRow, Fixed, InFlight
<1>9. CASE Delete(r)
  <2>1. /\ UNCHANGED <<kind, req, view>> /\ pc[r] \in {"delete", "delete_wait"}
        /\ held' = held \ {r} /\ \E result : Answer(r, result)
    BY <1>9 DEF Delete
  <2> QED
    BY <2>1, AnswerParts DEF Fixed, InFlight
<1>10. CASE AddTechnology(r)
  BY <1>10, AnswerParts DEF AddTechnology, Fixed, InFlight
<1>11. CASE WaitForTechs(r)
  BY <1>11, GotoParts DEF TypeOK, WaitForTechs, Fixed, InFlight
<1>12. CASE DeleteTechnology(r)
  <2>1. /\ UNCHANGED <<kind, req, view>> /\ pc[r] \in {"drop_tech", "drop_wait"}
        /\ held' = held \ {r} /\ \E result : Answer(r, result)
    BY <1>12 DEF DeleteTechnology
  <2> QED
    BY <2>1, AnswerParts DEF Fixed, InFlight
<1>13. CASE Get(r)
  <2>1. UNCHANGED <<entry, req, held>> /\ pc[r] = "get"
    BY <1>13 DEF Get
  <2>2. \/ (\E result : Answer(r, result))
            /\ (UNCHANGED view \/ \E v : view' = [view EXCEPT ![r] = v])
        \/ /\ Goto(r, "get_techs") /\ UNCHANGED <<cleared, made, view>>
           /\ \E v : seen' = [seen EXCEPT ![r] = v]
    BY <1>13 DEF Get
  <2> QED
    BY <2>1, <2>2, AnswerParts, GotoParts DEF TypeOK, Fixed, InFlight
<1>14. CASE GetTechs(r)
  BY <1>14, AnswerParts DEF TypeOK, GetTechs, Fixed, InFlight
<1> QED
  BY <1>1, <1>2, <1>3, <1>4, <1>5, <1>6, <1>7, <1>8, <1>9, <1>10, <1>11,
     <1>12, <1>13, <1>14, ServeCases

-----------------------------------------------------------------------------
(* What a step does to the entry, to the request and to its connection.    *)

\* What of the row and its technologies a step changes.
OneStatement(r) ==
    /\ ~IsProject /\ pc[r] = "update" /\ row # None
    /\ row' = Stored(r, Saved(r)) /\ techs' = techs /\ Committed(r)

Commits(r) ==
    pc[r] = "tx_commit" /\ TxEffect(r) /\ lock' = None

Removes(r) ==
    /\ pc[r] \in {"delete", "delete_wait"} /\ lock = None /\ lock' = None
    /\ row' = None /\ techs' = {} /\ log' = log

Adds(r) ==
    /\ pc[r] = "add_tech" /\ row # None /\ UNCHANGED <<row, log>>
    /\ \E t : t.by = r /\ techs' = techs \cup {t}

Drops(r) ==
    /\ pc[r] \in {"drop_tech", "drop_wait"} /\ UNCHANGED <<row, log>>
    /\ \E found : /\ techs' = techs \ found
                  /\ \A t \in found : t.name = req[r].name

LEMMA EntrySteps ==
    ASSUME SafetyInv, NEW r \in Req, Serve(r)
    PROVE  \/ UNCHANGED entry
           \/ /\ pc'[r] = "done"
              /\ \/ OneStatement(r) \/ Commits(r) \/ Removes(r)
                 \/ Adds(r) \/ Drops(r)
<1> USE DEF SafetyInv, At
<1>1. CASE CallFails(r)
  BY <1>1 DEF CallFails
<1>2. CASE Updated(r)
  <2>1. PICK k \in {"education", "experience", "certifications", "skills"} :
           Overwrite(r, k)
    BY <1>2, UpdatedIs
  <2>2. \/ row # None /\ row' = Stored(r, Saved(r)) /\ Committed(r)
        \/ UNCHANGED <<row, log>>
    BY <2>1 DEF Overwrite
  <2> QED
    BY <2>1, <2>2, OverwriteFrame DEF OneStatement, IsProject, entry
<1>3. CASE BeginTx(r)
  BY <1>3 DEF BeginTx
<1>4. CASE TxUpdate(r)
  BY <1>4 DEF TxUpdate
<1>5. CASE TxClear(r)
  BY <1>5 DEF TxClear
<1>6. CASE TxTech(r)
  BY <1>6 DEF TxTech
<1>7. CASE TxCommit(r)
  <2>1. lock = r
    BY <1>7 DEF TxCommit, TxInv, Writing
  <2>2. pc'[r] = "done" /\ lock' = None
    BY <1>7, <2>1, AnswerParts, RollbackFrame DEF TxCommit
  <2>3. TxEffect(r) \/ UNCHANGED entry
    BY <1>7 DEF TxCommit, entry
  <2> QED
    BY <1>7, <2>2, <2>3 DEF TxCommit, Commits
<1>8. CASE WaitForRow(r)
  BY <1>8 DEF WaitForRow
<1>9. CASE Delete(r)
  <2>1. \E result : Answer(r, result)
    BY <1>9 DEF Delete
  <2> QED
    BY <1>9, <2>1, AnswerParts DEF Delete, Removes
<1>10. CASE AddTechnology(r)
  <2>1. pc'[r] = "done"
    BY <1>10, AnswerParts DEF AddTechnology
  <2>2. UNCHANGED entry \/ Adds(r)
    BY <1>10 DEF AddTechnology, Adds, entry
  <2> QED
    BY <2>1, <2>2
<1>11. CASE WaitForTechs(r)
  BY <1>11 DEF WaitForTechs
<1>12. CASE DeleteTechnology(r)
  <2> DEFINE found == IF At(r, "drop_wait") THEN seen[r] ELSE Named(r)
  <2>1. techs' = techs \ found /\ UNCHANGED <<row, log>>
    BY <1>12 DEF DeleteTechnology
  <2>2. pc'[r] = "done" /\ pc[r] \in {"drop_tech", "drop_wait"}
    BY <1>12, AnswerParts DEF DeleteTechnology
  <2>3. \A t \in found : t.name = req[r].name
    BY DEF ControlInv, Control, Named
  <2> HIDE DEF found
  <2> QED
    BY <2>1, <2>2, <2>3 DEF Drops
<1>13. CASE Get(r)
  BY <1>13 DEF Get
<1>14. CASE GetTechs(r)
  BY <1>14 DEF GetTechs
<1> QED
  BY <1>1, <1>2, <1>3, <1>4, <1>5, <1>6, <1>7, <1>8, <1>9, <1>10, <1>11,
     <1>12, <1>13, <1>14, ServeCases

\* The next call of a request, or its answer.
LEMMA ServeControl ==
    ASSUME SafetyInv, NEW r \in Req, Serve(r)
    PROVE  \/ pc'[r] = "done" /\ reply'[r] \in {"ok", "error", "not_found"}
           \/ /\ reply'[r] = reply[r]
              /\ \/ InTx(r) /\ pc'[r] \in {"tx_update", "tx_clear", "tx_tech",
                                           "tx_commit"}
                 \/ pc[r] = "delete" /\ pc'[r] = "delete_wait"
                 \/ pc[r] = "get" /\ pc'[r] = "get_techs" /\ IsProject
                 \/ /\ pc[r] = "drop_tech" /\ pc'[r] = "drop_wait"
                    /\ \A t \in seen'[r] : t.name = req[r].name
<1> USE DEF SafetyInv, At
<1>1. CASE CallFails(r)
  BY <1>1, AnswerParts DEF CallFails
<1>2. CASE Updated(r)
  BY <1>2, UpdatedIs, OverwriteFrame
<1>3. CASE BeginTx(r)
  BY <1>3, AnswerParts, GotoParts DEF BeginTx, InTx
<1>4. CASE TxUpdate(r)
  BY <1>4, AnswerParts, GotoParts, RollbackFrame DEF TxUpdate, InTx
<1>5. CASE TxClear(r)
  BY <1>5, GotoParts, RollbackFrame DEF TxClear, InTx, NextInsert
<1>6. CASE TxTech(r)
  BY <1>6, GotoParts, RollbackFrame DEF TxTech, InTx, NextInsert
<1>7. CASE TxCommit(r)
  BY <1>7, AnswerParts, RollbackFrame DEF TxCommit
<1>8. CASE WaitForRow(r)
  BY <1>8, GotoParts DEF WaitForRow
<1>9. CASE Delete(r)
  BY <1>9, AnswerParts DEF Delete
<1>10. CASE AddTechnology(r)
  BY <1>10, AnswerParts DEF AddTechnology
<1>11. CASE WaitForTechs(r)
  BY <1>11, GotoParts DEF WaitForTechs, TypeOK, Named
<1>12. CASE DeleteTechnology(r)
  <2>1. \E result \in {"ok", "error", "not_found"} : Answer(r, result)
    BY <1>12 DEF DeleteTechnology
  <2> QED
    BY <2>1, AnswerParts
<1>13. CASE Get(r)
  BY <1>13, AnswerParts, GotoParts DEF Get
<1>14. CASE GetTechs(r)
  BY <1>14, AnswerParts DEF GetTechs
<1> QED
  BY <1>1, <1>2, <1>3, <1>4, <1>5, <1>6, <1>7, <1>8, <1>9, <1>10, <1>11,
     <1>12, <1>13, <1>14, ServeCases

\* What a step does with the connection of its request and with the lock.
Quiet(r) ==
    ~Holding(r) /\ ~Holding(r)' /\ UNCHANGED <<held, lock>>

Waits(r) ==
    /\ ~Holding(r) /\ pc'[r] \in {"tx_update", "delete_wait", "drop_wait"}
    /\ Free /\ held' = held \cup {r} /\ lock' = lock /\ UNCHANGED entry

Ends(r) ==
    /\ pc'[r] = "done" /\ held' = held \ {r}
    /\ lock' = IF lock = r THEN None ELSE lock

Locks(r) ==
    /\ pc[r] = "tx_update" /\ lock = None /\ row # None
    /\ lock' = r /\ pc'[r] = "tx_clear" /\ held' = held /\ UNCHANGED entry

Writes(r) ==
    /\ Writing(r) /\ pc'[r] \in {"tx_tech", "tx_commit"}
    /\ cleared'[r] = IF pc[r] = "tx_clear" THEN techs ELSE cleared[r]
    /\ UNCHANGED <<held, lock, entry>>

Leaks(r) ==
    /\ pc[r] = "tx_update" /\ pc'[r] = "done" /\ reply'[r] = "not_found"
    /\ UNCHANGED <<held, lock, entry>>

LEMMA ServeConnections ==
    ASSUME SafetyInv, NEW r \in Req, Serve(r)
    PROVE  \/ Quiet(r) \/ Waits(r) \/ Ends(r)
           \/ Locks(r) \/ Writes(r) \/ Leaks(r)
<1> USE DEF SafetyInv, At
<1>1. ~Holding(r) => r \notin held /\ held \ {r} = held /\ lock # r
  <2>1. pc[r] # "done"
    BY ServeFrame DEF InFlight
  <2> QED
    BY <2>1, EditsAssumption DEF TxInv, At, Holding
<1>2. CASE CallFails(r)
  <2>1. pc'[r] = "done" /\ held' = held \ {r} /\ lock' = lock
    BY <1>2, AnswerParts DEF CallFails
  <2>2. ~Writing(r)
    BY <1>2 DEF CallFails, Writing
  <2> QED
    BY <2>1, <2>2, EditsAssumption DEF Ends, TxInv
<1>3. CASE Updated(r)
  BY <1>3, UpdatedIs, OverwriteFrame DEF Quiet, Holding, Writing
<1>4. CASE BeginTx(r)
  BY <1>4, AnswerParts, GotoParts DEF BeginTx, Quiet, Waits, Holding, Writing
<1>5. CASE TxUpdate(r)
  BY <1>5, AnswerParts, GotoParts, RollbackFrame
     DEF TxUpdate, Ends, Locks, Leaks
<1>6. CASE TxClear(r)
  BY <1>6, GotoParts, RollbackFrame
     DEF TxClear, Ends, Writes, Writing, NextInsert, Cleared, TypeOK
<1>7. CASE TxTech(r)
  <2>1. \/ /\ pc'[r] \in {"tx_tech", "tx_commit"} /\ cleared' = cleared
           /\ UNCHANGED <<held, lock, entry>>
        \/ Rollback(r)
    BY <1>7, GotoParts DEF TxTech, NextInsert
  <2> QED
    BY <1>7, <2>1, RollbackFrame DEF TxTech, Ends, Writes, Writing
<1>8. CASE TxCommit(r)
  <2>1. lock = r
    BY <1>8 DEF TxCommit, TxInv, Writing
  <2>2. \/ Answer(r, "ok") /\ held' = held \ {r} /\ lock' = None
        \/ Rollback(r)
    BY <1>8 DEF TxCommit
  <2> QED
    BY <2>1, <2>2, AnswerParts, RollbackFrame DEF Ends
<1>9. CASE WaitForRow(r)
  BY <1>9, GotoParts DEF WaitForRow, Waits, Holding, Writing
<1>10. CASE Delete(r)
  <2>1. \E result : Answer(r, result)
    BY <1>10 DEF Delete
  <2>2. held' = held \ {r} /\ lock' = lock /\ ~Writing(r)
    BY <1>10 DEF Delete, Writing
  <2> QED
    BY <2>1, <2>2, AnswerParts, EditsAssumption DEF Ends, TxInv
<1>11. CASE AddTechnology(r)
  BY <1>11, AnswerParts DEF AddTechnology, Quiet, Holding, Writing
<1>12. CASE WaitForTechs(r)
  BY <1>12, GotoParts DEF WaitForTechs, Waits, Holding, Writing
<1>13. CASE DeleteTechnology(r)
  <2>1. \E result : Answer(r, result)
    BY <1>13 DEF DeleteTechnology
  <2>2. held' = held \ {r} /\ lock' = lock /\ ~Writing(r)
    BY <1>13 DEF DeleteTechnology, Writing
  <2> QED
    BY <2>1, <2>2, AnswerParts, EditsAssumption DEF Ends, TxInv
<1>14. CASE Get(r)
  <2>1. (\E result : Answer(r, result)) \/ Goto(r, "get_techs")
    BY <1>14 DEF Get
  <2> QED
    BY <1>14, <2>1, AnswerParts, GotoParts DEF Get, Quiet, Holding, Writing
<1>15. CASE GetTechs(r)
  BY <1>15, AnswerParts DEF GetTechs, Quiet, Holding, Writing
<1> QED
  BY <1>2, <1>3, <1>4, <1>5, <1>6, <1>7, <1>8, <1>9, <1>10, <1>11, <1>12,
     <1>13, <1>14, <1>15, ServeCases

\* What the transaction of a request has inserted.
LEMMA ServeInserts ==
    ASSUME SafetyInv, NEW r \in Req, Serve(r)
    PROVE  /\ pc'[r] \notin {"tx_tech", "tx_commit"} => made'[r] = {}
           /\ pc'[r] = "tx_commit" => made'[r] = DOMAIN Technologies(r)
<1> USE DEF SafetyInv, At
<1>1. pc[r] \notin {"tx_tech", "tx_commit"} => made[r] = {}
  BY DEF TxInv
<1>2. (\E result : Answer(r, result)) =>
         pc'[r] = "done" /\ made'[r] = {}
  BY AnswerParts
<1>3. CASE \E result : Answer(r, result)
  BY <1>2, <1>3
<1>4. CASE TxClear(r)
  <2>1. pc[r] = "tx_clear"
    BY <1>4 DEF TxClear
  <2>2. (\E result : Answer(r, result))
           \/ (Goto(r, NextInsert(r, {})) /\ made' = made)
    BY <1>4 DEF TxClear, Rollback
  <2>3. Goto(r, NextInsert(r, {})) => pc'[r] = NextInsert(r, {})
    BY GotoParts
  <2> QED
    BY <1>1, <1>2, <2>1, <2>2, <2>3 DEF NextInsert
<1>5. CASE TxTech(r)
  BY <1>2, <1>5, GotoParts DEF TxTech, Rollback, NextInsert, TypeOK
<1>6. \/ \E result : Answer(r, result)
      \/ TxClear(r) \/ TxTech(r)
      \/ /\ pc[r] \notin {"tx_tech", "tx_commit"} /\ made' = made
         /\ \E step \in {"tx_update", "tx_clear", "delete_wait", "get_techs",
                         "drop_wait"} : Goto(r, step)
  <2>1. CASE Updated(r)
    BY <2>1, UpdatedIs DEF Overwrite
  <2>2. CASE CallFails(r) \/ BeginTx(r) \/ TxUpdate(r)
    BY <2>2 DEF CallFails, BeginTx, TxUpdate, Rollback, local
  <2>3. CASE TxCommit(r)
    BY <2>3 DEF TxCommit, Rollback
  <2>4. CASE WaitForRow(r) \/ WaitForTechs(r) \/ Get(r)
    BY <2>4 DEF WaitForRow, WaitForTechs, Get, local
  <2>5. CASE Delete(r)
    BY <2>5 DEF Delete
  <2>6. CASE DeleteTechnology(r)
    BY <2>6 DEF DeleteTechnology
  <2>7. CASE AddTechnology(r) \/ GetTechs(r)
    BY <2>7 DEF AddTechnology, GetTechs
  <2> QED
    BY <2>1, <2>2, <2>3, <2>4, <2>5, <2>6, <2>7, ServeCases
<1> QED
  BY <1>1, <1>3, <1>4, <1>5, <1>6, GotoParts

\* What a step of a request reads.
LEMMA ServeReads ==
    ASSUME SafetyInv, NEW r \in Req, Serve(r)
    PROVE  /\ pc'[r] = "get_techs" =>
                 seen'[r] = row /\ row # None /\ UNCHANGED entry
           /\ \/ view'[r] = view[r]
              \/ UNCHANGED entry /\ view'[r].techs = {}
              \/ /\ pc[r] = "get_techs" /\ UNCHANGED entry
                 /\ view'[r].row = seen[r] /\ view'[r].techs = techs
<1> USE DEF SafetyInv, At
<1>1. CASE Get(r)
  <2>1. CASE Answer(r, "not_found") /\ UNCHANGED view
    BY <2>1, AnswerParts
  <2>2. CASE /\ row # None /\ seen' = [seen EXCEPT ![r] = row]
             /\ UNCHANGED view
    BY <1>1, <2>2 DEF Get, TypeOK
  <2>3. CASE /\ view' = [view EXCEPT ![r] = [row |-> row, techs |-> {}]]
             /\ Answer(r, "ok")
    BY <1>1, <2>3, AnswerParts DEF Get, TypeOK
  <2> QED
    BY <1>1, <2>1, <2>2, <2>3 DEF Get
<1>2. CASE GetTechs(r)
  <2>1. view'[r] = [row |-> seen[r], techs |-> techs]
    BY <1>2 DEF GetTechs, TypeOK
  <2> QED
    BY <1>2, <2>1, AnswerParts DEF GetTechs
<1>3. CASE ~Get(r) /\ ~GetTechs(r)
  <2>1. view' = view
    <3>1. CASE Updated(r)
      BY <3>1, UpdatedIs, OverwriteFrame
    <3> QED
      BY <1>3, <3>1, ServeCases
         DEF CallFails, BeginTx, TxUpdate, TxClear, TxTech, TxCommit,
             WaitForRow, Delete, AddTechnology, WaitForTechs, DeleteTechnology
  <2>2. pc'[r] # "get_techs"
    <3>1. CASE CallFails(r) \/ Delete(r) \/ DeleteTechnology(r)
               \/ AddTechnology(r)
      <4>1. \E result : Answer(r, result)
        BY <3>1 DEF CallFails, Delete, DeleteTechnology, AddTechnology
      <4> QED
        BY <4>1, AnswerParts
    <3>2. CASE Updated(r)
      BY <3>2, UpdatedIs, OverwriteFrame
    <3>3. CASE BeginTx(r) \/ TxUpdate(r) \/ TxCommit(r)
      BY <3>3, AnswerParts, GotoParts, RollbackFrame
         DEF BeginTx, TxUpdate, TxCommit
    <3>4. CASE TxClear(r) \/ TxTech(r)
      <4>1. \A positions : NextInsert(r, positions) # "get_techs"
        BY DEF NextInsert
      <4>2. Rollback(r) \/ \E positions : Goto(r, NextInsert(r, positions))
        BY <3>4 DEF TxClear, TxTech
      <4> QED
        BY <4>1, <4>2, GotoParts, RollbackFrame
    <3>5. CASE WaitForRow(r) \/ WaitForTechs(r)
      BY <3>5, GotoParts DEF WaitForRow, WaitForTechs
    <3> QED
      BY <1>3, <3>1, <3>2, <3>3, <3>4, <3>5, ServeCases
  <2> QED
    BY <2>1, <2>2
<1> QED
  BY <1>1, <1>2, <1>3

\* A deletion that is answered "ok" has deleted.
LEMMA DeleteAnswered ==
    ASSUME SafetyInv, NEW r \in Req, Serve(r), Asks(r, "Delete"),
           reply'[r] = "ok"
    PROVE  row' = None /\ techs' = {} /\ lock' = None
<1> USE DEF SafetyInv
<1>1. Control(r)
  BY DEF ControlInv
<1>2. ~InTx(r) /\ pc[r] \notin {"update", "add_tech", "get", "get_techs",
                                "drop_tech", "drop_wait"}
  BY <1>1 DEF Control, Asks
<1>3. reply[r] = None
  BY <1>1, ServeFrame DEF Control, InFlight
<1>4. CASE CallFails(r)
  BY <1>4, AnswerParts DEF CallFails
<1>5. CASE WaitForRow(r)
  BY <1>3, <1>5, GotoParts, EditsAssumption DEF WaitForRow, Replies
<1>6. CASE Delete(r)
  BY <1>6 DEF Delete
<1>7. CASE Updated(r)
  BY <1>2, <1>7, UpdatedIs, OverwriteFrame
<1> QED
  BY <1>2, <1>4, <1>5, <1>6, <1>7, ServeCases
     DEF InTx, BeginTx, TxUpdate, TxClear, TxTech, TxCommit, AddTechnology,
         WaitForTechs, DeleteTechnology, Get, GetTechs, At

-----------------------------------------------------------------------------
(* Types.                                                                  *)

Steps == {"idle", "update", "tx_begin", "tx_update", "tx_clear", "tx_tech",
          "tx_commit", "delete", "delete_wait", "get", "get_techs",
          "add_tech", "drop_tech", "drop_wait", "done"}

\* The variables of the requests have one value for each of them.
Shapes ==
    /\ pc' \in [Req -> Steps] /\ reply' \in [Req -> Replies \cup {None}]
    /\ DOMAIN view' = Req /\ DOMAIN seen' = Req
    /\ DOMAIN cleared' = Req /\ DOMAIN made' = Req
    /\ faults' \in 0..MaxFaults

LEMMA AnswerShape ==
    ASSUME TypeOK, NEW r \in Req, NEW result \in Replies, Answer(r, result)
    PROVE  /\ pc' \in [Req -> Steps] /\ reply' \in [Req -> Replies \cup {None}]
           /\ DOMAIN seen' = Req /\ DOMAIN cleared' = Req
           /\ DOMAIN made' = Req
  BY DEF TypeOK, Answer, Steps

LEMMA GotoShape ==
    ASSUME TypeOK, NEW r \in Req, NEW step \in Steps, Goto(r, step)
    PROVE  /\ pc' \in [Req -> Steps] /\ reply' \in [Req -> Replies \cup {None}]
  BY DEF TypeOK, Goto, Steps

LEMMA FaultShape ==
    ASSUME TypeOK, Fault \/ NoFault
    PROVE  faults' \in 0..MaxFaults
  BY EditsAssumption DEF TypeOK, Fault, NoFault

LEMMA ServeShapes ==
    ASSUME SafetyInv, NEW r \in Req, Serve(r)
    PROVE  Shapes
<1> USE DEF SafetyInv, Replies, Steps
<1>1. DOMAIN view' = Req
  <2>1. CASE Get(r) \/ GetTechs(r)
    BY <2>1 DEF Get, GetTechs, TypeOK
  <2>2. CASE Updated(r)
    BY <2>2, UpdatedIs, OverwriteFrame DEF TypeOK
  <2> QED
    BY <2>1, <2>2, ServeCases
       DEF TypeOK, CallFails, BeginTx, TxUpdate, TxClear, TxTech, TxCommit,
           WaitForRow, Delete, AddTechnology, WaitForTechs, DeleteTechnology
<1>2. faults' \in 0..MaxFaults
  <2>1. CASE Updated(r)
    BY <2>1, UpdatedIs, FaultShape DEF Overwrite
  <2>2. CASE Delete(r) \/ DeleteTechnology(r) \/ AddTechnology(r)
    BY <2>2, FaultShape DEF Delete, DeleteTechnology, AddTechnology
  <2>3. CASE CallFails(r) \/ BeginTx(r) \/ TxUpdate(r) \/ TxClear(r)
             \/ TxTech(r) \/ TxCommit(r)
    BY <2>3, FaultShape
       DEF CallFails, BeginTx, TxUpdate, TxClear, TxTech, TxCommit
  <2>4. CASE WaitForRow(r) \/ WaitForTechs(r) \/ Get(r) \/ GetTechs(r)
    BY <2>4 DEF WaitForRow, WaitForTechs, Get, GetTechs, TypeOK
  <2> QED
    BY <2>1, <2>2, <2>3, <2>4, ServeCases
<1>3. \/ \E result \in Replies : Answer(r, result)
      \/ /\ \E step \in Steps : Goto(r, step)
         /\ DOMAIN seen' = Req /\ DOMAIN cleared' = Req /\ DOMAIN made' = Req
  <2>1. CASE Updated(r)
    BY <2>1, UpdatedIs DEF Overwrite
  <2>2. CASE CallFails(r) \/ TxCommit(r) \/ GetTechs(r) \/ AddTechnology(r)
    BY <2>2 DEF CallFails, TxCommit, Rollback, GetTechs, AddTechnology
  <2>3. CASE Delete(r) \/ DeleteTechnology(r)
    BY <2>3 DEF Delete, DeleteTechnology
  <2>4. CASE BeginTx(r) \/ TxUpdate(r) \/ WaitForRow(r)
    BY <2>4 DEF BeginTx, TxUpdate, WaitForRow, Rollback, local, TypeOK
  <2>5. CASE TxClear(r)
    <3>1. NextInsert(r, {}) \in Steps
      BY DEF NextInsert
    <3>2. CASE Rollback(r)
      BY <3>2 DEF Rollback
    <3>3. CASE /\ cleared' = [cleared EXCEPT ![r] = Cleared]
               /\ Goto(r, NextInsert(r, {})) /\ UNCHANGED <<made, seen>>
      BY <3>1, <3>3 DEF TypeOK
    <3> QED
      BY <2>5, <3>2, <3>3 DEF TxClear
  <2>6. CASE TxTech(r)
    <3>1. \A positions : NextInsert(r, positions) \in Steps
      BY DEF NextInsert
    <3>2. CASE Rollback(r)
      BY <3>2 DEF Rollback
    <3>3. CASE /\ \E i : /\ made' = [made EXCEPT ![r] = @ \cup {i}]
                         /\ Goto(r, NextInsert(r, made[r] \cup {i}))
               /\ UNCHANGED <<cleared, seen>>
      BY <3>1, <3>3 DEF TypeOK
    <3> QED
      BY <2>6, <3>2, <3>3 DEF TxTech
  <2>7. CASE WaitForTechs(r)
    BY <2>7 DEF WaitForTechs, TypeOK
  <2>8. CASE Get(r)
    BY <2>8 DEF Get, TypeOK
  <2> QED
    BY <2>1, <2>2, <2>3, <2>4, <2>5, <2>6, <2>7, <2>8, ServeCases
<1> HIDE DEF Replies, Steps
<1> QED
  BY <1>1, <1>2, <1>3, AnswerShape, GotoShape DEF Shapes

-----------------------------------------------------------------------------
(* The other steps.                                                        *)

Idle == UNCHANGED vars

LEMMA AskedIs ==
    ASSUME NEW o \in AllOps, NEW n \in Names \cup {None}
    PROVE  [op |-> o, doc |-> None, name |-> n] \in Request
  BY DEF Request

\* What a request that arrives asks for, and how it goes on.
LEMMA ArriveIs ==
    ASSUME SafetyInv, NEW r \in Req, Arrive(r)
    PROVE  /\ req'[r] \in Request /\ req'[r] # None
           /\ req' = [req EXCEPT ![r] = req'[r]]
           /\ \/ /\ req'[r].op = "Update" /\ req'[r].doc \in Drafts[kind]
                 /\ \/ /\ Validate(kind, BeforeSave(kind, req'[r].doc))
                       /\ Goto(r, IF IsProject THEN "tx_begin" ELSE "update")
                       /\ UNCHANGED local
                    \/ /\ ~Validate(kind, BeforeSave(kind, req'[r].doc))
                       /\ Answer(r, "invalid")
              \/ /\ \E o \in AllOps \ {"Update"} :
                       req'[r].op = o /\ Goto(r, FirstCall[o])
                 /\ req'[r].op \in ProjectOps => IsProject
                 /\ UNCHANGED local
<1> USE DEF SafetyInv
<1>1. PICK b \in Request :
         /\ req' = [req EXCEPT ![r] = b]
         /\ \/ /\ b.op = "Update" /\ b.doc \in Drafts[kind]
               /\ \/ /\ Validate(kind, BeforeSave(kind, b.doc))
                     /\ Goto(r, IF IsProject THEN "tx_begin" ELSE "update")
                     /\ UNCHANGED local
                  \/ /\ ~Validate(kind, BeforeSave(kind, b.doc))
                     /\ Answer(r, "invalid")
            \/ /\ \E o \in AllOps \ {"Update"} :
                     b.op = o /\ Goto(r, FirstCall[o])
               /\ b.op \in ProjectOps => IsProject
               /\ UNCHANGED local
  <2>1. CASE \E d \in Drafts[kind] :
               /\ req' = [req EXCEPT ![r] =
                            [op |-> "Update", doc |-> d, name |-> None]]
               /\ IF Validate(kind, BeforeSave(kind, d))
                    THEN /\ Goto(r, IF IsProject THEN "tx_begin" ELSE "update")
                         /\ UNCHANGED local
                    ELSE Answer(r, "invalid")
    <3>1. PICK d \in Drafts[kind] :
               /\ req' = [req EXCEPT ![r] =
                            [op |-> "Update", doc |-> d, name |-> None]]
               /\ IF Validate(kind, BeforeSave(kind, d))
                    THEN /\ Goto(r, IF IsProject THEN "tx_begin" ELSE "update")
                         /\ UNCHANGED local
                    ELSE Answer(r, "invalid")
      BY <2>1
    <3> DEFINE b == [op |-> "Update", doc |-> d, name |-> None]
    <3>2. b \in Request
      BY DEF Request, AllOps, TypeOK
    <3>3. b.op = "Update" /\ b.doc = d
      OBVIOUS
    <3>4. req' = [req EXCEPT ![r] = b]
      BY <3>1
    <3> HIDE DEF b
    <3> QED
      BY <3>1, <3>2, <3>3, <3>4
  <2>2. CASE \E o \in {"Delete", "Get"} :
               /\ req' = [req EXCEPT ![r] =
                            [op |-> o, doc |-> None, name |-> None]]
               /\ Goto(r, FirstCall[o]) /\ UNCHANGED local
    <3>1. PICK o \in {"Delete", "Get"} :
               /\ req' = [req EXCEPT ![r] =
                            [op |-> o, doc |-> None, name |-> None]]
               /\ Goto(r, FirstCall[o]) /\ UNCHANGED local
      BY <2>2
    <3> DEFINE b == [op |-> o, doc |-> None, name |-> None]
    <3>2. o \in AllOps /\ o # "Update" /\ o \notin ProjectOps
      BY DEF AllOps, ProjectOps
    <3>4. b \in Request
      BY <3>2, AskedIs
    <3>5. b.op = o
      OBVIOUS
    <3>3. req' = [req EXCEPT ![r] = b]
      BY <3>1
    <3> HIDE DEF b
    <3> QED
      BY <3>1, <3>2, <3>3, <3>4, <3>5
  <2>3. CASE \E o \in ProjectOps, n \in Names :
               /\ IsProject
               /\ req' = [req EXCEPT ![r] =
                            [op |-> o, doc |-> None, name |-> n]]
               /\ Goto(r, FirstCall[o]) /\ UNCHANGED local
    <3>1. PICK o \in ProjectOps, n \in Names :
               /\ IsProject
               /\ req' = [req EXCEPT ![r] =
                            [op |-> o, doc |-> None, name |-> n]]
               /\ Goto(r, FirstCall[o]) /\ UNCHANGED local
      BY <2>3
    <3> DEFINE b == [op |-> o, doc |-> None, name |-> n]
    <3>2. o \in AllOps /\ o # "Update"
      BY DEF AllOps, ProjectOps
    <3>4. b \in Request
      BY <3>2, AskedIs
    <3>5. b.op = o
      OBVIOUS
    <3>3. req' = [req EXCEPT ![r] = b]
      BY <3>1
    <3> HIDE DEF b
    <3> QED
      BY <3>1, <3>2, <3>3, <3>4, <3>5
  <2> QED
    BY <2>1, <2>2, <2>3 DEF Arrive
<1>2. req'[r] = b
  BY <1>1 DEF TypeOK
<1> QED
  BY <1>1, <1>2, EditsAssumption

LEMMA ArriveTypes ==
    ASSUME SafetyInv, NEW r \in Req, Arrive(r)
    PROVE  TypeOK'
<1> USE DEF SafetyInv
<1>1. UNCHANGED <<kind, row, techs, log, view, held, lock, faults>>
  BY ArriveFrame DEF entry
<1>2. /\ DOMAIN req' = Req
      /\ \A q \in Req : req'[q] # None => req'[q].op \in AllOps
  BY ArriveIs DEF TypeOK, Request
<1>3. \/ \E step \in Steps : Goto(r, step) /\ UNCHANGED local
      \/ Answer(r, "invalid")
  BY ArriveIs DEF FirstCall, AllOps, ProjectOps, Steps
<1>4. /\ pc' \in [Req -> Steps] /\ reply' \in [Req -> Replies \cup {None}]
      /\ DOMAIN seen' = Req /\ DOMAIN cleared' = Req /\ DOMAIN made' = Req
  <2>1. "invalid" \in Replies
    BY DEF Replies
  <2>2. CASE \E step \in Steps : Goto(r, step) /\ UNCHANGED local
    BY <2>2, GotoShape DEF TypeOK, local
  <2> QED
    BY <1>3, <2>1, <2>2, AnswerShape
<1> QED
  BY <1>1, <1>2, <1>4 DEF TypeOK, Steps

\* What an update writes is a row.
LEMMA StoredIsRow ==
    ASSUME SafetyInv, NEW r \in Req, pc[r] = "update" \/ InTx(r)
    PROVE  Stored(r, Saved(r)) \in Row /\ Stored(r, Saved(r)) # None
<1>1. req[r].doc \in Drafts[kind]
  BY DEF SafetyInv, ControlInv, Control
<1> QED
  BY <1>1, EditsAssumption DEF SafetyInv, TypeOK, Stored, Saved, Row

LEMMA ServeTypes ==
    ASSUME SafetyInv, NEW r \in Req, Serve(r)
    PROVE  TypeOK'
<1> USE DEF SafetyInv
<1>1. req' = req /\ kind' = kind
  BY ServeFrame
<1>2. row' = None \/ row' \in Row
  <2>1. CASE OneStatement(r) \/ Commits(r)
    BY <2>1, StoredIsRow DEF OneStatement, Commits, TxEffect, InTx
  <2>2. row' \in {row, None} \/ OneStatement(r) \/ Commits(r)
    BY EntrySteps DEF entry, Removes, Adds, Drops
  <2> QED
    BY <2>1, <2>2 DEF TypeOK
<1>3. \A t \in techs' : t.by \in Req \cup {None}
  <2>1. CASE Commits(r)
    BY <2>1 DEF Commits, TxEffect, TechRows, TypeOK
  <2> QED
    BY <2>1, EntrySteps
       DEF entry, OneStatement, Removes, Adds, Drops, TypeOK
<1>4. log' \in Seq(Req)
  <2>1. log' = log \/ log' = Append(log, r)
    BY EntrySteps DEF entry, OneStatement, Commits, TxEffect, Removes, Adds,
                      Drops, Committed
  <2> QED
    BY <2>1 DEF TypeOK
<1>5. held' \subseteq Req /\ lock' \in Req \cup {None}
  BY ServeConnections DEF Quiet, Waits, Ends, Locks, Writes, Leaks, TypeOK
<1>6. Shapes
  BY ServeShapes
<1> QED
  BY <1>1, <1>2, <1>3, <1>4, <1>5, <1>6 DEF TypeOK, Shapes, Steps

\* What a crash leaves of a request.
LEMMA CrashParts ==
    ASSUME SafetyInv, Crash
    PROVE  /\ UNCHANGED <<entry, req, view, faults>> /\ held' = {}
           /\ lock' = None
           /\ \A q \in Req :
                 /\ pc'[q] = (IF InFlight(q) THEN "done" ELSE pc[q])
                 /\ reply'[q] = (IF InFlight(q) THEN "aborted" ELSE reply[q])
                 /\ made'[q] = {}
  BY DEF Crash

LEMMA CrashTypes ==
    ASSUME SafetyInv, Crash
    PROVE  TypeOK'
<1>1. pc' \in [Req -> Steps] /\ reply' \in [Req -> Replies \cup {None}]
  BY DEF Crash, SafetyInv, TypeOK, Steps, Replies
<1>2. DOMAIN seen' = Req /\ DOMAIN cleared' = Req /\ DOMAIN made' = Req
  BY DEF Crash
<1>3. UNCHANGED <<kind, row, techs, log, req, view, faults>>
      /\ held' = {} /\ lock' = None
  BY DEF Crash, entry
<1> QED
  BY <1>1, <1>2, <1>3 DEF SafetyInv, TypeOK, Steps

-----------------------------------------------------------------------------
(* Control, the row and its transaction.                                   *)

\* What a request asks for is kept.
LEMMA AskedKept ==
    ASSUME SafetyInv, NEW r \in Req, Arrive(r) \/ Serve(r)
    PROVE  \A q \in Req : req[q] # None => req'[q] = req[q]
<1>1. CASE Arrive(r)
  <2>1. req[r] = None
    BY <1>1, ArriveFrame DEF SafetyInv, ControlInv, Control
  <2> QED
    BY <1>1, <2>1, ArriveFrame DEF SafetyInv, Fixed
<1>2. CASE Serve(r)
  BY <1>2, ServeFrame DEF SafetyInv
<1> QED
  BY <1>1, <1>2

LEMMA ControlFixed ==
    ASSUME SafetyInv, NEW q \in Req, Fixed(q), kind' = kind
    PROVE  Control(q)'
<1>1. Control(q)
  BY DEF SafetyInv, ControlInv
<1>2. /\ pc'[q] = pc[q] /\ reply'[q] = reply[q] /\ req'[q] = req[q]
      /\ seen'[q] = seen[q]
  BY DEF Fixed
<1> QED
  BY <1>1, <1>2 DEF Control, Asks, InTx, IsProject

LEMMA ArriveControl ==
    ASSUME SafetyInv, NEW r \in Req, Arrive(r)
    PROVE  ControlInv'
<1>1. kind' = kind /\ \A q \in Req \ {r} : Fixed(q)
  BY ArriveFrame DEF SafetyInv, entry
<1>2. pc[r] = "idle" /\ reply[r] = None
  BY ArriveFrame DEF SafetyInv, ControlInv, Control
<1>3. CASE req'[r].op = "Update"
  <2>1. \/ pc'[r] = "done"
        \/ pc'[r] = "tx_begin" /\ IsProject /\ reply' = reply
        \/ pc'[r] = "update" /\ ~IsProject /\ reply' = reply
    BY <1>3, ArriveIs, AnswerParts, GotoParts DEF SafetyInv
  <2>2. req'[r] # None /\ req'[r].doc \in Drafts[kind]
    BY <1>3, ArriveIs
  <2> QED
    BY <1>1, <1>2, <1>3, <2>1, <2>2, ControlFixed
       DEF ControlInv, Control, Asks, InTx, IsProject
<1>4. CASE req'[r].op # "Update"
  <2>1. \/ req'[r].op = "Delete" /\ pc'[r] = "delete"
        \/ req'[r].op = "Get" /\ pc'[r] = "get"
        \/ req'[r].op = "AddTechnology" /\ pc'[r] = "add_tech" /\ IsProject
        \/ req'[r].op = "DeleteTechnology" /\ pc'[r] = "drop_tech"
    BY <1>4, ArriveIs, GotoParts
       DEF SafetyInv, AllOps, ProjectOps, FirstCall
  <2>2. req'[r] # None /\ reply' = reply
    BY <1>4, ArriveIs, GotoParts DEF SafetyInv
  <2> QED
    BY <1>1, <1>2, <2>1, <2>2, ControlFixed
       DEF ControlInv, Control, Asks, InTx, IsProject
<1> QED
  BY <1>3, <1>4

LEMMA ServeControlInv ==
    ASSUME SafetyInv, NEW r \in Req, Serve(r)
    PROVE  ControlInv'
<1>1. /\ kind' = kind /\ req' = req /\ InFlight(r)
      /\ \A q \in Req \ {r} : Fixed(q)
  BY ServeFrame DEF SafetyInv
<1>2. Control(r)
  BY DEF SafetyInv, ControlInv
<1>3. Control(r)'
  BY <1>1, <1>2, ServeControl DEF Control, Asks, InTx, IsProject, InFlight
<1> QED
  BY <1>1, <1>3, ControlFixed DEF ControlInv

LEMMA CrashControl ==
    ASSUME SafetyInv, Crash
    PROVE  ControlInv'
<1> SUFFICES ASSUME NEW q \in Req
             PROVE  Control(q)'
  BY DEF ControlInv
<1>1. Control(q) /\ kind' = kind /\ req' = req
  BY CrashParts DEF SafetyInv, ControlInv, entry
<1>2. \/ pc'[q] = "done" /\ pc[q] # "idle"
      \/ pc'[q] = pc[q] /\ reply'[q] = reply[q] /\ pc[q] \in {"idle", "done"}
  BY CrashParts DEF InFlight
<1> QED
  BY <1>1, <1>2 DEF Control, Asks, InTx, IsProject

LEMMA ArriveRow ==
    ASSUME SafetyInv, NEW r \in Req, Arrive(r)
    PROVE  RowInv'
<1>1. UNCHANGED <<kind, row, techs>> /\ \A q \in Req \ {r} : Fixed(q)
  BY ArriveFrame DEF SafetyInv, entry
<1>2. pc'[r] = "update" \/ InTx(r)' => Validate(kind, Saved(r))'
  <2>1. CASE req'[r].op = "Update"
    BY <1>1, <2>1, ArriveIs, AnswerParts DEF SafetyInv, InTx, Saved
  <2>2. CASE req'[r].op # "Update"
    <3>1. pc'[r] \in {"delete", "get", "add_tech", "drop_tech"}
      BY <2>2, ArriveIs, GotoParts
         DEF SafetyInv, AllOps, ProjectOps, FirstCall
    <3> QED
      BY <3>1 DEF InTx
  <2> QED
    BY <2>1, <2>2
<1> QED
  BY <1>1, <1>2 DEF SafetyInv, RowInv, Fixed, InTx, Saved, IsProject

LEMMA ServeRow ==
    ASSUME SafetyInv, NEW r \in Req, Serve(r)
    PROVE  RowInv'
<1>1. /\ kind' = kind /\ req' = req
      /\ \A q \in Req \ {r} : Fixed(q)
  BY ServeFrame DEF SafetyInv
<1>2. \A q \in Req : pc'[q] = "update" \/ InTx(q)' =>
                        pc[q] = "update" \/ InTx(q)
  BY <1>1, ServeControl DEF Fixed, InTx
<1>3. Control(r)
  BY DEF SafetyInv, ControlInv
<1>4. row' # None => \E d \in Drafts[kind] :
                        /\ Validate(kind, BeforeSave(kind, d))
                        /\ row'.columns = ToRow(kind, BeforeSave(kind, d))
  <2>1. CASE OneStatement(r) \/ Commits(r)
    <3>1. row' = Stored(r, Saved(r)) /\ (pc[r] = "update" \/ InTx(r))
      BY <2>1 DEF OneStatement, Commits, TxEffect, InTx
    <3>2. req[r].doc \in Drafts[kind]
      BY <1>3, <3>1 DEF Control
    <3>3. Validate(kind, Saved(r))
      BY <3>1 DEF SafetyInv, RowInv
    <3> QED
      BY <3>1, <3>2, <3>3 DEF Stored, Saved
  <2> QED
    BY <2>1, EntrySteps DEF entry, Removes, Adds, Drops, SafetyInv, RowInv
<1>5. ~IsProject => techs' = {}
  BY <1>3, EntrySteps
     DEF entry, OneStatement, Commits, Removes, Adds, Drops, SafetyInv, RowInv,
         Control, InTx
<1> QED
  BY <1>1, <1>2, <1>4, <1>5 DEF SafetyInv, RowInv, Saved, IsProject

LEMMA CrashRow ==
    ASSUME SafetyInv, Crash
    PROVE  RowInv'
<1>1. UNCHANGED <<kind, row, techs, req>>
  BY CrashParts DEF entry
<1>2. \A q \in Req : pc'[q] \in {"done", pc[q]}
  BY CrashParts
<1> QED
  BY <1>1, <1>2 DEF SafetyInv, RowInv, Saved, IsProject, InTx

LEMMA ArriveTx ==
    ASSUME SafetyInv, NEW r \in Req, Arrive(r)
    PROVE  TxInv'
<1>1. /\ UNCHANGED <<kind, row, techs, held, lock>> /\ pc[r] = "idle"
      /\ \A q \in Req \ {r} : Fixed(q)
  BY ArriveFrame DEF SafetyInv, entry
<1>2. /\ pc'[r] \in {"done", "tx_begin", "update", "delete", "get", "add_tech",
                     "drop_tech"}
      /\ made'[r] = {}
  <2>1. made[r] = {}
    BY <1>1 DEF SafetyInv, TxInv
  <2> QED
    BY <2>1, ArriveIs, AnswerParts, GotoParts
       DEF SafetyInv, AllOps, ProjectOps, FirstCall, local
<1>3. r \notin held
  BY <1>1 DEF SafetyInv, TxInv, At, Holding, Writing
<1>4. \A t \in techs : Added(t) => Added(t)'
  BY AskedKept DEF Added, Asks, SafetyInv, TypeOK
<1>5. lock # r
  BY <1>1, EditsAssumption DEF SafetyInv, TxInv, Writing
<1> QED
  BY <1>1, <1>2, <1>3, <1>4, <1>5
     DEF SafetyInv, TypeOK, TxInv, Fixed, At, Holding, Writing, Technologies,
         Saved

LEMMA ServeTx ==
    ASSUME SafetyInv, NEW r \in Req, Serve(r)
    PROVE  TxInv'
<1>1. /\ kind' = kind /\ req' = req /\ InFlight(r)
      /\ \A q \in Req \ {r} : Fixed(q)
  BY ServeFrame DEF SafetyInv
<1>2. \A q \in Req : Control(q)
  BY DEF SafetyInv, ControlInv
<1>3. lock # None => lock \in held /\ lock \in Req /\ Writing(lock)
  BY DEF SafetyInv, TypeOK, TxInv
<1>4. row' = None => row = None \/ lock' = None
  BY EntrySteps, StoredIsRow
     DEF entry, OneStatement, Commits, Removes, Adds, Drops
<1>5. lock' # None => row' # None /\ lock' \in held' /\ Writing(lock)'
  BY <1>1, <1>3, <1>4, ServeConnections
     DEF SafetyInv, TxInv, Quiet, Waits, Ends, Locks, Writes, Leaks, Holding,
         Writing, Fixed, entry
<1>6. \A q \in Req : Writing(q)' => lock' = q
  BY <1>1, <1>3, ServeConnections, EditsAssumption
     DEF SafetyInv, TxInv, Quiet, Waits, Ends, Locks, Writes, Leaks, Holding,
         Writing, Fixed
<1>7. \A q \in Req : Holding(q)' => q \in held'
  BY <1>1, ServeConnections
     DEF SafetyInv, TxInv, Quiet, Waits, Ends, Locks, Writes, Leaks, Holding,
         Writing, Fixed
<1>8. \A q \in Req :
         /\ pc'[q] \notin {"tx_tech", "tx_commit"} => made'[q] = {}
         /\ pc'[q] = "tx_commit" => made'[q] = DOMAIN (Technologies(q)')
  BY <1>1, ServeInserts DEF SafetyInv, TxInv, Fixed, Technologies, Saved
<1>9. \A q \in Req : pc'[q] \in {"tx_tech", "tx_commit"} =>
         \A t \in techs' : t \in cleared'[q] \/ Added(t)'
  <2> SUFFICES ASSUME NEW q \in Req, pc'[q] \in {"tx_tech", "tx_commit"},
                      NEW t \in techs'
               PROVE  t \in cleared'[q] \/ Added(t)
    BY <1>1 DEF Added, Asks
  <2>1. CASE q = r
    <3>1. Writes(r)
      BY <2>1, ServeConnections
         DEF Quiet, Waits, Ends, Locks, Leaks, Holding, Writing
    <3> QED
      BY <2>1, <3>1 DEF Writes, Writing, entry, SafetyInv, TxInv
  <2>2. CASE q # r
    <3>1. pc[q] = pc'[q] /\ cleared'[q] = cleared[q]
      BY <1>1, <2>2 DEF Fixed
    <3>2. lock = q /\ lock # None
      BY <3>1, EditsAssumption DEF SafetyInv, TxInv, Writing
    <3>3. IsProject
      BY <1>2, <3>1 DEF Control, InTx
    <3>4. t \in techs \/ Added(t)
      <4>1. pc[r] # "tx_commit"
        BY <2>2, <3>2 DEF SafetyInv, TxInv, Writing
      <4>2. CASE Adds(r)
        BY <1>2, <4>2, EditsAssumption DEF Adds, Control, Added
      <4> QED
        BY <3>2, <3>3, <4>1, <4>2, EntrySteps
           DEF entry, OneStatement, Commits, Removes, Drops
    <3> QED
      BY <3>1, <3>4 DEF SafetyInv, TxInv
  <2> QED
    BY <2>1, <2>2
<1>10. \A q \in held' : Holding(q)' \/ pc'[q] = "done"
  BY <1>1, ServeConnections
     DEF SafetyInv, TypeOK, TxInv, Quiet, Waits, Ends, Locks, Writes, Leaks,
         Holding, Writing, Fixed, At, InFlight
<1> QED
  BY <1>5, <1>6, <1>7, <1>8, <1>9, <1>10 DEF TxInv, At

LEMMA CrashTx ==
    ASSUME SafetyInv, Crash
    PROVE  TxInv'
<1>1. held' = {} /\ lock' = None
  BY CrashParts
<1>2. \A q \in Req : pc'[q] \in {"done", "idle"} /\ made'[q] = {}
  BY CrashParts DEF InFlight
<1> QED
  BY <1>1, <1>2 DEF TxInv, Holding, Writing

-----------------------------------------------------------------------------
(* The log.                                                                *)

\* Whoever commits comes after all that have.
LEMMA AfterGrows ==
    ASSUME log \in Seq(Req), NEW r \in Req, Committed(r), NEW by
    PROVE  /\ After(by) \subseteq After(by)'
           /\ (by = None \/ \E i \in DOMAIN log : log[i] = by)
                 => r \in After(by)'
           /\ \A i \in DOMAIN log : i \in DOMAIN log' /\ log'[i] = log[i]
           /\ \E i \in DOMAIN log' : log'[i] = r
<1>1. /\ Len(log') = Len(log) + 1 /\ log'[Len(log) + 1] = r
      /\ DOMAIN log = 1..Len(log) /\ DOMAIN log' = 1..Len(log')
      /\ Len(log) \in Nat
      /\ \A i \in 1..Len(log) : log'[i] = log[i]
  BY DEF Committed
<1>2. \A i \in DOMAIN log : i \in DOMAIN log' /\ log'[i] = log[i]
  BY <1>1
<1>3. Len(log) + 1 \in DOMAIN log' /\ \A i \in DOMAIN log : i < Len(log) + 1
  BY <1>1
<1> HIDE DEF Committed
<1>4. CASE by = None
  BY <1>1, <1>2, <1>3, <1>4 DEF After
<1>5. CASE by # None
  <2>1. After(by) \subseteq After(by)'
    BY <1>2, <1>5 DEF After
  <2>2. ASSUME NEW k \in DOMAIN log, log[k] = by
        PROVE  r \in After(by)'
    <3>1. /\ Len(log) + 1 \in DOMAIN log' /\ k \in DOMAIN log'
          /\ k < Len(log) + 1 /\ log'[k] = by /\ log'[Len(log) + 1] = r
      BY <1>1, <1>2, <1>3, <2>2
    <3> QED
      BY <1>5, <3>1 DEF After
  <2> QED
    BY <1>1, <1>2, <1>3, <1>5, <2>1, <2>2
<1> QED
  BY <1>4, <1>5

\* A step that does not commit leaves the log alone.
LEMMA LogSteps ==
    ASSUME SafetyInv, NEW r \in Req, Serve(r)
    PROVE  \/ UNCHANGED log /\ row' \in {row, None}
           \/ /\ OneStatement(r) \/ Commits(r)
              /\ Committed(r) /\ row' = Stored(r, Saved(r))
              /\ Asks(r, "Update")
<1>1. Control(r)
  BY DEF SafetyInv, ControlInv
<1> QED
  BY <1>1, EntrySteps
     DEF entry, OneStatement, Commits, TxEffect, Removes, Adds, Drops, Control,
         InTx

LEMMA LoggedKept ==
    ASSUME SafetyInv, NEW r \in Req, Serve(r), NEW by, by # None, Logged(by)
    PROVE  Logged(by)' /\ After(by) \subseteq After(by)'
<1>1. req' = req
  BY ServeFrame DEF SafetyInv
<1>2. CASE UNCHANGED log
  BY <1>1, <1>2 DEF Logged, Asks, After
<1>3. CASE Committed(r)
  <2>1. After(by) \subseteq After(by)'
        /\ \A i \in DOMAIN log : i \in DOMAIN log' /\ log'[i] = log[i]
    BY <1>3, AfterGrows DEF SafetyInv, TypeOK
  <2> QED
    BY <1>1, <2>1 DEF Logged, Asks
<1> QED
  BY <1>2, <1>3, LogSteps

\* Every technology is of a request that has arrived, or of the start.
LEMMA TechsAsked ==
    ASSUME SafetyInv, NEW t \in techs, t.by # None
    PROVE  t.by \in Req /\ req[t.by] # None
<1>1. t.by \in Req
  BY DEF SafetyInv, TypeOK
<1>2. CASE Added(t)
  BY <1>1, <1>2 DEF Added, Asks
<1>3. CASE t.by = row.by
  <2>1. row # None
    BY DEF SafetyInv, OneUpdate
  <2>2. Logged(t.by)
    BY <1>3, <2>1 DEF SafetyInv, LogInv
  <2> QED
    BY <1>1, <2>2 DEF Logged, Asks
<1> QED
  BY <1>2, <1>3 DEF SafetyInv, OneUpdate

LEMMA ArriveLog ==
    ASSUME SafetyInv, NEW r \in Req, Arrive(r)
    PROVE  LogInv'
<1>1. /\ UNCHANGED <<row, log, view>>
      /\ \A q \in Req \ {r} : Fixed(q)
  BY ArriveFrame DEF SafetyInv, entry
<1>2. pc'[r] # "get_techs"
  BY ArriveIs, AnswerParts, GotoParts
     DEF SafetyInv, AllOps, ProjectOps, FirstCall
<1>3. \A q \in Req : req[q] # None => req'[q] = req[q]
  BY AskedKept
<1>4. \A by \in Req \cup {None} : Logged(by) => Logged(by)'
  BY <1>1, <1>3 DEF Logged, Asks
<1>5. row # None => Logged(row.by)'
  BY <1>1, <1>4 DEF SafetyInv, LogInv, TypeOK, Row
<1>6. \A q \in Req : pc'[q] = "get_techs" => pc[q] = pc'[q] /\ seen'[q] = seen[q]
  BY <1>1, <1>2 DEF Fixed
<1>7. \A by : After(by)' = After(by)
  BY <1>1 DEF After
<1>8. \A by : Logged(by) => Logged(by)'
  <2> SUFFICES ASSUME NEW by, Logged(by)
               PROVE  Logged(by)'
    OBVIOUS
  <2>1. by \in Req \cup {None}
    BY DEF Logged, SafetyInv, TypeOK
  <2> QED
    BY <1>4, <2>1
<1>9. \A q \in Req : pc'[q] = "get_techs" =>
         /\ Logged(seen[q].by)'
         /\ row' # None => row'.by = seen'[q].by
                             \/ row'.by \in After(seen[q].by)'
  <2> SUFFICES ASSUME NEW q \in Req, pc'[q] = "get_techs"
               PROVE  /\ Logged(seen[q].by)'
                      /\ row' # None => row'.by = seen'[q].by
                                          \/ row'.by \in After(seen[q].by)'
    OBVIOUS
  <2>1. pc[q] = "get_techs" /\ seen'[q] = seen[q]
    BY <1>6
  <2>2. Logged(seen[q].by) /\ (row # None => row.by = seen[q].by
                                               \/ row.by \in After(seen[q].by))
    BY <2>1 DEF SafetyInv, LogInv
  <2> QED
    BY <1>1, <1>3, <2>1, <2>2 DEF Logged, After, Asks, SafetyInv, TypeOK
<1>10. \A q \in Req : view'[q] # None =>
          \A t \in view'[q].techs :
             t.by # None => t.by \in Req /\ req'[t.by] # None
  BY <1>1, <1>3 DEF SafetyInv, LogInv
<1> QED
  BY <1>1, <1>5, <1>9, <1>10 DEF LogInv

LEMMA ServeLog ==
    ASSUME SafetyInv, NEW r \in Req, Serve(r)
    PROVE  LogInv'
<1>1. req' = req /\ \A q \in Req \ {r} : Fixed(q)
  BY ServeFrame DEF SafetyInv
<1>3. row' # None => Logged(row.by)'
  <2>1. CASE log' = log /\ row' \in {row, None}
    BY <1>1, <2>1 DEF SafetyInv, LogInv, Logged, Asks
  <2>2. CASE Committed(r) /\ Asks(r, "Update") /\ row'.by = r
    <3>1. \E i \in DOMAIN log' : log'[i] = r
      BY <2>2, AfterGrows DEF SafetyInv, TypeOK
    <3> QED
      BY <1>1, <2>2, <3>1 DEF Logged, Asks
  <2> QED
    BY <2>1, <2>2, LogSteps DEF Stored
<1>4. \A q \in Req : pc'[q] = "get_techs" =>
         /\ Logged(seen[q].by)'
         /\ row' # None => row'.by = seen'[q].by
                             \/ row'.by \in After(seen[q].by)'
  <2> SUFFICES ASSUME NEW q \in Req, pc'[q] = "get_techs"
               PROVE  /\ Logged(seen[q].by)'
                      /\ row' # None => row'.by = seen'[q].by
                                          \/ row'.by \in After(seen[q].by)'
    OBVIOUS
  <2>1. CASE q = r
    <3>1. seen'[q] = row /\ row # None /\ row' = row /\ log' = log
      BY <2>1, ServeReads DEF entry
    <3>2. Logged(row.by)
      BY <3>1 DEF SafetyInv, LogInv
    <3> QED
      BY <1>1, <3>1, <3>2 DEF Logged, Asks
  <2>2. CASE q # r
    <3>1. pc[q] = "get_techs" /\ seen'[q] = seen[q]
      BY <1>1, <2>2 DEF Fixed
    <3>2. PICK by : by = seen[q].by
      OBVIOUS
    <3>3. Logged(by) /\ (row # None => row.by = by \/ row.by \in After(by))
      BY <3>1, <3>2 DEF SafetyInv, LogInv
    <3>4. Logged(by)' /\ (row' # None => row'.by = by \/ row'.by \in After(by)')
      <4>1. CASE log' = log /\ row' \in {row, None}
        BY <1>1, <3>3, <4>1 DEF Logged, Asks, After
      <4>2. CASE Committed(r) /\ row'.by = r
        <5>1. /\ (by = None \/ \E i \in DOMAIN log : log[i] = by)
                     => r \in After(by)'
              /\ \A i \in DOMAIN log : i \in DOMAIN log' /\ log'[i] = log[i]
          BY <4>2, AfterGrows DEF SafetyInv, TypeOK
        <5> QED
          BY <1>1, <3>3, <4>2, <5>1 DEF Logged, Asks
      <4> QED
        BY <4>1, <4>2, LogSteps DEF Stored
    <3> QED
      BY <3>1, <3>2, <3>4 DEF Logged, After, Asks
  <2> QED
    BY <2>1, <2>2
<1>5. \A q \in Req : view'[q] # None =>
          \A t \in view'[q].techs :
             t.by # None => t.by \in Req /\ req'[t.by] # None
  <2> SUFFICES ASSUME NEW q \in Req, view'[q] # None, NEW t \in view'[q].techs,
                      t.by # None
               PROVE  t.by \in Req /\ req'[t.by] # None
    OBVIOUS
  <2>1. view'[q] = view[q] \/ view'[q].techs = {} \/ view'[q].techs = techs
    BY <1>1, ServeReads DEF Fixed
  <2> QED
    BY <1>1, <2>1, TechsAsked DEF SafetyInv, LogInv
<1> QED
  BY <1>3, <1>4, <1>5 DEF LogInv

LEMMA CrashLog ==
    ASSUME SafetyInv, Crash
    PROVE  LogInv'
<1>1. UNCHANGED <<row, log, req, view>>
  BY CrashParts DEF entry
<1>2. \A q \in Req : pc'[q] # "get_techs"
  BY CrashParts DEF InFlight
<1> QED
  BY <1>1, <1>2 DEF SafetyInv, LogInv, Logged, Asks

-----------------------------------------------------------------------------
(* The properties.                                                         *)

LEMMA ServeAccepted ==
    ASSUME SafetyInv, NEW r \in Req, Serve(r)
    PROVE  AcceptedTwice'
<1>1. /\ kind' = kind /\ req' = req /\ InFlight(r)
      /\ \A q \in Req \ {r} : Fixed(q)
  BY ServeFrame DEF SafetyInv
<1>2. reply'[r] # "invalid"
  <2>1. reply[r] = None /\ None # "invalid"
    BY <1>1, EditsAssumption
       DEF SafetyInv, ControlInv, Control, InFlight, Replies
  <2> QED
    BY <2>1, ServeControl
<1> QED
  BY <1>1, <1>2 DEF SafetyInv, AcceptedTwice, DraftsAcceptedTwice, Fixed

LEMMA ArriveAccepted ==
    ASSUME SafetyInv, NEW r \in Req, Arrive(r)
    PROVE  AcceptedTwice'
<1>1. kind' = kind /\ \A q \in Req \ {r} : Fixed(q)
  BY ArriveFrame DEF SafetyInv, entry
<1>2. reply'[r] = "invalid" => ~Validate(kind, req'[r].doc)
  <2>1. reply[r] = None /\ None # "invalid"
    BY ArriveFrame, EditsAssumption
       DEF SafetyInv, ControlInv, Control, Replies
  <2>2. CASE /\ req'[r].doc \in Drafts[kind]
             /\ ~Validate(kind, BeforeSave(kind, req'[r].doc))
    <3>1. kind \in DOMAIN Drafts
      BY EditsAssumption DEF SafetyInv, TypeOK
    <3> QED
      BY <2>2, <3>1, DraftsAccepted DEF DraftsAcceptedTwice
  <2>3. CASE \E step : Goto(r, step)
    BY <2>1, <2>3, GotoParts DEF SafetyInv
  <2> QED
    BY <2>2, <2>3, ArriveIs
<1> QED
  BY <1>1, <1>2 DEF SafetyInv, AcceptedTwice, DraftsAcceptedTwice, Fixed

LEMMA CrashAccepted ==
    ASSUME SafetyInv, Crash
    PROVE  AcceptedTwice'
<1>1. kind' = kind /\ req' = req
  BY CrashParts DEF entry
<1>2. \A q \in Req : reply'[q] = "invalid" => reply[q] = "invalid"
  BY CrashParts
<1> QED
  BY <1>1, <1>2 DEF SafetyInv, AcceptedTwice, DraftsAcceptedTwice

LEMMA ArriveOneUpdate ==
    ASSUME SafetyInv, NEW r \in Req, Arrive(r)
    PROVE  OneUpdate'
<1>1. UNCHANGED <<kind, row, techs>> /\ \A q \in Req \ {r} : Fixed(q)
  BY ArriveFrame DEF SafetyInv, entry
<1>2. \A q \in Req : req[q] # None => req'[q] = req[q]
  BY AskedKept
<1>3. \A t \in techs : Added(t) => Added(t)'
  BY <1>2 DEF Added, Asks, SafetyInv, TypeOK
<1>4. ASSUME row # None, row.by # None, IsProject
      PROVE  /\ Technologies(row.by)' = Technologies(row.by)
  <2>1. row.by \in Req /\ req[row.by] # None
    BY <1>4 DEF SafetyInv, TypeOK, Row, LogInv, Logged, Asks
  <2> QED
    BY <1>1, <1>2, <2>1 DEF Technologies, Saved
<1>5. \A n : Dropped(n) => Dropped(n)'
  <2> SUFFICES ASSUME NEW q \in Req, Asks(q, "DeleteTechnology"), NEW n,
                      req[q].name = n, At(q, "done")
               PROVE  Asks(q, "DeleteTechnology")' /\ req'[q].name = n
                      /\ At(q, "done")'
    BY DEF Dropped
  <2>1. q # r
    BY ArriveFrame DEF SafetyInv, At
  <2> QED
    BY <1>1, <2>1 DEF Fixed, Asks, At
<1> QED
  BY <1>1, <1>3, <1>4, <1>5
     DEF SafetyInv, OneUpdate, IsProject, TechRows

LEMMA CrashOneUpdate ==
    ASSUME SafetyInv, Crash
    PROVE  OneUpdate'
<1>1. UNCHANGED <<kind, row, techs, req>>
  BY CrashParts DEF entry
<1>2. \A q \in Req : pc[q] = "done" => pc'[q] = "done"
  BY CrashParts DEF InFlight
<1>3. \A n : Dropped(n) => Dropped(n)'
  BY <1>1, <1>2 DEF Dropped, Asks, At
<1> QED
  BY <1>1, <1>3
     DEF SafetyInv, OneUpdate, IsProject, Added, Asks, TechRows, Technologies,
         Saved

LEMMA ServeOneUpdate ==
    ASSUME SafetyInv, NEW r \in Req, Serve(r)
    PROVE  OneUpdate'
<1>1. /\ kind' = kind /\ req' = req /\ InFlight(r)
      /\ \A q \in Req \ {r} : Fixed(q)
  BY ServeFrame DEF SafetyInv
<1>2. \A q : /\ Technologies(q)' = Technologies(q)
             /\ \A o : Asks(q, o)' = Asks(q, o)
             /\ \A t : Added(t)' = Added(t)
  BY <1>1 DEF Technologies, Saved, Asks, Added
<1>3. \A n : Dropped(n) => Dropped(n)'
  BY <1>1 DEF Dropped, At, InFlight, Fixed, Asks
<1>4. Control(r) /\ r # None
  BY EditsAssumption DEF SafetyInv, ControlInv
<1>5. CASE UNCHANGED entry
  <2>1. row' = row /\ techs' = techs
    BY <1>5 DEF entry
  <2> QED
    BY <1>1, <1>2, <1>3, <2>1 DEF SafetyInv, OneUpdate, IsProject
<1>6. CASE OneStatement(r)
  BY <1>1, <1>6 DEF OneStatement, SafetyInv, RowInv, OneUpdate, IsProject
<1>7. CASE Commits(r)
  <2>1. /\ row' # None /\ row'.by = r
        /\ techs' = (techs \ cleared[r])
                       \cup TechRows(r, Technologies(r), DOMAIN Technologies(r))
    <3>1. made[r] = DOMAIN Technologies(r)
      BY <1>7 DEF Commits, SafetyInv, TxInv
    <3>2. row' # None
      BY <1>7, StoredIsRow DEF Commits, TxEffect, InTx
    <3> QED
      BY <1>7, <3>1, <3>2 DEF Commits, TxEffect, Stored
  <2>2. \A t \in techs' : t.by = r \/ Added(t)
    BY <1>7, <2>1 DEF Commits, SafetyInv, TxInv, TechRows
  <2>3. \A i \in DOMAIN Technologies(r) :
           TechRows(r, Technologies(r), {i}) \subseteq techs'
    BY <2>1 DEF TechRows
  <2> QED
    BY <1>1, <1>2, <2>1, <2>2, <2>3 DEF OneUpdate
<1>8. CASE Removes(r)
  BY <1>8 DEF Removes, OneUpdate
<1>9. CASE Adds(r)
  <2>1. PICK t : t.by = r /\ techs' = techs \cup {t}
    BY <1>9 DEF Adds
  <2>2. Added(t)
    BY <1>4, <1>9, <2>1 DEF Adds, Control, Added
  <2>3. row # None /\ row' = row
    BY <1>9 DEF Adds
  <2> QED
    BY <1>1, <1>2, <1>3, <2>1, <2>2, <2>3
       DEF SafetyInv, OneUpdate, IsProject
<1>10. CASE Drops(r) /\ pc'[r] = "done"
  <2>1. PICK found : /\ techs' = techs \ found
                     /\ \A t \in found : t.name = req[r].name
    BY <1>10 DEF Drops
  <2>2. row' = row
    BY <1>10 DEF Drops
  <2>4. ASSUME row # None, row.by # None, IsProject,
               NEW i \in DOMAIN Technologies(row.by),
               NEW n, n = Technologies(row.by)[i]
        PROVE  \/ TechRows(row.by, Technologies(row.by), {i}) \subseteq techs'
               \/ Dropped(n)'
    <3>1. CASE Dropped(n)
      BY <1>3, <3>1
    <3>2. CASE TechRows(row.by, Technologies(row.by), {i}) \subseteq techs
      <4>1. \A t \in TechRows(row.by, Technologies(row.by), {i}) : t.name = n
        BY <2>4 DEF TechRows
      <4>2. CASE n = req[r].name
        <5>1. PICK m : m = req[r].name
          OBVIOUS
        <5>2. Dropped(m)'
          BY <1>1, <1>4, <1>10, <5>1 DEF Drops, Control, Dropped, Asks, At
        <5> QED
          BY <4>2, <5>1, <5>2
      <4> QED
        BY <2>1, <3>2, <4>1, <4>2
    <3> QED
      BY <2>4, <3>1, <3>2 DEF SafetyInv, OneUpdate
  <2>5. /\ row = None => techs = {}
        /\ \A t \in techs : t.by = row.by \/ Added(t)
    BY DEF SafetyInv, OneUpdate
  <2> QED
    BY <1>1, <1>2, <2>1, <2>2, <2>4, <2>5 DEF OneUpdate, IsProject
<1> QED
  BY <1>5, <1>6, <1>7, <1>8, <1>9, <1>10, EntrySteps

LEMMA ArriveDeleted ==
    ASSUME SafetyInv, NEW r \in Req, Arrive(r)
    PROVE  DeletedForGood'
<1>1. /\ UNCHANGED <<row, techs, lock>>
      /\ \A q \in Req \ {r} : Fixed(q)
  BY ArriveFrame DEF SafetyInv, entry
<1>2. reply'[r] # "ok"
  <2>1. reply[r] = None /\ None # "ok"
    BY ArriveFrame, EditsAssumption
       DEF SafetyInv, ControlInv, Control, Replies
  <2> QED
    BY <2>1, ArriveIs, AnswerParts, GotoParts DEF SafetyInv
<1> QED
  BY <1>1, <1>2 DEF SafetyInv, DeletedForGood, Fixed, Asks

LEMMA ServeDeleted ==
    ASSUME SafetyInv, NEW r \in Req, Serve(r)
    PROVE  DeletedForGood'
<1> SUFFICES ASSUME NEW q \in Req, Asks(q, "Delete"), reply'[q] = "ok"
             PROVE  row' = None /\ techs' = {} /\ lock' = None
  BY ServeFrame DEF SafetyInv, DeletedForGood, Asks
<1>1. CASE q = r
  BY <1>1, DeleteAnswered
<1>2. CASE q # r
  <2>1. row = None /\ techs = {} /\ lock = None
    BY <1>2, ServeFrame DEF SafetyInv, DeletedForGood, Fixed
  <2>2. r # None /\ ~Writing(r)
    BY <2>1, EditsAssumption DEF SafetyInv, TxInv
  <2>3. lock' = None
    BY <2>1, <2>2, ServeConnections
       DEF Quiet, Waits, Ends, Locks, Writes, Leaks
  <2>4. row' = None /\ techs' = {}
    BY <2>1, <2>2, EntrySteps
       DEF entry, OneStatement, Commits, Removes, Adds, Drops, Writing
  <2> QED
    BY <2>3, <2>4
<1> QED
  BY <1>1, <1>2

LEMMA CrashDeleted ==
    ASSUME SafetyInv, Crash
    PROVE  DeletedForGood'
<1>1. UNCHANGED <<row, techs, req>> /\ lock' = None
  BY CrashParts DEF entry
<1>2. \A q \in Req : reply'[q] = "ok" => reply[q] = "ok"
  BY CrashParts
<1> QED
  BY <1>1, <1>2 DEF SafetyInv, DeletedForGood, Asks

\* What is read forward stays so when more is committed.
Forward(v) ==
    LET replaced == {t \in v.techs : t.by = None \/ Asks(t.by, "Update")}
    IN  /\ \A t \in replaced : t.by = v.row.by \/ t.by \in After(v.row.by)
        /\ \A t, u \in replaced : t.by = u.by

LEMMA ReadsKept ==
    ASSUME SafetyInv, NEW q \in Req, view[q] # None, NEW v, v = view[q],
           \A by : After(by) \subseteq After(by)',
           \A p \in Req : req[p] # None => req'[p] = req[p]
    PROVE  Forward(v)'
<1>1. Forward(v)
  BY DEF SafetyInv, ReadsForward, Forward
<1>2. \A t \in v.techs : t.by # None => t.by \in Req /\ req[t.by] # None
  BY DEF SafetyInv, LogInv
<1>3. \A t \in v.techs : t.by # None => (Asks(t.by, "Update")' <=> Asks(t.by, "Update"))
  BY <1>2 DEF Asks
<1>4. After(v.row.by) \subseteq After(v.row.by)'
  OBVIOUS
<1> QED
  BY <1>1, <1>3, <1>4 DEF Forward

LEMMA ReadsAre ==
    ASSUME \A q \in Req : view'[q] # None => \A v : v = view'[q] => Forward(v)'
    PROVE  ReadsForward'
  BY DEF ReadsForward, Forward, After, Asks

LEMMA ReadsSame ==
    ASSUME SafetyInv, view' = view, log' = log, req' = req
    PROVE  ReadsForward'
<1>1. \A by : After(by) \subseteq After(by)'
  BY DEF After
<1>2. \A q \in Req : view'[q] # None => \A v : v = view'[q] => Forward(v)'
  BY <1>1, ReadsKept
<1> QED
  BY <1>2, ReadsAre

LEMMA ArriveReads ==
    ASSUME SafetyInv, NEW r \in Req, Arrive(r)
    PROVE  ReadsForward'
<1>1. view' = view /\ log' = log
  BY ArriveFrame DEF SafetyInv, entry
<1>2. \A by : After(by) \subseteq After(by)'
  BY <1>1 DEF After
<1>3. \A q \in Req : view'[q] # None => \A v : v = view'[q] => Forward(v)'
  BY <1>1, <1>2, AskedKept, ReadsKept
<1> QED
  BY <1>3, ReadsAre

LEMMA ServeReadsForward ==
    ASSUME SafetyInv, NEW r \in Req, Serve(r)
    PROVE  ReadsForward'
<1>1. req' = req /\ \A q \in Req \ {r} : view'[q] = view[q]
  BY ServeFrame DEF SafetyInv, Fixed
<1>2. \A by : After(by) \subseteq After(by)'
  <2>1. CASE log' = log
    BY <2>1 DEF After
  <2>2. CASE Committed(r)
    BY <2>2, AfterGrows DEF SafetyInv, TypeOK
  <2> QED
    BY <2>1, <2>2, LogSteps
<1>3. \A q \in Req : view'[q] # None => \A v : v = view'[q] => Forward(v)'
  <2> SUFFICES ASSUME NEW q \in Req, view'[q] # None, NEW v, v = view'[q]
               PROVE  Forward(v)'
    OBVIOUS
  <2>1. CASE view'[q] = view[q]
    BY <1>1, <1>2, <2>1, ReadsKept
  <2>2. CASE view'[q].techs = {}
    BY <2>2 DEF Forward
  <2>3. CASE /\ q = r /\ pc[r] = "get_techs" /\ UNCHANGED entry
             /\ view'[r].row = seen[r] /\ view'[r].techs = techs
    <3>1. \A t \in techs : t.by = None \/ Asks(t.by, "Update") =>
             t.by = row.by /\ row # None
      BY DEF SafetyInv, OneUpdate, Added, Asks
    <3>2. row # None => row.by = seen[r].by \/ row.by \in After(seen[r].by)
      BY <2>3 DEF SafetyInv, LogInv
    <3>3. PICK by : by = seen[r].by
      OBVIOUS
    <3>4. \A t \in techs : t.by = None \/ Asks(t.by, "Update")' =>
             t.by = row.by /\ (t.by = by \/ t.by \in After(by)')
      BY <1>1, <1>2, <3>1, <3>2, <3>3 DEF Asks
    <3>5. v.techs = techs /\ v.row.by = by
      BY <2>3, <3>3
    <3>6. PICK one : one = row.by
      OBVIOUS
    <3>7. \A t \in v.techs : t.by = None \/ Asks(t.by, "Update")' =>
             t.by = one /\ (t.by = v.row.by \/ t.by \in After(v.row.by)')
      BY <3>4, <3>5, <3>6
    <3> QED
      BY <3>7 DEF Forward
  <2> QED
    BY <1>1, <2>1, <2>2, <2>3, ServeReads
<1> QED
  BY <1>3, ReadsAre

LEMMA CrashReads ==
    ASSUME SafetyInv, Crash
    PROVE  ReadsForward'
  BY CrashParts, ReadsSame DEF entry

LEMMA HeldFinite ==
    ASSUME SafetyInv
    PROVE  IsFiniteSet(held) /\ Cardinality(held) \in Nat
  BY EditsAssumption, FS_Subset, FS_CardinalityType DEF SafetyInv, TypeOK

LEMMA ArriveConnections ==
    ASSUME SafetyInv, NEW r \in Req, Arrive(r)
    PROVE  ConnectionsAccounted'
<1>1. /\ UNCHANGED <<kind, held, lock>> /\ pc[r] = "idle"
      /\ \A q \in Req \ {r} : Fixed(q)
  BY ArriveFrame DEF SafetyInv, entry
<1>2. r \notin held /\ held \subseteq Req
  BY <1>1 DEF SafetyInv, TypeOK, TxInv, Holding, Writing, At
<1> QED
  BY <1>1, <1>2
     DEF SafetyInv, ConnectionsAccounted, Fixed, At, Asks, IsProject, InFlight

LEMMA ServeConnectionsInv ==
    ASSUME SafetyInv, NEW r \in Req, Serve(r)
    PROVE  ConnectionsAccounted'
<1>1. /\ kind' = kind /\ req' = req /\ InFlight(r)
      /\ \A q \in Req \ {r} : Fixed(q)
  BY ServeFrame DEF SafetyInv
<1>2. Cardinality(held') <= MaxConns
  <2>1. Cardinality(held) <= MaxConns
    BY DEF SafetyInv, ConnectionsAccounted
  <2>2. CASE held' = held \cup {r} /\ Free
    <3>1. Cardinality(held \cup {r}) <= Cardinality(held) + 1
      BY HeldFinite, FS_AddElement
    <3>2. Cardinality(held) + 1 <= MaxConns
      BY <2>2, HeldFinite, EditsAssumption DEF Free
    <3>3. Cardinality(held \cup {r}) \in Nat
      BY HeldFinite, FS_AddElement, FS_CardinalityType
    <3> QED
      BY <2>2, <3>1, <3>2, <3>3, HeldFinite, EditsAssumption
  <2>3. CASE held' \subseteq held
    BY <2>1, <2>3, HeldFinite, FS_Subset, FS_CardinalityType, EditsAssumption
  <2> QED
    BY <2>2, <2>3, ServeConnections
       DEF Quiet, Waits, Ends, Locks, Writes, Leaks
<1>3. \A q \in held' : pc'[q] = "done" =>
         IsProject /\ Asks(q, "Update") /\ reply'[q] = "not_found"
  <2> SUFFICES ASSUME NEW q \in held', pc'[q] = "done"
               PROVE  IsProject /\ Asks(q, "Update") /\ reply'[q] = "not_found"
    OBVIOUS
  <2>1. q \in Req
    BY ServeTypes DEF TypeOK
  <2>2. CASE q # r
    BY <1>1, <2>1, <2>2 DEF Fixed, SafetyInv, ConnectionsAccounted, At
  <2>3. CASE q = r
    <3>1. r \notin held \/ Holding(r)
      BY <1>1 DEF SafetyInv, TxInv, At, InFlight
    <3>2. Leaks(r)
      BY <2>3, <3>1, ServeConnections
         DEF Quiet, Waits, Ends, Locks, Writes
    <3> QED
      BY <2>3, <3>2
         DEF Leaks, SafetyInv, ControlInv, Control, InTx
  <2> QED
    BY <2>2, <2>3
<1>4. lock' # None => lock' \in held' /\ InFlight(lock)'
  BY ServeTx DEF TxInv, Writing, InFlight
<1> QED
  BY <1>1, <1>2, <1>3, <1>4 DEF ConnectionsAccounted, At, IsProject, Asks

LEMMA CrashConnections ==
    ASSUME SafetyInv, Crash
    PROVE  ConnectionsAccounted'
<1>1. held' = {} /\ lock' = None
  BY CrashParts
<1>2. Cardinality({}) = 0
  BY FS_EmptySet
<1> QED
  BY <1>1, <1>2, EditsAssumption DEF ConnectionsAccounted

-----------------------------------------------------------------------------
(* Together.                                                               *)

LEMMA InitSafety == Init => SafetyInv
<1> SUFFICES ASSUME Init
             PROVE  SafetyInv
  OBVIOUS
<1>1. row # None => \E d \in Drafts[kind] :
                       /\ Validate(kind, d) /\ row = Stored(None, BeforeSave(kind, d))
  BY DEF Init
<1>2. kind \in Edited /\ kind \in DOMAIN Drafts
  BY EditsAssumption DEF Init
<1>3. row = None \/ row \in Row
  BY <1>1, <1>2 DEF Stored, Row
<1>4. /\ \A t \in techs : t.by = None
      /\ row = None => techs = {}
      /\ ~IsProject => techs = {}
  <2>1. \A list, positions : \A t \in TechRows(None, list, positions) : t.by = None
    BY DEF TechRows
  <2>2. \/ techs = {}
        \/ /\ IsProject /\ row # None
           /\ \E list, positions : techs = TechRows(None, list, positions)
    <3>1. CASE row = None /\ techs = {}
      BY <3>1
    <3>2. CASE \E d \in Drafts[kind] :
                 /\ row = Stored(None, BeforeSave(kind, d))
                 /\ techs = IF IsProject
                              THEN LET list == BeforeSave(kind, d).technologies
                                   IN  TechRows(None, list, DOMAIN list)
                              ELSE {}
      <4>1. row # None
        BY <1>2, <3>2, EditsAssumption DEF Stored, Row
      <4>2. ~IsProject => techs = {}
        BY <3>2
      <4>3. IsProject => \E list, positions :
                            techs = TechRows(None, list, positions)
        BY <3>2
      <4> QED
        BY <4>1, <4>2, <4>3
    <3> QED
      BY <3>1, <3>2 DEF Init
  <2> QED
    BY <2>1, <2>2
<1>5. row # None => row.by = None
  BY <1>1 DEF Stored
<1>6. TypeOK
  BY <1>2, <1>3, <1>4, EditsAssumption DEF Init, TypeOK, Replies
<1>7. ControlInv
  BY DEF Init, ControlInv, Control, Asks, InTx
<1>8. RowInv
  <2>1. row # None => \E d \in Drafts[kind] :
                       /\ Validate(kind, BeforeSave(kind, d))
                       /\ row.columns = ToRow(kind, BeforeSave(kind, d))
    BY <1>1, <1>2, DraftsAccepted DEF DraftsAcceptedTwice, Stored
  <2> QED
    BY <1>4, <2>1 DEF Init, RowInv, InTx
<1>9. TxInv
  BY DEF Init, TxInv, Holding, Writing
<1>10. LogInv
  BY <1>5 DEF Init, LogInv, Logged
<1>11. AcceptedTwice
  BY DraftsAccepted, EditsAssumption DEF Init, AcceptedTwice, Replies
<1>12. OneUpdate
  BY <1>4, <1>5 DEF OneUpdate
<1>13. DeletedForGood
  BY DEF Init, DeletedForGood, Asks
<1>14. ReadsForward
  BY DEF Init, ReadsForward
<1>15. ConnectionsAccounted
  BY FS_EmptySet, EditsAssumption DEF Init, ConnectionsAccounted
<1> QED
  BY <1>6, <1>7, <1>8, <1>9, <1>10, <1>11, <1>12, <1>13, <1>14, <1>15
     DEF SafetyInv

LEMMA IdleSafety ==
    ASSUME SafetyInv, UNCHANGED vars
    PROVE  SafetyInv'
<1>1. /\ kind' = kind /\ row' = row /\ techs' = techs /\ log' = log
      /\ pc' = pc /\ req' = req /\ cleared' = cleared /\ made' = made
      /\ seen' = seen /\ view' = view /\ reply' = reply /\ held' = held
      /\ lock' = lock /\ faults' = faults
  BY DEF vars, entry, local
<1>2. TypeOK' /\ ControlInv' /\ RowInv'
  BY <1>1 DEF SafetyInv, TypeOK, ControlInv, Control, RowInv, InTx, Asks,
              IsProject, Saved
<1>3. TxInv'
  BY <1>1 DEF SafetyInv, TxInv, Holding, Writing, At, Added, Asks,
              Technologies, Saved
<1>6. LogInv'
  <2>1. row' # None => Logged(row.by)'
    BY <1>1 DEF SafetyInv, LogInv, Logged, Asks
  <2>2. \A q \in Req : pc'[q] = "get_techs" =>
           /\ Logged(seen[q].by)'
           /\ row' # None => row'.by = seen'[q].by
                               \/ row'.by \in After(seen[q].by)'
    <3> SUFFICES ASSUME NEW q \in Req, pc[q] = "get_techs"
                 PROVE  /\ Logged(seen[q].by)'
                        /\ row # None => row.by = seen[q].by
                                           \/ row.by \in After(seen[q].by)'
      BY <1>1
    <3>1. /\ Logged(seen[q].by)
          /\ row # None => row.by = seen[q].by \/ row.by \in After(seen[q].by)
      BY DEF SafetyInv, LogInv
    <3> QED
      BY <1>1, <3>1 DEF Logged, Asks, After
  <2>3. \A q \in Req : view'[q] # None =>
           \A t \in view'[q].techs :
              t.by # None => t.by \in Req /\ req'[t.by] # None
    BY <1>1 DEF SafetyInv, LogInv
  <2> QED
    BY <2>1, <2>2, <2>3 DEF LogInv
<1>4. AcceptedTwice' /\ OneUpdate'
  BY <1>1 DEF SafetyInv, AcceptedTwice, DraftsAcceptedTwice, OneUpdate, Added,
              Asks, At, Technologies, Saved, TechRows, Dropped, IsProject
<1>5. DeletedForGood' /\ ConnectionsAccounted'
  BY <1>1 DEF SafetyInv, DeletedForGood, Asks, At, ConnectionsAccounted,
              IsProject, InFlight
<1>7. ReadsForward'
  BY <1>1, ReadsSame
<1> QED
  BY <1>2, <1>3, <1>4, <1>5, <1>6, <1>7 DEF SafetyInv

LEMMA NextSafety == SafetyInv /\ [Next]_vars => SafetyInv'
<1> SUFFICES ASSUME SafetyInv, [Next]_vars
             PROVE  SafetyInv'
  OBVIOUS
<1>1. ASSUME NEW r \in Req, Arrive(r)
      PROVE  SafetyInv'
  BY <1>1, ArriveTypes, ArriveControl, ArriveRow, ArriveTx, ArriveLog,
     ArriveAccepted, ArriveOneUpdate, ArriveDeleted, ArriveReads,
     ArriveConnections DEF SafetyInv
<1>2. ASSUME NEW r \in Req, Serve(r)
      PROVE  SafetyInv'
  BY <1>2, ServeTypes, ServeControlInv, ServeRow, ServeTx, ServeLog,
     ServeAccepted, ServeOneUpdate, ServeDeleted, ServeReadsForward,
     ServeConnectionsInv DEF SafetyInv
<1>3. CASE Crash
  BY <1>3, CrashTypes, CrashControl, CrashRow, CrashTx, CrashLog,
     CrashAccepted, CrashOneUpdate, CrashDeleted, CrashReads, CrashConnections
     DEF SafetyInv
<1>4. CASE UNCHANGED vars
  BY <1>4, IdleSafety
<1> QED
  BY <1>1, <1>2, <1>3, <1>4 DEF Next, Finished

-----------------------------------------------------------------------------
(* The theorems.                                                           *)

\* The inductive invariant holds: the calls a request makes, the row, the
\* transaction that locks it, the order of the commits, the connections.
THEOREM SafetyInvariant == Spec => []SafetyInv
  BY InitSafety, NextSafety, PTL DEF Spec

\* Every variable keeps its type.
THEOREM TypeCorrect == Spec => []TypeOK
  BY SafetyInvariant, PTL DEF SafetyInv

\* No document that a handler accepts is refused by the repository because it
\* has been cleaned in between (Validate, BeforeSave, UpdateProject and the
\* other updates).
THEOREM AcceptedAlike == Spec => []AcceptedTwice
  BY SafetyInvariant, PTL DEF SafetyInv

\* The rows and the technologies that the transaction of UpdateProject leaves
\* are those of one update, whatever runs beside it and whenever it stops.
THEOREM UpdatesWhole == Spec => []OneUpdate
  BY SafetyInvariant, PTL DEF SafetyInv

\* No update that was under way brings back an entry after the answer to
\* DeleteProject or one of the other deletions.
THEOREM DeletionsStay == Spec => []DeletedForGood
  BY SafetyInvariant, PTL DEF SafetyInv

\* GetProject, which reads the row and then the technologies, shows no
\* technologies older than the row, nor those of two updates.
THEOREM ReadsForwardAlways == Spec => []ReadsForward
  BY SafetyInvariant, PTL DEF SafetyInv

\* The pool is not overdrawn, and only the early return of UpdateProject for a
\* missing project keeps a connection.
THEOREM ConnectionsKept == Spec => []ConnectionsAccounted
  BY SafetyInvariant, PTL DEF SafetyInv

\* Whatever document an update or an addition has stored, Get answers one that
\* Validate accepts and that is stored as the same row.
THEOREM RowsReadBack == Spec => []ReadBack
<1>1. SafetyInv => ReadBack
  <2> SUFFICES ASSUME SafetyInv, row # None
               PROVE  LET d == FromRow(kind, row.columns, [i \in {} |-> NoText])
                      IN  /\ Validate(kind, d)
                          /\ ToRow(kind, BeforeSave(kind, d)) = row.columns
    BY DEF ReadBack
  <2>1. PICK d \in Drafts[kind] : /\ Validate(kind, BeforeSave(kind, d))
                                  /\ row.columns = ToRow(kind, BeforeSave(kind, d))
    BY DEF SafetyInv, RowInv
  <2>2. kind \in EntryKinds /\ IsDocument(kind, d)
    BY DraftIsDocument DEF SafetyInv
  <2> QED
    BY <2>1, <2>2, NoList, CleanedTwice, StoredReadBack
<1> QED
  BY <1>1, SafetyInvariant, PTL
=============================================================================
