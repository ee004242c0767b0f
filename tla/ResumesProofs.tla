--------------------------- MODULE ResumesProofs ---------------------------
(***************************************************************************)
(* Proofs about Resumes, for every set of requests, accounts and resumes,  *)
(* every size of the pool and every bound.                                 *)
(***************************************************************************)
EXTENDS Resumes, FiniteSetTheorems, TLAPS

LEMMA InitSafety == Init => SafetyInv
<1> SUFFICES ASSUME Init PROVE SafetyInv
  OBVIOUS
<1> USE SeedAssumption, BoundAssumption DEF Init
<1>1. TypeOK
  BY DEF TypeOK, Resume, ResumeId
<1>2. ControlInv /\ IdInv /\ FoundInv /\ TxInv
  BY DEF ControlInv, IdInv, FoundInv, TxInv, InFlight, At, Asks,
         Sections
<1>3. NoOrphans /\ ProjectWhole /\ PromisedEntryKept /\ DeletedStaysDeleted
  BY DEF NoOrphans, ProjectWhole, PromisedEntryKept, DeletedStaysDeleted, Asks
<1> QED
  BY <1>1, <1>2, <1>3 DEF SafetyInv

\* A request is answered and the tables stay as they are: the answer may not
\* promise an entry or a deletion that did not happen.
LEMMA AnswerSafety ==
    ASSUME SafetyInv, NEW r \in Req, NEW status \in Status,
           pc[r] # "done", Answer(r, status),
           UNCHANGED <<tables, req, row, made>>,
           rows' \in [Req -> SUBSET Req], view' \in [Req -> SUBSET Shown],
           faults' \in 0..MaxFaults, faults' >= faults,
           \/ held' = held /\ locks' = locks
           \/ held' = held \ {r} /\ locks' = locks \ {r}
           \/ held' = held /\ locks' = locks \ {r},
           Asks(r, "DeleteResume") => status # 200,
           Asks(r, "Add") /\ status = 201 =>
              \/ req[r].section = "experience" /\ faults' > 0
              \/ Doomed(EntryOf(r))
    PROVE  SafetyInv'
<1> USE DEF SafetyInv
<1>0. /\ pc' = [pc EXCEPT ![r] = "done"]
      /\ reply' = [reply EXCEPT ![r] = status]
      /\ UNCHANGED <<resumes, entries, techs, req, row, made>>
  BY DEF Answer, tables
<1>1. TypeOK'
  BY <1>0 DEF TypeOK
<1>2. \A q \in Req : Permitted(q)' = Permitted(q)
  BY <1>0 DEF Permitted
<1>3. ControlInv'
  BY <1>0, <1>2 DEF TypeOK, ControlInv, InFlight, Asks, Sections
<1>4. IdInv'
  BY <1>0 DEF TypeOK, IdInv, At, Asks, EntryOf
<1>5. FoundInv'
  BY <1>0, <1>2 DEF FoundInv, ResumeExists, Asks
<1>6. TxInv'
  BY <1>0 DEF TypeOK, TxInv, ResumeExists
<1>7. NoOrphans' /\ ProjectWhole'
  BY <1>0 DEF NoOrphans, ProjectWhole, TechsOf
<1>8. \A e : Doomed(e)' = Doomed(e)
  BY <1>0, <1>2 DEF Doomed, DeleteAsked, Misdirected, AsksDeletion, Asks
<1>9. PromisedEntryKept'
  <2> SUFFICES ASSUME NEW q \in Req, Asks(q, "Add"), reply'[q] = 201,
                      req[q].section # "experience" \/ faults' = 0
               PROVE  EntryOf(q) \in entries \/ Doomed(EntryOf(q))
    BY <1>0, <1>8 DEF PromisedEntryKept, Asks, EntryOf
  <2>1. CASE q = r
    BY <1>0, <2>1 DEF TypeOK
  <2>2. CASE q # r
    BY <1>0, <2>2 DEF TypeOK, PromisedEntryKept
  <2> QED
    BY <2>1, <2>2
<1>10. DeletedStaysDeleted'
  BY <1>0 DEF TypeOK, DeletedStaysDeleted, Asks
<1> QED
  BY <1>1, <1>3, <1>4, <1>5, <1>6, <1>7, <1>9, <1>10

\* A request goes on reading.
LEMMA ReadOnSafety ==
    ASSUME SafetyInv, NEW r \in Req, NEW step \in Sections \cup {"read_techs"},
           pc[r] \in Sections \cup {"get_info", "read_techs"}, Goto(r, step),
           Asks(r, "Get") \/ Asks(r, "GetResume"),
           UNCHANGED <<tables, req, row, made, pool>>,
           rows' \in [Req -> SUBSET Req], view' \in [Req -> SUBSET Shown],
           faults' \in 0..MaxFaults, faults' >= faults
    PROVE  SafetyInv'
<1> USE DEF SafetyInv
<1>0. /\ pc' = [pc EXCEPT ![r] = step] /\ reply' = reply
      /\ UNCHANGED <<resumes, entries, techs, req, row, made, held, locks>>
      /\ pc[r] \notin {"idle", "done", "tx_tech", "tx_commit"}
  BY DEF Goto, tables, pool, Sections
<1>1. TypeOK'
  BY <1>0 DEF TypeOK, Steps
<1>2. \A q \in Req : Permitted(q)' = Permitted(q)
  BY <1>0 DEF Permitted
<1>3. ControlInv'
  BY <1>0, <1>2 DEF TypeOK, ControlInv, InFlight, Asks, Sections
<1>4. IdInv'
  <2>1. \A q \in Req : pc[q] = "done" => q # r /\ pc'[q] = "done"
    BY <1>0 DEF TypeOK
  <2> QED
    BY <1>0, <2>1 DEF TypeOK, IdInv, At, Asks, EntryOf, SectionEntry
<1>5. FoundInv'
  BY <1>0, <1>2 DEF FoundInv, ResumeExists, Asks
<1>6. TxInv'
  <2>1. r \notin locks
    BY <1>0 DEF TypeOK, TxInv
  <2> QED
    BY <1>0, <2>1 DEF TypeOK, TxInv, ResumeExists, Sections
<1>7. NoOrphans' /\ ProjectWhole'
  BY <1>0 DEF NoOrphans, ProjectWhole, TechsOf
<1>8. PromisedEntryKept'
  <2>1. \A e : Doomed(e)' = Doomed(e)
    BY <1>0, <1>2 DEF Doomed, DeleteAsked, Misdirected, AsksDeletion, Asks
  <2> QED
    BY <1>0, <2>1 DEF TypeOK, PromisedEntryKept, Asks, EntryOf
<1>9. DeletedStaysDeleted'
  BY <1>0 DEF TypeOK, DeletedStaysDeleted, Asks
<1> QED
  BY <1>1, <1>3, <1>4, <1>5, <1>6, <1>7, <1>8, <1>9

LEMMA ArriveSafety ==
    ASSUME SafetyInv, NEW r \in Req, Arrive(r)
    PROVE  SafetyInv'
<1> USE BoundAssumption, RouteAssumption DEF SafetyInv
<1>1. PICK o \in Ops, u \in Person : \E c \in PathResumes(o),
             s \in PathSections(o), e \in PathEntries(o) :
             \E n \in Technologies(o, s) :
                /\ req' = [req EXCEPT ![r] =
                             [op |-> o, who |-> u, resume |-> c, section |-> s,
                              entry |-> e, techs |-> n]]
                /\ Goto(r, Entry(o))
  BY DEF Arrive
<1>2. PICK c \in PathResumes(o), s \in PathSections(o), e \in PathEntries(o) :
             \E n \in Technologies(o, s) :
                /\ req' = [req EXCEPT ![r] =
                             [op |-> o, who |-> u, resume |-> c, section |-> s,
                              entry |-> e, techs |-> n]]
                /\ Goto(r, Entry(o))
  BY <1>1
<1>3. PICK n \in Technologies(o, s) :
                /\ req' = [req EXCEPT ![r] =
                             [op |-> o, who |-> u, resume |-> c, section |-> s,
                              entry |-> e, techs |-> n]]
                /\ Goto(r, Entry(o))
  BY <1>2
<1> DEFINE b == [op |-> o, who |-> u, resume |-> c, section |-> s,
                 entry |-> e, techs |-> n]
<1>4. b \in Request
  BY DEF PathResumes, PathSections, PathEntries, Technologies, KnownResumes,
         KnownEntries, Request, ResumeId
<1>5. /\ b.op = o /\ b.resume = c /\ b.section = s
      /\ o \in {"Add", "Get", "Delete"} => s \in Sections
  BY DEF PathSections
<1>6. \A q \in Req : c = q => q # r /\ pc[q] = "done"
  BY NoneAssumption, SeedAssumption
     DEF PathResumes, KnownResumes, ControlInv, ResumeId, Arrive, At
<1> HIDE DEF b
<1>7. /\ req' = [req EXCEPT ![r] = b]
      /\ pc' = [pc EXCEPT ![r] = Entry(o)] /\ reply' = reply
      /\ Entry(o) \in {"create", "list", "find"}
      /\ Entry(o) = "find" => o \notin {"CreateResume", "ListResumes"}
      /\ Entry(o) = "create" => o = "CreateResume"
      /\ Entry(o) = "list" => o = "ListResumes"
      /\ pc[r] = "idle" /\ req[r] = None /\ row[r] = None
      /\ reply[r] = None /\ r \notin locks /\ b # None
      /\ UNCHANGED <<resumes, entries, techs, row, made, rows, view, held,
                     locks, faults>>
  BY <1>3, <1>4, NoneAssumption
     DEF b, Goto, Arrive, At, Entry, tables, pool, ControlInv, TxInv
<1>8. \A q \in Req : q # r => req'[q] = req[q] /\ pc'[q] = pc[q]
  BY <1>7 DEF TypeOK
<1>9. /\ req'[r] = b /\ pc'[r] = Entry(o)
      /\ \A q \in Req : Permitted(q) => Permitted(q)' /\ q # r
      /\ \A q \in Req : row[q] # None => q # r
  BY <1>7, <1>8 DEF TypeOK, Permitted
<1>10. TypeOK'
  BY <1>4, <1>7 DEF TypeOK, Steps
<1>11. ControlInv'
  BY <1>5, <1>7, <1>8, <1>9 DEF ControlInv, InFlight, Asks, Sections
<1>12. IdInv'
  BY <1>5, <1>6, <1>7, <1>8, <1>9 DEF TypeOK, SectionEntry, IdInv, At, Asks,
                                     EntryOf
<1>13. FoundInv'
  BY <1>7, <1>8, <1>9 DEF FoundInv, ResumeExists, Asks
<1>14. TxInv'
  BY <1>7, <1>8, <1>9 DEF TypeOK, TxInv, ResumeExists
<1>15. NoOrphans' /\ ProjectWhole'
  BY <1>7, <1>8 DEF TypeOK, SectionEntry, NoOrphans, ProjectWhole, TechsOf,
                    IdInv, At
<1>16. PromisedEntryKept'
  <2>1. \A d : Doomed(d) => Doomed(d)'
    BY <1>7, <1>8, <1>9 DEF Doomed, DeleteAsked, Misdirected, AsksDeletion, Asks
  <2> QED
    BY <1>7, <1>8, <2>1, NoneAssumption
       DEF PromisedEntryKept, Asks, EntryOf, Status
<1>17. DeletedStaysDeleted'
  BY <1>7, <1>8, NoneAssumption DEF TypeOK, DeletedStaysDeleted, Asks, Status
<1> QED
  BY <1>10, <1>11, <1>12, <1>13, <1>14, <1>15, <1>16, <1>17

LEMMA FindSafety ==
    ASSUME SafetyInv, NEW r \in Req, FindResume(r)
    PROVE  SafetyInv'
<1> USE BoundAssumption DEF SafetyInv
<1>0. /\ pc[r] = "find" /\ reply[r] = None /\ req[r] # None
      /\ req[r].op \notin {"CreateResume", "ListResumes"}
      /\ UNCHANGED <<resumes, entries, techs, req, made, rows, view, held,
                     locks, faults>>
  BY DEF FindResume, At, ControlInv, InFlight, tables, pool
<1>1. CASE Answer(r, 404) /\ UNCHANGED row
  BY <1>0, <1>1, AnswerSafety DEF Status, TypeOK, tables
<1>2. CASE \E c \in resumes :
             /\ c.id = req[r].resume
             /\ row' = [row EXCEPT ![r] = c]
             /\ IF Allowed(r, c) \/ req[r].op = "GetResume"
                  THEN \/ Goto(r, Act(r))
                       \/ /\ req[r].op \in {"Add", "SavePersonalInfo"}
                          /\ Answer(r, 400)
                  ELSE Answer(r, 403)
  <2>a. PICK c \in resumes :
             /\ c.id = req[r].resume
             /\ row' = [row EXCEPT ![r] = c]
             /\ IF Allowed(r, c) \/ req[r].op = "GetResume"
                  THEN \/ Goto(r, Act(r))
                       \/ /\ req[r].op \in {"Add", "SavePersonalInfo"}
                          /\ Answer(r, 400)
                  ELSE Answer(r, 403)
    BY <1>2
  <2>b. \E step, status :
             /\ pc' = [pc EXCEPT ![r] = step]
             /\ reply' = [reply EXCEPT ![r] = status]
             /\ \/ step = "done" /\ status \in {400, 403}
                \/ /\ step = Act(r) /\ status = None
                   /\ Allowed(r, c) \/ req[r].op = "GetResume"
    <3>1. CASE Answer(r, 400) \/ Answer(r, 403)
      BY <3>1 DEF Answer
    <3>2. CASE Goto(r, Act(r)) /\ (Allowed(r, c) \/ req[r].op = "GetResume")
      <4>1. reply' = [reply EXCEPT ![r] = None]
        BY <1>0, <3>2 DEF Goto, TypeOK
      <4> QED
        BY ZenonT(60), <3>2, <4>1 DEF Goto
    <3> QED
      BY <2>a, <3>1, <3>2
  <2>c. PICK step, status :
             /\ pc' = [pc EXCEPT ![r] = step]
             /\ reply' = [reply EXCEPT ![r] = status]
             /\ \/ step = "done" /\ status \in {400, 403}
                \/ /\ step = Act(r) /\ status = None
                   /\ Allowed(r, c) \/ req[r].op = "GetResume"
    BY <2>b
  <2>0. /\ c.id = req[r].resume
        /\ row' = [row EXCEPT ![r] = c]
        /\ pc' = [pc EXCEPT ![r] = step]
        /\ reply' = [reply EXCEPT ![r] = status]
        /\ \/ step = "done" /\ status \in {400, 403}
           \/ /\ step = Act(r) /\ status = None
              /\ Allowed(r, c) \/ req[r].op = "GetResume"
    BY <2>a, <2>c
  <2>1. c \in Resume /\ c # None /\ r \notin locks
    BY <1>0, NoneAssumption DEF TypeOK, TxInv
  <2>2. /\ row'[r] = c /\ pc'[r] = step /\ reply'[r] = status
        /\ \A q \in Req : q # r => /\ row'[q] = row[q] /\ pc'[q] = pc[q]
                                  /\ reply'[q] = reply[q]
    BY <2>0 DEF TypeOK
  <2>3. row[r] # None => row[r] = c
    BY <2>0 DEF IdInv
  <2>4. \A q \in Req : Permitted(q) => Permitted(q)'
    BY <1>0, <2>1, <2>2, <2>3 DEF Permitted
  <2>5. /\ step \in Sections \cup {"delete", "save_info", "get_info",
                                 "delete_entry", "tx_begin", "insert", "done"}
        /\ step = "delete" => Asks(r, "DeleteResume")
        /\ step = "delete_entry" => Asks(r, "Delete")
        /\ step = "get_info" =>
              Asks(r, "GetPersonalInfo") \/ Asks(r, "GetResume")
        /\ step \in Sections => Asks(r, "Get") \/ Asks(r, "GetResume")
        /\ step = "insert" => Asks(r, "Add") /\ req[r].section # "projects"
        /\ step = "tx_begin" => Asks(r, "Add") /\ req[r].section = "projects"
        /\ step = "save_info" => Asks(r, "SavePersonalInfo")
    BY <1>0, <2>0 DEF Act, Asks, TypeOK, Request, AllOps, ControlInv, Sections
  <2>6. /\ row'[r] # None
        /\ step # "done" /\ ~Asks(r, "GetResume") => Permitted(r)'
    <3>1. step # "done" /\ ~Asks(r, "GetResume") => Allowed(r, c)
      BY <1>0, <2>0 DEF Asks, ControlInv, InFlight
    <3> QED
      BY <1>0, <2>1, <2>2, <3>1 DEF Allowed, Permitted
  <2>7. TypeOK'
    BY <1>0, <2>0, <2>1, <2>5 DEF TypeOK, Steps, Status
  <2>8. ControlInv'
    BY <1>0, <2>0, <2>1, <2>2, <2>4, <2>5, <2>6
       DEF ControlInv, InFlight, Asks, Sections
  <2>9. IdInv'
    <3>1. \A q \in Req : pc[q] = "done" => q # r /\ pc'[q] = "done"
      BY <1>0, <2>2
    <3>2. \A q \in Req : row'[q] # None =>
            /\ row'[q].id = req[q].resume
            /\ \A d \in resumes : d.id = row'[q].id => d = row'[q]
      <4>1. \A d \in resumes : d.id = c.id => d = c
        BY DEF IdInv
      <4> QED
        BY <2>0, <2>2, <4>1 DEF IdInv
    <3> QED
      BY <1>0, <3>1, <3>2 DEF TypeOK, IdInv, At, Asks, EntryOf, SectionEntry
  <2>10. FoundInv'
    BY <1>0, <2>0, <2>2, <2>4 DEF FoundInv, ResumeExists, Asks
  <2>11. TxInv'
    BY <1>0, <2>1, <2>2, <2>5 DEF TypeOK, TxInv, ResumeExists, Sections
  <2>12. NoOrphans' /\ ProjectWhole'
    BY <1>0 DEF NoOrphans, ProjectWhole, TechsOf
  <2>13. PromisedEntryKept'
    <3>1. \A e : Doomed(e) => Doomed(e)'
      BY <1>0, <2>4 DEF Doomed, DeleteAsked, Misdirected, AsksDeletion, Asks
    <3> QED
      BY <1>0, <2>0, <2>2, <3>1, NoneAssumption
         DEF PromisedEntryKept, Asks, EntryOf, Status
  <2>14. DeletedStaysDeleted'
    BY <1>0, <2>0, <2>2, NoneAssumption DEF DeletedStaysDeleted, Asks, Status
  <2> QED
    BY <2>7, <2>8, <2>9, <2>10, <2>11, <2>12, <2>13, <2>14
<1> QED
  BY <1>1, <1>2 DEF FindResume

LEMMA CreateSafety ==
    ASSUME SafetyInv, NEW r \in Req, CreateCV(r)
    PROVE  SafetyInv'
<1> USE BoundAssumption DEF SafetyInv
<1> DEFINE c == [id |-> r, owner |-> req[r].who]
<1>1. PICK status \in {201, 500} :
             /\ resumes' = resumes \cup {c} /\ Answer(r, status)
             /\ faults' \in 0..MaxFaults /\ faults' >= faults
  BY DEF CreateCV, Fault, NoFault, TypeOK
<1>2. /\ pc[r] = "create" /\ reply[r] = None /\ req[r] # None
      /\ pc' = [pc EXCEPT ![r] = "done"]
      /\ reply' = [reply EXCEPT ![r] = status]
      /\ UNCHANGED <<entries, techs, req, row, made, rows, view, held, locks>>
  BY <1>1 DEF CreateCV, At, Answer, ControlInv, InFlight, local, pool
<1>3. c \in Resume /\ c.id = r
  BY <1>2 DEF TypeOK, Resume, ResumeId, Request
<1> HIDE DEF c
<1>4. /\ \A q \in Req : req[q] # None => req[q].resume # r
      /\ \A d \in resumes : d.id # r
  BY <1>2 DEF IdInv
<1>5. \A q \in Req : Permitted(q)' = Permitted(q)
  BY <1>2 DEF Permitted
<1>ids. \A q \in Req : row[q] # None => row[q].id # r
  BY <1>4 DEF IdInv, ControlInv
<1>6. TypeOK'
  BY <1>1, <1>2, <1>3 DEF TypeOK, Status
<1>7. ControlInv'
  BY <1>2, <1>5 DEF TypeOK, ControlInv, InFlight, Asks, Sections
<1>8. IdInv'
  BY <1>1, <1>2, <1>3, <1>4, <1>ids
     DEF TypeOK, IdInv, At, Asks, EntryOf, SectionEntry
<1>9. FoundInv'
  BY <1>1, <1>2, <1>5 DEF FoundInv, ResumeExists, Asks
<1>10. TxInv'
  BY <1>1, <1>2 DEF TypeOK, TxInv, ResumeExists
<1>11. NoOrphans' /\ ProjectWhole'
  BY <1>1, <1>2 DEF NoOrphans, ProjectWhole, TechsOf
<1>12. PromisedEntryKept'
  <2>1. \A e : Doomed(e)' = Doomed(e)
    BY <1>2, <1>5 DEF Doomed, DeleteAsked, Misdirected, AsksDeletion, Asks
  <2>2. ~Asks(r, "Add")
    BY <1>2 DEF Asks, ControlInv
  <2> QED
    BY <1>1, <1>2, <2>1, <2>2 DEF TypeOK, PromisedEntryKept, Asks, EntryOf
<1>13. DeletedStaysDeleted'
  BY <1>1, <1>2, <1>3, <1>4 DEF TypeOK, DeletedStaysDeleted, Asks
<1> QED
  BY <1>6, <1>7, <1>8, <1>9, <1>10, <1>11, <1>12, <1>13

LEMMA DeleteResumeSafety ==
    ASSUME SafetyInv, NEW r \in Req, DeleteCV(r)
    PROVE  SafetyInv'
<1> USE BoundAssumption DEF SafetyInv
<1> DEFINE c == req[r].resume
           gone == {e \in entries : e.resume = c}
<1>1. PICK status \in {200, 500} :
             /\ Answer(r, status)
             /\ faults' \in 0..MaxFaults /\ faults' >= faults
  BY DEF DeleteCV, Fault, NoFault, TypeOK
<1>2. /\ pc[r] \in {"delete", "delete_wait"}
      /\ Asks(r, "DeleteResume") /\ Permitted(r)
      /\ pc' = [pc EXCEPT ![r] = "done"]
      /\ reply' = [reply EXCEPT ![r] = status]
      /\ \A q \in locks : req[q].resume # c
      /\ resumes' = {d \in resumes : d.id # c}
      /\ entries' = entries \ gone
      /\ techs' = {t \in techs : \A e \in gone : e.id # t[1]}
      /\ held' = held \ {r}
      /\ UNCHANGED <<req, row, made, rows, view, locks>>
  BY <1>1 DEF DeleteCV, At, Answer, ControlInv, Locked, DeleteRow, Cascade,
              CascadeTechs, local
<1>3. \A q \in Req : Permitted(q)' = Permitted(q)
  BY <1>2 DEF Permitted
<1>4. r \notin locks
  BY <1>2 DEF TxInv
<1>5. TypeOK'
  BY <1>1, <1>2 DEF TypeOK, Status
<1>6. ControlInv'
  BY <1>2, <1>3 DEF TypeOK, ControlInv, InFlight, Asks, Sections
<1>7. IdInv'
  BY <1>2 DEF TypeOK, IdInv, At, Asks, EntryOf, SectionEntry
<1>8. FoundInv'
  BY <1>2, <1>3 DEF FoundInv, ResumeExists, Asks
<1>9. TxInv'
  BY <1>2, <1>4 DEF TypeOK, TxInv, ResumeExists
<1>10. \A e \in entries', d \in gone : e.id # d.id
  BY <1>2 DEF IdInv
<1>11. NoOrphans'
  <2>1. \A e \in entries' : \E d \in resumes' : d.id = e.resume
    BY <1>2 DEF NoOrphans
  <2>2. \A t \in techs' :
           \E e \in entries' : e.id = t[1] /\ e.section = "projects"
    BY <1>2 DEF NoOrphans
  <2> QED
    BY <2>1, <2>2 DEF NoOrphans
<1>12. ProjectWhole'
  <2>1. \A e \in entries' : TechsOf(e.id)' = TechsOf(e.id)
    BY <1>2, <1>10 DEF TechsOf
  <2> QED
    BY <1>2, <2>1 DEF ProjectWhole
<1>13. PromisedEntryKept'
  <2>1. \A e : Doomed(e)' = Doomed(e)
    BY <1>2, <1>3 DEF Doomed, DeleteAsked, Misdirected, AsksDeletion, Asks
  <2>2. \A e \in gone : Doomed(e)
    BY <1>2 DEF Doomed, DeleteAsked, Misdirected, AsksDeletion
  <2> QED
    BY <1>1, <1>2, <2>1, <2>2 DEF TypeOK, PromisedEntryKept, Asks, EntryOf
<1>14. DeletedStaysDeleted'
  <2> SUFFICES ASSUME NEW q \in Req, Asks(q, "DeleteResume"), reply'[q] = 200
               PROVE  /\ \A d \in resumes' : d.id # req[q].resume
                      /\ \A e \in entries' : e.resume # req[q].resume
                      /\ \A p \in locks : req[p].resume # req[q].resume
    BY <1>2 DEF DeletedStaysDeleted, Asks
  <2>1. CASE q = r
    BY <1>2, <2>1
  <2>2. CASE q # r
    BY <1>2, <2>2 DEF TypeOK, DeletedStaysDeleted
  <2> QED
    BY <2>1, <2>2
<1> QED
  BY <1>5, <1>6, <1>7, <1>8, <1>9, <1>11, <1>12, <1>13, <1>14

LEMMA DeleteEntrySafety ==
    ASSUME SafetyInv, NEW r \in Req, DeleteEntry(r)
    PROVE  SafetyInv'
<1> USE BoundAssumption DEF SafetyInv
<1> DEFINE gone == Targets(r)
<1>1. PICK status \in {200, 404, 500} :
             /\ Answer(r, status)
             /\ faults' \in 0..MaxFaults /\ faults' >= faults
  BY DEF DeleteEntry, DeleteStatus, Fault, NoFault, TypeOK
<1>2. /\ pc[r] = "delete_entry" /\ Asks(r, "Delete") /\ Permitted(r)
      /\ pc' = [pc EXCEPT ![r] = "done"]
      /\ reply' = [reply EXCEPT ![r] = status]
      /\ entries' = entries \ gone
      /\ techs' = {t \in techs : \A e \in gone : e.id # t[1]}
      /\ UNCHANGED <<resumes, req, row, made, rows, view, held, locks>>
  BY <1>1 DEF DeleteEntry, At, Answer, ControlInv, CascadeTechs, local, pool
<1>3. \A e \in gone : /\ e \in entries /\ e.id = req[r].entry
                      /\ e.section = req[r].section
  BY DEF Targets
<1> HIDE DEF gone
<1>4. \A q \in Req : Permitted(q)' = Permitted(q)
  BY <1>2 DEF Permitted
<1>5. TypeOK'
  BY <1>1, <1>2 DEF TypeOK, Status
<1>6. ControlInv'
  BY <1>2, <1>4 DEF TypeOK, ControlInv, InFlight, Asks, Sections
<1>7. IdInv'
  BY <1>2 DEF TypeOK, IdInv, At, Asks, EntryOf, SectionEntry
<1>8. FoundInv' /\ TxInv'
  BY <1>2, <1>4 DEF TypeOK, FoundInv, TxInv, ResumeExists, Asks
<1>9. \A e \in entries', d \in gone : e.id # d.id
  BY <1>2, <1>3 DEF IdInv
<1>10. NoOrphans'
  BY <1>2 DEF NoOrphans
<1>11. ProjectWhole'
  <2>1. \A e \in entries' : TechsOf(e.id)' = TechsOf(e.id)
    BY <1>2, <1>9 DEF TechsOf
  <2> QED
    BY <1>2, <2>1 DEF ProjectWhole
<1>12. PromisedEntryKept'
  <2>1. \A e : Doomed(e)' = Doomed(e)
    BY <1>2, <1>4 DEF Doomed, DeleteAsked, Misdirected, AsksDeletion, Asks
  <2>2. \A e \in gone : Doomed(e)
    BY <1>2, <1>3 DEF Doomed, DeleteAsked, Misdirected, AsksDeletion
  <2> QED
    BY <1>1, <1>2, <2>1, <2>2 DEF TypeOK, PromisedEntryKept, Asks, EntryOf
<1>13. DeletedStaysDeleted'
  BY <1>2 DEF TypeOK, DeletedStaysDeleted, Asks
<1> QED
  BY <1>5, <1>6, <1>7, <1>8, <1>10, <1>11, <1>12, <1>13

LEMMA InsertSafety ==
    ASSUME SafetyInv, NEW r \in Req, InsertEntry(r)
    PROVE  SafetyInv'
<1> USE BoundAssumption DEF SafetyInv
<1> DEFINE e == EntryOf(r)
<1>0. /\ pc[r] = "insert" /\ reply[r] = None
      /\ Asks(r, "Add") /\ req[r].section # "projects" /\ row[r] # None
      /\ UNCHANGED <<resumes, techs, req, row, made, rows, view, held, locks>>
  BY DEF InsertEntry, At, ControlInv, Permitted, local, pool
<1>1. /\ e \in SectionEntry /\ e.id = r /\ e.resume = req[r].resume
      /\ e.section = req[r].section
  BY <1>0 DEF TypeOK, IdInv, ControlInv, EntryOf, SectionEntry, Asks, Resume
<1>2. \A q \in Req : Permitted(q)' = Permitted(q)
  BY <1>0 DEF Permitted
<1>3. \A d : Doomed(d)' = Doomed(d)
  BY <1>0, <1>2 DEF Doomed, DeleteAsked, Misdirected, AsksDeletion, Asks
<1>4. faults' \in 0..MaxFaults /\ faults' >= faults
  BY DEF InsertEntry, Fault, NoFault, TypeOK
<1>5. CASE UNCHANGED entries
  <2>1. PICK status \in {201, 500} :
             /\ Answer(r, status)
             /\ status = 201 =>
                   \/ ResumeExists(r) /\ entries' = entries \cup {e}
                   \/ ~ResumeExists(r)
                   \/ req[r].section = "experience" /\ faults' > 0
    BY <1>5 DEF InsertEntry, Fault, TypeOK
  <2>2. pc' = [pc EXCEPT ![r] = "done"]
    BY <2>1 DEF Answer
  <2>3. ~ResumeExists(r) => Doomed(e)
    BY <1>0, <1>1 DEF FoundInv, Doomed, DeleteAsked, Misdirected, AsksDeletion
  <2>4. e \notin entries
    BY <1>0, <1>1 DEF IdInv, At
  <2>5. /\ status = 201 => \/ req[r].section = "experience" /\ faults' > 0
                           \/ Doomed(EntryOf(r))
        /\ ~Asks(r, "DeleteResume")
    BY <1>0, <1>5, <2>1, <2>3, <2>4 DEF Asks
  <2> HIDE DEF e
  <2> QED
    BY <1>0, <1>4, <1>5, <2>1, <2>5, AnswerSafety DEF TypeOK, Status, tables
<1>6. CASE ResumeExists(r) /\ entries' = entries \cup {e}
  <2>1. PICK status \in {201, 500} : Answer(r, status)
    BY DEF InsertEntry
  <2>2. /\ pc' = [pc EXCEPT ![r] = "done"]
        /\ reply' = [reply EXCEPT ![r] = status]
    BY <2>1 DEF Answer
  <2> HIDE DEF e
  <2>3. TypeOK'
    BY <1>0, <1>1, <1>4, <1>6, <2>2 DEF TypeOK, Status
  <2>4. ControlInv'
    BY <1>0, <1>2, <2>2 DEF TypeOK, ControlInv, InFlight, Asks, Sections
  <2>5. IdInv'
    <3>1. \A d \in entries' : /\ At(d.id, "done")' /\ Asks(d.id, "Add")'
                              /\ d = EntryOf(d.id)'
      BY <1>0, <1>1, <1>6, <2>2
         DEF e, TypeOK, IdInv, At, Asks, EntryOf, SectionEntry
    <3> QED
      BY <1>0, <2>2, <3>1 DEF TypeOK, IdInv
  <2>6. FoundInv'
    BY <1>0, <1>2 DEF FoundInv, ResumeExists, Asks
  <2>7. TxInv'
    BY <1>0, <2>2 DEF TypeOK, TxInv, ResumeExists
  <2>8. NoOrphans'
    BY <1>0, <1>1, <1>6 DEF NoOrphans, ResumeExists
  <2>9. ProjectWhole'
    BY <1>0, <1>1, <1>6 DEF ProjectWhole, TechsOf
  <2>10. PromisedEntryKept'
    BY <1>0, <1>3, <1>4, <1>6, <2>2
       DEF e, TypeOK, PromisedEntryKept, Asks, EntryOf
  <2>11. DeletedStaysDeleted'
    BY <1>0, <1>1, <1>6, <2>2
       DEF TypeOK, DeletedStaysDeleted, ResumeExists, Asks
  <2> QED
    BY <2>3, <2>4, <2>5, <2>6, <2>7, <2>8, <2>9, <2>10, <2>11
<1> QED
  BY <1>5, <1>6 DEF InsertEntry

\* A transaction moves on without a commit, or a connection is taken.
LEMMA MoveSafety ==
    ASSUME SafetyInv, NEW r \in Req,
           NEW step \in {"tx_insert", "tx_tech", "tx_commit", "delete_wait"},
           Goto(r, step), held' = held \cup {r},
           UNCHANGED <<tables, req, row, rows, view, faults>>,
           made' \in [Req -> 0..MaxTechs],
           \A q \in Req : q # r => made'[q] = made[q],
           step = "delete_wait" => pc[r] = "delete",
           step = "tx_insert" => pc[r] = "tx_begin",
           step \in {"tx_tech", "tx_commit"} =>
              pc[r] \in {"tx_insert", "tx_tech"},
           IF step \in {"tx_tech", "tx_commit"}
             THEN locks' = locks \cup {r} /\ ResumeExists(r)
             ELSE locks' = locks,
           step = "tx_insert" => made'[r] = 0,
           step = "tx_tech" => made'[r] < req[r].techs,
           step = "tx_commit" => made'[r] = req[r].techs
    PROVE  SafetyInv'
<1> USE DEF SafetyInv
<1>0. /\ pc' = [pc EXCEPT ![r] = step] /\ reply' = reply
      /\ UNCHANGED <<resumes, entries, techs, req, row>>
  BY DEF Goto, tables
<1>1. \A q \in Req : Permitted(q)' = Permitted(q)
  BY <1>0 DEF Permitted
<1>2. TypeOK'
  BY <1>0 DEF TypeOK, Steps
<1>3. ControlInv'
  BY <1>0, <1>1 DEF TypeOK, ControlInv, InFlight, Asks, Sections
<1>4. IdInv'
  BY <1>0 DEF TypeOK, IdInv, At, Asks, EntryOf, SectionEntry
<1>5. FoundInv'
  BY <1>0, <1>1 DEF FoundInv, ResumeExists, Asks
<1>6. TxInv'
  BY <1>0 DEF TypeOK, TxInv, ResumeExists
<1>7. NoOrphans' /\ ProjectWhole'
  BY <1>0 DEF NoOrphans, ProjectWhole, TechsOf
<1>8. PromisedEntryKept'
  <2>1. \A e : Doomed(e)' = Doomed(e)
    BY <1>0, <1>1 DEF Doomed, DeleteAsked, Misdirected, AsksDeletion, Asks
  <2> QED
    BY <1>0, <2>1 DEF PromisedEntryKept, Asks, EntryOf
<1>9. DeletedStaysDeleted'
  BY <1>0 DEF TypeOK, DeletedStaysDeleted, Asks, ResumeExists
<1> QED
  BY <1>2, <1>3, <1>4, <1>5, <1>6, <1>7, <1>8, <1>9

LEMMA WaitSafety ==
    ASSUME SafetyInv, NEW r \in Req, WaitForLock(r)
    PROVE  SafetyInv'
  BY MoveSafety DEF WaitForLock, At, SafetyInv, TypeOK, local

LEMMA BeginSafety ==
    ASSUME SafetyInv, NEW r \in Req, BeginTx(r)
    PROVE  SafetyInv'
  BY MoveSafety DEF BeginTx, At, SafetyInv, TypeOK, TxInv, local

LEMMA TxInsertSafety ==
    ASSUME SafetyInv, NEW r \in Req, TxInsert(r)
    PROVE  SafetyInv'
<1>0. /\ pc[r] = "tx_insert" /\ made[r] = 0 /\ r \in held
      /\ Asks(r, "Add") /\ req[r] \in Request
      /\ UNCHANGED <<tables, req, row, made, rows, view>>
  BY DEF TxInsert, At, SafetyInv, TypeOK, TxInv, ControlInv, Asks, local
<1>1. CASE /\ ResumeExists(r) /\ locks' = locks \cup {r}
           /\ Goto(r, NextInsert(r, 0)) /\ UNCHANGED held /\ NoFault
  <2>1. \/ NextInsert(r, 0) = "tx_tech" /\ 0 < req[r].techs
        \/ NextInsert(r, 0) = "tx_commit" /\ req[r].techs = 0
    BY <1>0, BoundAssumption DEF NextInsert, Request
  <2>2. held' = held \cup {r} /\ made' \in [Req -> 0..MaxTechs]
    BY <1>0, <1>1 DEF SafetyInv, TypeOK
  <2> QED
    BY <1>0, <1>1, <2>1, <2>2, MoveSafety DEF NoFault
<1>2. CASE EndTx(r) /\ Answer(r, 500) /\ (NoFault \/ Fault)
  <2>1. faults' \in 0..MaxFaults /\ faults' >= faults
    BY <1>2, BoundAssumption DEF NoFault, Fault, SafetyInv, TypeOK
  <2> QED
    BY <1>0, <1>2, <2>1, AnswerSafety DEF EndTx, SafetyInv, TypeOK, Status
<1> QED
  BY <1>1, <1>2 DEF TxInsert

LEMMA TxTechSafety ==
    ASSUME SafetyInv, NEW r \in Req, TxTech(r)
    PROVE  SafetyInv'
<1>0. /\ pc[r] = "tx_tech" /\ made[r] < req[r].techs
      /\ r \in held /\ r \in locks /\ ResumeExists(r)
      /\ Asks(r, "Add") /\ req[r] \in Request
      /\ made \in [Req -> 0..MaxTechs]
      /\ UNCHANGED <<tables, req, row, rows, view, held>>
  BY DEF TxTech, At, SafetyInv, TypeOK, TxInv, ControlInv, Asks
<1>1. CASE /\ made' = [made EXCEPT ![r] = @ + 1]
           /\ Goto(r, NextInsert(r, made[r] + 1)) /\ UNCHANGED locks /\ NoFault
  <2>1. made[r] + 1 \in 0..MaxTechs /\ made[r] + 1 <= req[r].techs
    BY <1>0, BoundAssumption DEF Request
  <2>2. /\ made' \in [Req -> 0..MaxTechs] /\ made'[r] = made[r] + 1
        /\ \A q \in Req : q # r => made'[q] = made[q]
    BY <1>0, <1>1, <2>1
  <2>3. \/ NextInsert(r, made[r] + 1) = "tx_tech" /\ made'[r] < req[r].techs
        \/ NextInsert(r, made[r] + 1) = "tx_commit" /\ made'[r] = req[r].techs
    BY <1>0, <2>1, <2>2, BoundAssumption DEF NextInsert, Request
  <2> QED
    BY <1>0, <1>1, <2>2, <2>3, MoveSafety DEF NoFault
<1>2. CASE /\ locks' \in {locks, locks \ {r}}
           /\ Answer(r, 500) /\ Fault /\ UNCHANGED made
  <2>1. faults' \in 0..MaxFaults /\ faults' >= faults
    BY <1>2, BoundAssumption DEF Fault, SafetyInv, TypeOK
  <2> QED
    BY <1>0, <1>2, <2>1, AnswerSafety DEF SafetyInv, TypeOK, Status
<1> QED
  BY <1>1, <1>2 DEF TxTech

LEMMA TxCommitSafety ==
    ASSUME SafetyInv, NEW r \in Req, TxCommit(r)
    PROVE  SafetyInv'
<1> USE BoundAssumption DEF SafetyInv
<1> DEFINE e == EntryOf(r)
           new == {<<r, k>> : k \in 1..made[r]}
<1>0. /\ pc[r] = "tx_commit" /\ made[r] = req[r].techs /\ r \in held
      /\ reply[r] = None /\ ResumeExists(r) /\ Asks(r, "Add")
      /\ req[r].section = "projects" /\ row[r] # None
      /\ held' = held \ {r} /\ locks' = locks \ {r}
      /\ UNCHANGED <<resumes, req, row, made, rows, view>>
  BY DEF TxCommit, At, TypeOK, TxInv, ControlInv, Permitted, EndTx, local
<1>1. /\ e \in SectionEntry /\ e.id = r /\ e.resume = req[r].resume
      /\ e.section = "projects"
  BY <1>0 DEF TypeOK, IdInv, EntryOf, SectionEntry, Sections, Asks, Resume
<1>2. faults' \in 0..MaxFaults /\ faults' >= faults
  BY DEF TxCommit, Fault, NoFault, TypeOK
<1>3. CASE UNCHANGED <<entries, techs>> /\ Answer(r, 500)
  BY <1>0, <1>2, <1>3, AnswerSafety DEF TypeOK, Status, tables
<1>4. CASE /\ entries' = entries \cup {e} /\ techs' = techs \cup new
           /\ Answer(r, 201) \/ Answer(r, 500)
  <2>1. PICK status \in {201, 500} : Answer(r, status)
    BY <1>4
  <2>2. /\ pc' = [pc EXCEPT ![r] = "done"]
        /\ reply' = [reply EXCEPT ![r] = status]
    BY <2>1 DEF Answer
  <2>3. \A q \in Req : Permitted(q)' = Permitted(q)
    BY <1>0 DEF Permitted
  <2>4. \A d : Doomed(d)' = Doomed(d)
    BY <1>0, <2>3 DEF Doomed, DeleteAsked, Misdirected, AsksDeletion, Asks
  <2>5. /\ new \subseteq Req \X (1..MaxTechs)
        /\ \A t \in new : t[1] = r
        /\ \A k \in 1..MaxTechs : <<r, k>> \in new <=> k \in 1..made[r]
    BY DEF TypeOK
  <2>6. /\ \A d \in entries : d.id # r
        /\ \A t \in techs : t[1] # r
    BY <1>0 DEF IdInv, At, NoOrphans
  <2> HIDE DEF e, new
  <2>7. TypeOK'
    BY <1>0, <1>1, <1>2, <1>4, <2>2, <2>5 DEF TypeOK, Status
  <2>8. ControlInv'
    BY <1>0, <2>2, <2>3 DEF TypeOK, ControlInv, InFlight, Asks, Sections
  <2>9. IdInv'
    <3>1. \A d \in entries' : /\ At(d.id, "done")' /\ Asks(d.id, "Add")'
                              /\ d = EntryOf(d.id)'
      BY <1>0, <1>1, <1>4, <2>2
         DEF e, TypeOK, IdInv, At, Asks, EntryOf, SectionEntry
    <3> QED
      BY <1>0, <2>2, <3>1 DEF TypeOK, IdInv
  <2>10. FoundInv'
    BY <1>0, <2>3 DEF FoundInv, ResumeExists, Asks
  <2>11. TxInv'
    BY <1>0, <2>2 DEF TypeOK, TxInv, ResumeExists
  <2>12. NoOrphans'
    BY <1>0, <1>1, <1>4, <2>5 DEF NoOrphans, ResumeExists
  <2>13. ProjectWhole'
    <3>1. TechsOf(r)' = 1..req[r].techs
      <4>1. \A k \in 1..MaxTechs : <<r, k>> \notin techs
        BY <2>6
      <4>2. req[r].techs \in 0..MaxTechs
        BY <1>0 DEF TypeOK
      <4> QED
        BY <1>0, <1>4, <2>5, <4>1, <4>2 DEF TechsOf
    <3>2. \A d \in entries : TechsOf(d.id)' = TechsOf(d.id)
      BY <1>4, <2>5, <2>6 DEF TechsOf
    <3> QED
      BY <1>0, <1>1, <1>4, <3>1, <3>2 DEF ProjectWhole
  <2>14. PromisedEntryKept'
    BY <1>0, <1>2, <1>4, <2>2, <2>4
       DEF e, TypeOK, PromisedEntryKept, Asks, EntryOf
  <2>15. DeletedStaysDeleted'
    BY <1>0, <1>1, <1>4, <2>2
       DEF TypeOK, DeletedStaysDeleted, ResumeExists, Asks
  <2> QED
    BY <2>7, <2>8, <2>9, <2>10, <2>11, <2>12, <2>13, <2>14, <2>15
<1> QED
  BY <1>3, <1>4 DEF TxCommit

\* A section has been read: the request answers or goes on reading.
LEMMA ProceedSafety ==
    ASSUME SafetyInv, NEW r \in Req, NEW section \in Sections,
           pc[r] \in Sections \cup {"read_techs"}, Proceed(r, section),
           UNCHANGED <<tables, req, row, made, pool>>,
           rows' \in [Req -> SUBSET Req], view' \in [Req -> SUBSET Shown],
           faults' \in 0..MaxFaults, faults' >= faults,
           Asks(r, "Get") \/ Asks(r, "GetResume")
    PROVE  SafetyInv'
<1>1. CASE Answer(r, 200) \/ Answer(r, 403)
  BY <1>1, AnswerSafety DEF Status, Sections, Asks, pool
<1>2. CASE section # "certifications" /\ Goto(r, Following[section])
  <2>1. Following[section] \in Sections
    BY <1>2 DEF Following, Sections
  <2> QED
    BY <1>2, <2>1, ReadOnSafety
<1> QED
  BY <1>1, <1>2 DEF Proceed

LEMMA NextProjectSafety ==
    ASSUME SafetyInv, NEW r \in Req, NEW rest \in SUBSET Req,
           pc[r] \in {"projects", "read_techs"}, NextProject(r, rest),
           UNCHANGED <<tables, req, row, made, pool>>,
           view' \in [Req -> SUBSET Shown],
           faults' \in 0..MaxFaults, faults' >= faults,
           Asks(r, "Get") \/ Asks(r, "GetResume")
    PROVE  SafetyInv'
<1>1. rows' \in [Req -> SUBSET Req]
  BY DEF NextProject, SafetyInv, TypeOK
<1>2. CASE Proceed(r, "projects")
  BY <1>1, <1>2, ProceedSafety DEF Sections
<1>3. CASE Goto(r, "read_techs")
  BY <1>1, <1>3, ReadOnSafety DEF Sections
<1> QED
  BY <1>2, <1>3 DEF NextProject

LEMMA ReadSectionSafety ==
    ASSUME SafetyInv, NEW r \in Req, ReadSection(r)
    PROVE  SafetyInv'
<1>0. /\ pc[r] \in Sections /\ (Asks(r, "Get") \/ Asks(r, "GetResume"))
      /\ UNCHANGED <<tables, req, row, made, pool>>
      /\ rows \in [Req -> SUBSET Req] /\ view \in [Req -> SUBSET Shown]
      /\ faults' \in 0..MaxFaults /\ faults' >= faults
  BY BoundAssumption
     DEF ReadSection, SafetyInv, TypeOK, ControlInv, Fault, NoFault, Asks
<1>1. Select(r) \subseteq Req
  BY DEF Select, SafetyInv, TypeOK, SectionEntry
<1>2. CASE pc[r] = "projects" /\ NextProject(r, Select(r)) /\ UNCHANGED view
  BY <1>0, <1>1, <1>2, NextProjectSafety
<1>3. CASE /\ See(r, {[id |-> i, techs |-> 0] : i \in Select(r)})
           /\ Proceed(r, pc[r]) /\ UNCHANGED rows
  <2>1. {[id |-> i, techs |-> 0] : i \in Select(r)} \subseteq Shown
    BY <1>1, BoundAssumption DEF Shown
  <2>2. view' \in [Req -> SUBSET Shown]
    BY <1>0, <1>3, <2>1 DEF See
  <2> QED
    BY <1>0, <1>3, <2>2, ProceedSafety
<1>4. CASE Answer(r, 500) /\ UNCHANGED <<rows, view>>
  BY <1>0, <1>4, AnswerSafety DEF Status, Sections, Asks, pool
<1>5. CASE Proceed(r, pc[r]) /\ UNCHANGED <<rows, view>>
  BY <1>0, <1>5, ProceedSafety
<1> QED
  BY <1>2, <1>3, <1>4, <1>5 DEF ReadSection

LEMMA ReadTechsSafety ==
    ASSUME SafetyInv, NEW r \in Req, ReadTechs(r)
    PROVE  SafetyInv'
<1>1. PICK p \in rows[r] :
          /\ \/ /\ Free /\ NoFault
                /\ See(r, {[id |-> p, techs |-> Cardinality(TechsOf(p))]})
             \/ Fault /\ See(r, {[id |-> p, techs |-> None]})
          /\ NextProject(r, rows[r] \ {p})
  BY Zenon DEF ReadTechs
<1>0. /\ pc[r] = "read_techs" /\ (Asks(r, "Get") \/ Asks(r, "GetResume"))
      /\ UNCHANGED <<tables, req, row, made, pool>>
      /\ rows[r] \in SUBSET Req /\ view \in [Req -> SUBSET Shown]
      /\ p \in Req
  BY <1>1 DEF ReadTechs, At, SafetyInv, TypeOK, ControlInv, Sections, Asks
<1>2. faults' \in 0..MaxFaults /\ faults' >= faults
  BY <1>1, BoundAssumption DEF NoFault, Fault, SafetyInv, TypeOK
<1>3. Cardinality(TechsOf(p)) \in 0..MaxTechs
  <2>1. IsFiniteSet(1..MaxTechs) /\ Cardinality(1..MaxTechs) = MaxTechs
    BY BoundAssumption, FS_Interval
  <2>2. TechsOf(p) \subseteq 1..MaxTechs
    BY DEF TechsOf
  <2>3. /\ IsFiniteSet(TechsOf(p))
        /\ Cardinality(TechsOf(p)) <= Cardinality(1..MaxTechs)
    BY <2>1, <2>2, FS_Subset
  <2> QED
    BY <2>1, <2>3, BoundAssumption, FS_CardinalityType
<1>4. view' \in [Req -> SUBSET Shown]
  <2>1. CASE See(r, {[id |-> p, techs |-> Cardinality(TechsOf(p))]})
    BY <1>0, <1>3, <2>1 DEF See, Shown
  <2>2. CASE See(r, {[id |-> p, techs |-> None]})
    BY <1>0, <2>2 DEF See, Shown
  <2> QED
    BY <1>1, <2>1, <2>2
<1> QED
  BY <1>0, <1>1, <1>2, <1>4, NextProjectSafety

\* The calls whose only effect is an answer.
LEMMA PlainSafety ==
    ASSUME SafetyInv, NEW r \in Req,
           \/ Refuse(r) \/ CallFails(r) \/ ListResumes(r)
           \/ SavePersonalInfo(r) \/ GetPersonalInfo(r)
    PROVE  SafetyInv'
<1>0. rows \in [Req -> SUBSET Req] /\ view \in [Req -> SUBSET Shown]
  BY DEF SafetyInv, TypeOK
<1>1. CASE Refuse(r)
  BY <1>0, <1>1, AnswerSafety
     DEF Refuse, At, Status, SafetyInv, TypeOK, local, pool
<1>2. CASE CallFails(r)
  <2>1. faults' \in 0..MaxFaults /\ faults' >= faults
    BY <1>2, BoundAssumption DEF CallFails, Fault, SafetyInv, TypeOK
  <2>2. /\ pc[r] # "done" /\ r \notin locks
        /\ Answer(r, 500) /\ held' = held \ {r} /\ locks' = locks \ {r}
        /\ UNCHANGED <<tables, req, row, made, rows, view>>
    BY <1>2 DEF CallFails, At, SafetyInv, TxInv, local
  <2> QED
    BY <1>0, <2>1, <2>2, AnswerSafety DEF Status
<1>3. CASE ListResumes(r)
  BY SMTT(40), <1>0, <1>3, AnswerSafety
     DEF ListResumes, At, Status, SafetyInv, TypeOK, ControlInv, Asks, local,
         pool
<1>4. CASE SavePersonalInfo(r)
  BY <1>0, <1>4, AnswerSafety
     DEF SavePersonalInfo, At, Status, SafetyInv, TypeOK, local, pool
<1>5. CASE GetPersonalInfo(r)
  <2>1. /\ faults' \in 0..MaxFaults /\ faults' >= faults
        /\ pc[r] = "get_info"
        /\ Asks(r, "GetPersonalInfo") \/ Asks(r, "GetResume")
        /\ UNCHANGED <<tables, req, row, made, rows, view, pool>>
    BY <1>5, BoundAssumption
       DEF GetPersonalInfo, At, Fault, NoFault, SafetyInv, TypeOK, ControlInv,
           local
  <2>2. CASE Asks(r, "GetResume") /\ Goto(r, "education")
    BY <1>0, <2>1, <2>2, ReadOnSafety DEF Sections
  <2>3. CASE ~Asks(r, "GetResume") /\ (Answer(r, 200) \/ Answer(r, 500))
    BY <1>0, <2>1, <2>3, AnswerSafety DEF Status, Asks, pool
  <2> QED
    BY <1>5, <2>2, <2>3 DEF GetPersonalInfo
<1> QED
  BY <1>1, <1>2, <1>3, <1>4, <1>5

LEMMA CrashSafety ==
    ASSUME SafetyInv, Crash
    PROVE  SafetyInv'
<1> USE DEF SafetyInv
<1>0. /\ \A r \in Req : /\ pc'[r] = IF InFlight(r) THEN "done" ELSE pc[r]
                        /\ reply'[r] = IF InFlight(r) THEN Aborted ELSE reply[r]
      /\ pc' \in [Req -> Steps \cup {"idle", "done"}]
      /\ reply' \in [Req -> Status \cup {None}]
      /\ held' = {} /\ locks' = {}
      /\ UNCHANGED <<resumes, entries, techs, req, row, made, rows, view,
                     faults>>
  BY DEF Crash, TypeOK, Status, tables, local
<1>1. \A r \in Req : /\ pc'[r] \in {"idle", "done"}
                     /\ pc[r] = "done" => pc'[r] = "done"
                     /\ pc'[r] = "idle" => pc[r] = "idle"
                     /\ reply'[r] \in {Aborted, reply[r]}
                     /\ pc'[r] # "done" => reply'[r] = reply[r]
  BY <1>0 DEF InFlight
<1>2. \A q \in Req : Permitted(q)' = Permitted(q)
  BY <1>0 DEF Permitted
<1>3. TypeOK'
  BY <1>0 DEF TypeOK
<1>4. ControlInv'
  BY <1>0, <1>1 DEF ControlInv, InFlight, Asks, Sections
<1>5. IdInv'
  BY <1>0, <1>1 DEF TypeOK, IdInv, At, Asks, EntryOf, SectionEntry
<1>6. FoundInv' /\ TxInv'
  BY <1>0, <1>1, <1>2 DEF FoundInv, TxInv, ResumeExists, Asks
<1>7. NoOrphans' /\ ProjectWhole'
  BY <1>0 DEF NoOrphans, ProjectWhole, TechsOf
<1>8. PromisedEntryKept'
  <2>1. \A e : Doomed(e)' = Doomed(e)
    BY <1>0, <1>2 DEF Doomed, DeleteAsked, Misdirected, AsksDeletion, Asks
  <2> QED
    BY <1>0, <1>1, <2>1 DEF PromisedEntryKept, Asks, EntryOf, Aborted
<1>9. DeletedStaysDeleted'
  BY <1>0, <1>1 DEF DeletedStaysDeleted, Asks, Aborted
<1> QED
  BY <1>3, <1>4, <1>5, <1>6, <1>7, <1>8, <1>9

LEMMA StutterSafety ==
    ASSUME SafetyInv, UNCHANGED vars
    PROVE  SafetyInv'
<1> USE DEF SafetyInv, vars, tables, local, pool
<1>1. \A q \in Req : Permitted(q)' = Permitted(q)
  BY DEF Permitted
<1>2. \A e : Doomed(e)' = Doomed(e)
  BY <1>1 DEF Doomed, DeleteAsked, Misdirected, AsksDeletion, Asks
<1>3. TypeOK'
  BY DEF TypeOK
<1>4. ControlInv' /\ FoundInv'
  BY <1>1 DEF ControlInv, FoundInv, InFlight, Asks, ResumeExists
<1>5. IdInv' /\ TxInv' /\ NoOrphans' /\ ProjectWhole'
  BY DEF IdInv, At, Asks, EntryOf, TxInv, ResumeExists, NoOrphans,
         ProjectWhole, TechsOf
<1>6. PromisedEntryKept' /\ DeletedStaysDeleted'
  BY <1>2 DEF PromisedEntryKept, DeletedStaysDeleted, Asks, EntryOf
<1> QED
  BY <1>3, <1>4, <1>5, <1>6

LEMMA NextSafety == SafetyInv /\ [Next]_vars => SafetyInv'
<1> SUFFICES ASSUME SafetyInv, [Next]_vars PROVE SafetyInv'
  OBVIOUS
<1>1. CASE UNCHANGED vars
  BY <1>1, StutterSafety
<1>2. CASE Crash
  BY <1>2, CrashSafety
<1>3. CASE Finished
  BY <1>3, StutterSafety DEF Finished
<1>4. ASSUME NEW r \in Req, Arrive(r) \/ Refuse(r) \/ Serve(r)
      PROVE  SafetyInv'
  BY <1>4, ArriveSafety, PlainSafety, FindSafety, CreateSafety, WaitSafety,
     DeleteResumeSafety, InsertSafety, DeleteEntrySafety, BeginSafety,
     TxInsertSafety, TxTechSafety, TxCommitSafety, ReadSectionSafety,
     ReadTechsSafety
     DEF Serve
<1> QED
  BY <1>1, <1>2, <1>3, <1>4 DEF Next

\* The inductive invariant holds in every reachable state.
THEOREM SafetyInvariant == Spec => []SafetyInv
  BY InitSafety, NextSafety, PTL DEF Spec

\* Every variable keeps its type.
THEOREM TypeCorrect == Spec => []TypeOK
<1>1. SafetyInv => TypeOK
  BY DEF SafetyInv
<1> QED
  BY <1>1, SafetyInvariant, PTL

\* Every entry belongs to a resume and every technology to a project, although
\* the insert comes a call after the check and a project's commit several
\* calls after its insert.
THEOREM EntriesHaveResumes == Spec => []NoOrphans
<1>1. SafetyInv => NoOrphans
  BY DEF SafetyInv
<1> QED
  BY <1>1, SafetyInvariant, PTL

\* AddProject stores a project with all its technologies or not at all.
THEOREM ProjectsWhole == Spec => []ProjectWhole
<1>1. SafetyInv => ProjectWhole
  BY DEF SafetyInv
<1> QED
  BY <1>1, SafetyInvariant, PTL

\* A 201 of an add is kept until the owner of its resume or an administrator is
\* let in to delete it or the resume, or somebody else, let in to another
\* resume, names it in a deletion; nothing else takes it away.
THEOREM PromisesKept == Spec => []PromisedEntryKept
<1>1. SafetyInv => PromisedEntryKept
  BY DEF SafetyInv
<1> QED
  BY <1>1, SafetyInvariant, PTL

\* Nothing of a resume whose deletion was answered 200 comes back.
THEOREM DeletionsStay == Spec => []DeletedStaysDeleted
<1>1. SafetyInv => DeletedStaysDeleted
  BY DEF SafetyInv
<1> QED
  BY <1>1, SafetyInvariant, PTL

\* A resume is deleted by its owner or an admin and by nobody else, although
\* the owner was checked one call earlier.
THEOREM OwnersDelete == Spec => OwnerDeletes
<1> DEFINE A == \A c \in resumes \ resumes' :
                  \E r \in Req :
                     /\ Asks(r, "DeleteResume") /\ req[r].resume = c.id
                     /\ req[r].who = c.owner \/ req[r].who \in Admins
                     /\ ~At(r, "done") /\ At(r, "done")'
<1>1. SafetyInv /\ [Next]_vars => [A]_vars
  <2> SUFFICES ASSUME SafetyInv, Next, NEW c \in resumes \ resumes'
               PROVE  \E r \in Req :
                     /\ Asks(r, "DeleteResume") /\ req[r].resume = c.id
                     /\ req[r].who = c.owner \/ req[r].who \in Admins
                     /\ ~At(r, "done") /\ At(r, "done")'
    OBVIOUS
  <2> DEFINE Gone == \E r \in Req : DeleteCV(r)
             Kept == resumes \subseteq resumes'
  <2>1. PICK r \in Req : DeleteCV(r)
    <3>1. ~Kept
      OBVIOUS
    <3>2. Crash \/ Finished => Kept
      BY DEF Crash, Finished, vars, tables
    <3>3. ASSUME NEW r \in Req, Arrive(r) \/ Refuse(r) \/ FindResume(r)
                 \/ CallFails(r) \/ ListResumes(r) \/ WaitForLock(r)
                 \/ SavePersonalInfo(r) \/ GetPersonalInfo(r)
          PROVE  Kept
      BY <3>3 DEF Arrive, Refuse, FindResume, CallFails, ListResumes,
                  WaitForLock, SavePersonalInfo, GetPersonalInfo, tables
    <3>4. ASSUME NEW r \in Req, CreateCV(r) \/ InsertEntry(r)
                 \/ DeleteEntry(r) \/ BeginTx(r) \/ TxInsert(r) \/ TxTech(r)
                 \/ TxCommit(r) \/ ReadSection(r) \/ ReadTechs(r)
          PROVE  Kept
      BY <3>4 DEF CreateCV, InsertEntry, DeleteEntry, BeginTx, TxInsert,
                  TxTech, TxCommit, ReadSection, ReadTechs, tables
    <3>5. ASSUME NEW r \in Req, Arrive(r) \/ Refuse(r) \/ Serve(r)
          PROVE  Kept \/ Gone
      <4> HIDE DEF Kept
      <4> QED
        BY <3>3, <3>4, <3>5 DEF Serve
    <3> HIDE DEF Kept, Gone
    <3>6. Gone
      BY <3>1, <3>2, <3>5 DEF Next
    <3> QED
      BY <3>6 DEF Gone
  <2>2. /\ Asks(r, "DeleteResume") /\ Permitted(r)
        /\ pc[r] \in {"delete", "delete_wait"}
        /\ resumes' = {d \in resumes : d.id # req[r].resume}
        /\ At(r, "done")'
    BY <2>1 DEF DeleteCV, DeleteRow, At, SafetyInv, ControlInv, Answer, TypeOK
  <2>3. c.id = req[r].resume /\ c = row[r]
    BY <2>2 DEF Permitted, SafetyInv, IdInv
  <2> QED
    BY <2>2, <2>3 DEF Permitted, At
<1> QED
  BY <1>1, SafetyInvariant, PTL DEF Spec, OwnerDeletes

-----------------------------------------------------------------------------
(* What requests are answered and shown, and what they hold.                *)

Untouched(r) ==
    /\ pc'[r] = pc[r] /\ reply'[r] = reply[r] /\ req'[r] = req[r]
    /\ row'[r] = row[r] /\ made'[r] = made[r]
    /\ rows'[r] = rows[r] /\ view'[r] = view[r]

\* A step is one request's own, or leaves that request alone.
LEMMA StepOfOne ==
    ASSUME TypeOK, [Next]_vars, NEW r \in Req
    PROVE  \/ Untouched(r)
           \/ Arrive(r) \/ Refuse(r) \/ Serve(r)
           \/ Crash /\ InFlight(r)
<1>1. ASSUME NEW q \in Req, q # r,
             \/ Arrive(q) \/ Refuse(q) \/ FindResume(q) \/ CallFails(q)
             \/ CreateCV(q) \/ ListResumes(q) \/ WaitForLock(q)
             \/ SavePersonalInfo(q)
      PROVE  Untouched(r)
  BY <1>1 DEF Arrive, Refuse, FindResume, CallFails, CreateCV, ListResumes,
     WaitForLock, SavePersonalInfo, Goto, Answer, local, TypeOK, Untouched
<1>2. ASSUME NEW q \in Req, q # r,
             \/ DeleteCV(q) \/ GetPersonalInfo(q) \/ InsertEntry(q)
             \/ DeleteEntry(q) \/ BeginTx(q) \/ TxInsert(q)
      PROVE  Untouched(r)
  BY <1>2 DEF DeleteCV, GetPersonalInfo, InsertEntry, DeleteEntry, BeginTx,
     TxInsert, Goto, Answer, local, TypeOK, Untouched
<1>3. ASSUME NEW q \in Req, q # r, TxTech(q) \/ TxCommit(q)
      PROVE  Untouched(r)
  BY <1>3 DEF TxTech, TxCommit, Goto, Answer, local, TypeOK, Untouched
<1>4. ASSUME NEW q \in Req, q # r, ReadSection(q) \/ ReadTechs(q)
      PROVE  Untouched(r)
  BY <1>4 DEF ReadSection, ReadTechs, NextProject, Proceed, See, Goto, Answer,
     local, TypeOK, Untouched
<1>5. CASE Crash
  BY <1>5 DEF Crash, local, TypeOK, Untouched
<1>6. CASE Finished \/ UNCHANGED vars
  BY <1>6 DEF Finished, vars, local, Untouched
<1> QED
  BY <1>1, <1>2, <1>3, <1>4, <1>5, <1>6 DEF Next, Serve

\* What a request has asked for, read and been answered is not undone, and
\* what it was let in to delete stays so.
LEMMA Lasting ==
    ASSUME SafetyInv, [Next]_vars, NEW r \in Req
    PROVE  /\ req[r] # None => req'[r] = req[r]
           /\ pc[r] = "done" => Untouched(r)
           /\ reply[r] # None => Untouched(r)
           /\ Permitted(r) => Permitted(r)'
<1> USE DEF SafetyInv
<1>1. CASE Untouched(r)
  BY <1>1 DEF Untouched, Permitted
<1>2. CASE Arrive(r) \/ Refuse(r)
  BY <1>2 DEF Arrive, Refuse, At, Goto, Answer, local, ControlInv, Permitted
<1>3. CASE FindResume(r)
  <2>1. /\ pc[r] # "done" /\ reply[r] = None /\ req' = req
        /\ \/ row' = row
           \/ \E c \in resumes : /\ c.id = req[r].resume
                                 /\ row' = [row EXCEPT ![r] = c]
    BY <1>3 DEF FindResume, At, ControlInv
  <2>2. row[r] # None => row'[r] = row[r]
    BY <2>1 DEF IdInv, TypeOK
  <2> QED
    BY <2>1, <2>2 DEF Permitted
<1>4. CASE Serve(r) /\ ~FindResume(r)
  <2>1. pc[r] # "done"
    BY <1>4 DEF Serve, CallFails, CreateCV, ListResumes, WaitForLock,
       DeleteCV, SavePersonalInfo, GetPersonalInfo, InsertEntry, DeleteEntry,
       BeginTx, TxInsert, TxTech, TxCommit, ReadSection, ReadTechs, At,
       Sections
  <2>2. UNCHANGED <<req, row>>
    BY <1>4 DEF Serve, CallFails, CreateCV, ListResumes, WaitForLock,
       DeleteCV, SavePersonalInfo, GetPersonalInfo, InsertEntry, DeleteEntry,
       BeginTx, TxInsert, TxTech, TxCommit, ReadSection, ReadTechs, local
  <2> QED
    BY <2>1, <2>2 DEF ControlInv, Permitted
<1>5. CASE Crash /\ InFlight(r)
  BY <1>5 DEF Crash, InFlight, local, ControlInv, Permitted
<1> QED
  BY <1>1, <1>2, <1>3, <1>4, <1>5, StepOfOne

\* A deletion that was let in stays so.
LEMMA DoomedLasts ==
    ASSUME SafetyInv, [Next]_vars, NEW e, Doomed(e)
    PROVE  Doomed(e)'
<1>1. PICK q \in Req :
        /\ Permitted(q)
        /\ \/ Asks(q, "DeleteResume") /\ req[q].resume = e.resume
           \/ /\ Asks(q, "Delete")
              /\ req[q].entry = e.id /\ req[q].section = e.section
  BY DEF Doomed, DeleteAsked, Misdirected, AsksDeletion
<1>2. Permitted(q)' /\ req'[q] = req[q]
  BY <1>1, Lasting DEF Asks
<1> QED
  BY <1>1, <1>2 DEF Doomed, DeleteAsked, Misdirected, AsksDeletion, Asks

\* The tables: an entry is stored by the last call of its own request, and goes
\* by a deletion that was let in.
LEMMA EntryStep ==
    ASSUME SafetyInv, [Next]_vars
    PROVE  /\ faults' \in Nat /\ faults' >= faults
           /\ \A e \in entries' \ entries :
                 /\ pc[e.id] \in {"insert", "tx_commit"} /\ e = EntryOf(e.id)
           /\ \A e \in entries \ entries' : Doomed(e)
<1> USE DEF SafetyInv
<1>1. ASSUME NEW r \in Req, InsertEntry(r) \/ TxCommit(r)
      PROVE  /\ faults' \in Nat /\ faults' >= faults
             /\ entries \subseteq entries'
             /\ \A e \in entries' \ entries :
                 /\ pc[e.id] \in {"insert", "tx_commit"} /\ e = EntryOf(e.id)
  <2>1. /\ pc[r] \in {"insert", "tx_commit"}
        /\ \/ UNCHANGED entries
           \/ entries' = entries \cup {EntryOf(r)}
        /\ faults' \in Nat /\ faults' >= faults
    BY <1>1 DEF InsertEntry, TxCommit, At, Fault, NoFault, TypeOK
  <2>2. EntryOf(r).id = r
    BY DEF EntryOf
  <2> QED
    BY <2>1, <2>2
<1>2. ASSUME NEW r \in Req, DeleteCV(r) \/ DeleteEntry(r)
      PROVE  /\ faults' \in Nat /\ faults' >= faults
             /\ entries' \subseteq entries
             /\ \A e \in entries \ entries' : Doomed(e)
  <2>1. faults' \in Nat /\ faults' >= faults
    BY <1>2 DEF DeleteCV, DeleteEntry, Fault, NoFault, TypeOK
  <2>2. CASE DeleteCV(r)
    <3>1. /\ Asks(r, "DeleteResume") /\ Permitted(r)
          /\ entries' = entries \ {e \in entries : e.resume = req[r].resume}
      BY <2>2 DEF DeleteCV, DeleteRow, Cascade, At, ControlInv
    <3> QED
      BY <2>1, <3>1 DEF Doomed, DeleteAsked, Misdirected, AsksDeletion
  <2>3. CASE DeleteEntry(r)
    <3>1. /\ Asks(r, "Delete") /\ Permitted(r)
          /\ entries' = entries \ Targets(r)
      BY <2>3 DEF DeleteEntry, At, ControlInv
    <3> QED
      BY <2>1, <3>1 DEF Doomed, DeleteAsked, Misdirected, AsksDeletion, Targets
  <2> QED
    BY <1>2, <2>2, <2>3
<1>3. ASSUME NEW r \in Req,
             \/ Arrive(r) \/ Refuse(r) \/ FindResume(r) \/ CallFails(r)
             \/ CreateCV(r) \/ ListResumes(r) \/ WaitForLock(r)
             \/ SavePersonalInfo(r) \/ GetPersonalInfo(r) \/ BeginTx(r)
             \/ TxInsert(r) \/ TxTech(r) \/ ReadSection(r) \/ ReadTechs(r)
      PROVE  /\ faults' \in Nat /\ faults' >= faults
             /\ UNCHANGED entries
  <2>1. UNCHANGED entries
    BY <1>3 DEF Arrive, Refuse, FindResume, CallFails, CreateCV, ListResumes,
       WaitForLock, SavePersonalInfo, GetPersonalInfo, BeginTx, TxInsert,
       TxTech, ReadSection, ReadTechs, tables
  <2>2. NoFault \/ Fault
    BY ZenonT(40), <1>3
       DEF Arrive, Refuse, FindResume, CallFails, CreateCV, ListResumes,
           WaitForLock, SavePersonalInfo, GetPersonalInfo, BeginTx, TxInsert,
           TxTech, ReadSection, ReadTechs, NoFault
  <2> QED
    BY <2>1, <2>2 DEF NoFault, Fault, TypeOK
<1>4. CASE Crash \/ Finished \/ UNCHANGED vars
  BY <1>4 DEF Crash, Finished, vars, tables, TypeOK
<1> QED
  BY <1>1, <1>2, <1>3, <1>4 DEF Next, Serve

LEMMA AnswerInit == Init => AnswerInv
<1> SUFFICES ASSUME Init PROVE AnswerInv
  OBVIOUS
<1> USE BoundAssumption DEF Init
<1>1. AskInv /\ GoneInv /\ PendingInv /\ HeldInv
  BY NoneAssumption DEF AskInv, GoneInv, PendingInv, HeldInv, Asks, Status
<1>2. DeletedOnce /\ ShownWhole
  BY DEF DeletedOnce, ShownWhole, Asks
<1>3. ConnectionsReturned
  BY FS_EmptySet DEF ConnectionsReturned, Leaked
<1> QED
  BY <1>1, <1>2, <1>3 DEF AnswerInv

LEMMA Arrival ==
    ASSUME SafetyInv, NEW r \in Req, Arrive(r)
    PROVE  /\ req[r] = None /\ pc'[r] \in {"create", "list", "find"}
           /\ UNCHANGED <<rows, view, reply, held>> /\ reply[r] = None
           /\ req'[r].techs > 0 =>
                 Asks(r, "Add")' /\ req'[r].section = "projects"
           /\ Asks(r, "Delete")' =>
                 req'[r].entry \in Req /\ At(req'[r].entry, "done")
<1> USE BoundAssumption, RouteAssumption DEF SafetyInv
<1>1. PICK o \in Ops, u \in Person : \E c \in PathResumes(o),
             s \in PathSections(o), e \in PathEntries(o) :
             \E n \in Technologies(o, s) :
                /\ req' = [req EXCEPT ![r] =
                             [op |-> o, who |-> u, resume |-> c, section |-> s,
                              entry |-> e, techs |-> n]]
                /\ Goto(r, Entry(o))
  BY DEF Arrive
<1>2. PICK c \in PathResumes(o), s \in PathSections(o), e \in PathEntries(o) :
             \E n \in Technologies(o, s) :
                /\ req' = [req EXCEPT ![r] =
                             [op |-> o, who |-> u, resume |-> c, section |-> s,
                              entry |-> e, techs |-> n]]
                /\ Goto(r, Entry(o))
  BY <1>1
<1>3. PICK n \in Technologies(o, s) :
                /\ req' = [req EXCEPT ![r] =
                             [op |-> o, who |-> u, resume |-> c, section |-> s,
                              entry |-> e, techs |-> n]]
                /\ Goto(r, Entry(o))
  BY <1>2
<1> DEFINE b == [op |-> o, who |-> u, resume |-> c, section |-> s,
                 entry |-> e, techs |-> n]
<1>4. b \in Request
  BY DEF PathResumes, PathSections, PathEntries, Technologies, KnownResumes,
         KnownEntries, Request, ResumeId
<1>5. b.op = o /\ b.section = s /\ b.entry = e /\ b.techs = n
  OBVIOUS
<1> HIDE DEF b
<1>6. /\ req'[r] = b /\ b # None /\ pc'[r] = Entry(o)
      /\ req[r] = None /\ reply[r] = None
      /\ UNCHANGED <<rows, view, reply, held>>
  BY <1>3, <1>4, NoneAssumption
     DEF b, Arrive, At, Goto, ControlInv, TypeOK, pool
<1>7. Entry(o) \in {"create", "list", "find"}
  BY DEF Entry
<1>8. n > 0 => o = "Add" /\ s = "projects"
  BY DEF Technologies
<1>9. o = "Delete" => e \in Req /\ pc[e] = "done"
  BY DEF PathEntries, KnownEntries, At
<1> QED
  BY <1>5, <1>6, <1>7, <1>8, <1>9 DEF Asks, At

LEMMA AskStep ==
    ASSUME SafetyInv, AskInv, [Next]_vars
    PROVE  AskInv'
<1> SUFFICES ASSUME NEW r \in Req
    PROVE  /\ req'[r] = None =>
                rows'[r] = {} /\ view'[r] = {} /\ reply'[r] # 200
           /\ req'[r] # None /\ req'[r].techs > 0 =>
                /\ req'[r] # None /\ req'[r].op = "Add"
                /\ req'[r].section = "projects"
           /\ req'[r] # None /\ req'[r].op = "Delete" =>
                req'[r].entry \in Req /\ pc'[req'[r].entry] = "done"
  BY DEF AskInv, Asks, At
<1>1. \A q \in Req : pc[q] = "done" => pc'[q] = "done"
  <2> SUFFICES ASSUME NEW q \in Req, pc[q] = "done" PROVE pc'[q] = "done"
    OBVIOUS
  <2>1. Untouched(q)
    BY Lasting
  <2> QED
    BY <2>1 DEF Untouched
<1>2. CASE req[r] # None
  <2>1. req'[r] = req[r]
    BY <1>2, Lasting
  <2> QED
    BY <1>1, <1>2, <2>1 DEF AskInv, Asks, At
<1>3. CASE req[r] = None
  <2>1. CASE Arrive(r)
    <3>1. /\ pc'[r] \in {"create", "list", "find"}
          /\ UNCHANGED <<rows, view, reply>> /\ reply[r] = None
          /\ req'[r].techs > 0 =>
                 Asks(r, "Add")' /\ req'[r].section = "projects"
          /\ Asks(r, "Delete")' =>
                 req'[r].entry \in Req /\ At(req'[r].entry, "done")
      BY <2>1, Arrival
    <3>2. rows[r] = {} /\ view[r] = {} /\ reply[r] # 200
      BY <1>3 DEF AskInv
    <3> QED
      BY <1>1, <3>1, <3>2 DEF Asks, At
  <2>2. CASE ~Arrive(r)
    <3>1. ~Serve(r) /\ ~InFlight(r)
      BY <1>3 DEF SafetyInv, ControlInv, InFlight, Serve, FindResume,
         CallFails, CreateCV, ListResumes, WaitForLock, DeleteCV,
         SavePersonalInfo, GetPersonalInfo, InsertEntry, DeleteEntry, BeginTx,
         TxInsert, TxTech, TxCommit, ReadSection, ReadTechs, At, Sections
    <3>2. Untouched(r) \/ Refuse(r)
      BY <2>2, <3>1, StepOfOne DEF SafetyInv
    <3>3. /\ req'[r] = None /\ rows'[r] = rows[r] /\ view'[r] = view[r]
          /\ reply'[r] \in {reply[r], 401, 400}
      BY <1>3, <3>2 DEF Untouched, Refuse, Answer, local, SafetyInv, TypeOK
    <3> QED
      BY <1>3, <3>3 DEF AskInv
  <2> QED
    BY <2>1, <2>2
<1> QED
  BY <1>2, <1>3

\* A deletion is answered 200 by the call that found the thing.
LEMMA DeletionAnswered ==
    ASSUME SafetyInv, [Next]_vars, NEW r \in Req,
           reply[r] # 200, reply'[r] = 200,
           Asks(r, "Delete")' \/ Asks(r, "DeleteResume")'
    PROVE  /\ req'[r] = req[r]
           /\ \A q \in Req : q # r => reply'[q] = reply[q]
           /\ \/ /\ Asks(r, "Delete") /\ Targets(r) # {}
                 /\ entries' = entries \ Targets(r)
              \/ Asks(r, "DeleteResume") /\ ResumeExists(r)
<1> USE DEF SafetyInv
<1>1. ~Untouched(r) /\ ~Arrive(r) /\ ~Refuse(r) /\ ~(Crash /\ InFlight(r))
  BY Arrival, NoneAssumption
     DEF Untouched, Refuse, Crash, Answer, Status, Aborted, TypeOK
<1>2. Serve(r)
  BY <1>1, StepOfOne
<1>3. req' = req
  BY <1>2 DEF Serve, FindResume, CallFails, CreateCV, ListResumes,
     WaitForLock, DeleteCV, SavePersonalInfo, GetPersonalInfo, InsertEntry,
     DeleteEntry, BeginTx, TxInsert, TxTech, TxCommit, ReadSection, ReadTechs,
     local
<1>4. Asks(r, "Delete") \/ Asks(r, "DeleteResume")
  BY <1>3 DEF Asks
<1>5. ~(\/ CreateCV(r) \/ ListResumes(r) \/ GetPersonalInfo(r)
        \/ InsertEntry(r) \/ BeginTx(r) \/ TxInsert(r) \/ TxTech(r)
        \/ TxCommit(r) \/ ReadSection(r) \/ ReadTechs(r))
  BY <1>4 DEF CreateCV, ListResumes, GetPersonalInfo, InsertEntry, BeginTx,
     TxInsert, TxTech, TxCommit, ReadSection, ReadTechs, At, ControlInv, Asks
<1>6. ~(FindResume(r) \/ CallFails(r) \/ WaitForLock(r) \/ SavePersonalInfo(r))
  BY DEF FindResume, CallFails, WaitForLock, SavePersonalInfo, Goto, Answer,
     TypeOK
<1>7. CASE DeleteEntry(r)
  <2>1. /\ pc[r] = "delete_entry" /\ entries' = entries \ Targets(r)
        /\ Answer(r, DeleteStatus(Targets(r))) \/ Answer(r, 500)
    BY <1>7 DEF DeleteEntry, At
  <2>2. DeleteStatus(Targets(r)) = 200
    BY <2>1 DEF Answer, TypeOK
  <2>3. Targets(r) # {} /\ \A q \in Req : q # r => reply'[q] = reply[q]
    BY <2>1, <2>2 DEF DeleteStatus, Answer, TypeOK
  <2> QED
    BY <1>3, <2>1, <2>3 DEF ControlInv
<1>8. CASE DeleteCV(r)
  <2>1. /\ pc[r] \in {"delete", "delete_wait"}
        /\ \/ Answer(r, IF ResumeExists(r) THEN 200 ELSE 500)
           \/ Answer(r, 500)
    BY <1>8 DEF DeleteCV, At, ResumeExists
  <2>2. ResumeExists(r) /\ \A q \in Req : q # r => reply'[q] = reply[q]
    BY <2>1 DEF Answer, TypeOK
  <2> QED
    BY <1>3, <2>1, <2>2 DEF ControlInv
<1> QED
  BY <1>2, <1>5, <1>6, <1>7, <1>8 DEF Serve

LEMMA GoneStep ==
    ASSUME SafetyInv, AskInv, GoneInv, [Next]_vars
    PROVE  GoneInv'
<1> USE DEF SafetyInv
<1> SUFFICES ASSUME NEW r \in Req, Asks(r, "Delete")', reply'[r] = 200
             PROVE  Targets(r)' = {}
  BY DEF GoneInv
<1>1. CASE reply[r] = 200
  <2>1. req'[r] = req[r] /\ Asks(r, "Delete")
    BY <1>1, Lasting, NoneAssumption DEF Untouched, Asks, Status
  <2>2. Targets(r) = {} /\ pc[req[r].entry] = "done"
    BY <1>1, <2>1 DEF GoneInv, AskInv, At
  <2> QED
    BY <2>1, <2>2, EntryStep DEF Targets
<1>2. CASE reply[r] # 200
  BY <1>2, DeletionAnswered DEF Targets, Asks
<1> QED
  BY <1>1, <1>2

\* The two requests delete one thing.
SameDeletion(r, q) ==
    /\ Asks(r, "Delete") \/ Asks(r, "DeleteResume")
    /\ req[q].op = req[r].op
    /\ req[r].op = "DeleteResume" => req[q].resume = req[r].resume
    /\ req[r].op = "Delete" =>
          req[q].entry = req[r].entry /\ req[q].section = req[r].section

LEMMA DeletedOnceMeans ==
    DeletedOnce <=> \A r, q \in Req : r # q /\ SameDeletion(r, q) =>
                                         ~(reply[r] = 200 /\ reply[q] = 200)
<1>1. ASSUME NEW r \in Req, NEW q \in Req,
             Asks(r, "Delete") \/ Asks(r, "DeleteResume")
      PROVE  ~SameDeletion(r, q) <=>
                \/ req[q].op # req[r].op
                \/ /\ req[r].op = "DeleteResume"
                   /\ req[q].resume # req[r].resume
                \/ /\ req[r].op = "Delete"
                   /\ <<req[q].entry, req[q].section>> #
                         <<req[r].entry, req[r].section>>
  BY <1>1 DEF SameDeletion
<1>2. \A r, q \in Req :
         SameDeletion(r, q) => Asks(r, "Delete") \/ Asks(r, "DeleteResume")
  BY DEF SameDeletion
<1> QED
  BY <1>1, <1>2 DEF DeletedOnce

\* A second deletion finds nothing: it is not answered 200.
LEMMA SecondDeletion ==
    ASSUME SafetyInv, AskInv, GoneInv, [Next]_vars,
           NEW r \in Req, NEW q \in Req, r # q, SameDeletion(r, q)',
           reply'[r] = 200, reply[r] # 200, reply'[q] = 200
    PROVE  FALSE
<1> USE DEF SafetyInv
<1>1. /\ req'[r] = req[r] /\ reply[q] = 200
      /\ \/ Asks(r, "Delete") /\ Targets(r) # {}
         \/ Asks(r, "DeleteResume") /\ ResumeExists(r)
  <2>1. Asks(r, "Delete")' \/ Asks(r, "DeleteResume")'
    BY DEF SameDeletion
  <2> QED
    BY <2>1, DeletionAnswered
<1>2. req'[q] = req[q] /\ req[q] # None
  BY <1>1, Lasting, NoneAssumption DEF Untouched, Status, AskInv
<1>3. SameDeletion(r, q)
  BY <1>1, <1>2 DEF SameDeletion, Asks
<1>4. CASE Asks(r, "Delete") /\ Targets(r) # {}
  <2>1. Asks(q, "Delete") /\ Targets(q) = Targets(r)
    BY <1>2, <1>3, <1>4 DEF SameDeletion, Asks, Targets
  <2> QED
    BY <1>1, <1>4, <2>1 DEF GoneInv
<1>5. CASE Asks(r, "DeleteResume") /\ ResumeExists(r)
  <2>1. Asks(q, "DeleteResume") /\ req[q].resume = req[r].resume
    BY <1>2, <1>3, <1>5 DEF SameDeletion, Asks
  <2> QED
    BY <1>1, <1>5, <2>1 DEF DeletedStaysDeleted, ResumeExists
<1> QED
  BY <1>1, <1>4, <1>5

LEMMA DeletedOnceStep ==
    ASSUME SafetyInv, AskInv, AskInv', GoneInv, DeletedOnce, [Next]_vars
    PROVE  DeletedOnce'
<1>0. (DeletedOnce <=> \A r, q \in Req : r # q /\ SameDeletion(r, q) =>
                                     ~(reply[r] = 200 /\ reply[q] = 200))'
  BY DeletedOnceMeans, PTL
<1> SUFFICES ASSUME NEW r \in Req, NEW q \in Req, r # q,
                    SameDeletion(r, q)', reply'[r] = 200, reply'[q] = 200
             PROVE  FALSE
  BY <1>0
<1>1. CASE reply[r] # 200
  BY <1>1, SecondDeletion
<1>2. CASE reply[q] # 200
  <2>1. req'[q] # None
    BY DEF AskInv
  <2>2. SameDeletion(q, r)'
    BY <2>1 DEF SameDeletion, Asks
  <2> QED
    BY <1>2, <2>2, SecondDeletion
<1>3. CASE reply[r] = 200 /\ reply[q] = 200
  <2>1. req'[r] = req[r] /\ req'[q] = req[q]
    BY <1>3, Lasting, NoneAssumption DEF Untouched, Status
  <2>2. SameDeletion(r, q)
    BY <2>1 DEF SameDeletion, Asks
  <2> QED
    BY <1>3, <2>2, DeletedOnceMeans
<1> QED
  BY <1>1, <1>2, <1>3

\* What a request is about to read, and what it has just been shown.
LEMMA ReadingStep ==
    ASSUME SafetyInv, [Next]_vars, NEW r \in Req
    PROVE  /\ \A p \in rows'[r] \ rows[r] :
                 pc[r] = "projects" /\ p \in Select(r)
           /\ \A s \in view'[r] \ view[r] :
                 \/ /\ pc[r] \in Sections \ {"projects"}
                    /\ s.id \in Select(r) /\ s.techs = 0
                 \/ /\ s.id \in rows[r]
                    /\ \/ s.techs = Cardinality(TechsOf(s.id))
                       \/ s.techs = None /\ faults' > 0
<1> USE DEF SafetyInv, TypeOK
<1>1. CASE Untouched(r)
  BY <1>1 DEF Untouched
<1>2. CASE \/ Arrive(r) \/ Refuse(r) \/ FindResume(r) \/ CallFails(r)
           \/ CreateCV(r) \/ ListResumes(r) \/ WaitForLock(r) \/ DeleteCV(r)
           \/ SavePersonalInfo(r) \/ GetPersonalInfo(r) \/ InsertEntry(r)
           \/ DeleteEntry(r) \/ BeginTx(r) \/ TxInsert(r) \/ TxTech(r)
           \/ TxCommit(r) \/ Crash
  BY <1>2 DEF Arrive, Refuse, FindResume, CallFails, CreateCV, ListResumes,
     WaitForLock, DeleteCV, SavePersonalInfo, GetPersonalInfo, InsertEntry,
     DeleteEntry, BeginTx, TxInsert, TxTech, TxCommit, Crash, local
<1>3. CASE ReadSection(r)
  <2>1. CASE pc[r] = "projects" /\ NextProject(r, Select(r)) /\ UNCHANGED view
    BY <2>1 DEF NextProject
  <2>2. CASE /\ pc[r] # "projects" /\ UNCHANGED rows
             /\ See(r, {[id |-> i, techs |-> 0] : i \in Select(r)})
    BY <1>3, <2>2 DEF See, ReadSection
  <2>3. CASE UNCHANGED <<rows, view>>
    BY <2>3
  <2> QED
    BY <1>3, <2>1, <2>2, <2>3 DEF ReadSection
<1>4. CASE ReadTechs(r)
  <2>1. PICK p \in rows[r] :
          /\ \/ See(r, {[id |-> p, techs |-> Cardinality(TechsOf(p))]})
             \/ Fault /\ See(r, {[id |-> p, techs |-> None]})
          /\ NextProject(r, rows[r] \ {p})
    BY <1>4 DEF ReadTechs
  <2>2. rows'[r] \subseteq rows[r]
    BY <2>1 DEF NextProject
  <2>3. \A s \in view'[r] \ view[r] :
           /\ s.id = p
           /\ \/ s.techs = Cardinality(TechsOf(p))
              \/ s.techs = None /\ faults' > 0
    BY <2>1 DEF See, Fault
  <2> QED
    BY <2>2, <2>3
<1> QED
  BY <1>1, <1>2, <1>3, <1>4, StepOfOne DEF Serve

\* What a SELECT returns was added to that section of that resume.
LEMMA Selected ==
    ASSUME SafetyInv, NEW r \in Req, NEW p \in Select(r)
    PROVE  /\ p \in Req /\ Asks(p, "Add") /\ EntryOf(p) \in entries
           /\ req[p].section = pc[r] /\ req[p].resume = req[r].resume
<1>1. PICK e \in entries :
         e.id = p /\ e.section = pc[r] /\ e.resume = req[r].resume
  BY DEF Select
<1>2. e.id \in Req /\ Asks(e.id, "Add") /\ e = EntryOf(e.id)
  BY DEF SafetyInv, TypeOK, SectionEntry, IdInv
<1> QED
  BY <1>1, <1>2 DEF EntryOf

LEMMA OwnDeletionLasts ==
    ASSUME SafetyInv, [Next]_vars, NEW p \in Req, req'[p] = req[p],
           Doomed(EntryOf(p))
    PROVE  Doomed(EntryOf(p))'
<1>1. PICK q \in Req :
        /\ Permitted(q)
        /\ \/ Asks(q, "DeleteResume") /\ req[q].resume = req[p].resume
           \/ /\ Asks(q, "Delete")
              /\ req[q].entry = p /\ req[q].section = req[p].section
  BY DEF Doomed, DeleteAsked, Misdirected, AsksDeletion, EntryOf
<1>2. Permitted(q)' /\ req'[q] = req[q]
  BY <1>1, Lasting DEF Asks
<1> QED
  BY <1>1, <1>2
     DEF Doomed, DeleteAsked, Misdirected, AsksDeletion, Asks, EntryOf

\* An entry that was added is stored until its deletion was let in.
LEMMA AddedLasts ==
    ASSUME SafetyInv, [Next]_vars, NEW p \in Req, Asks(p, "Add"),
           EntryOf(p) \in entries \/ Doomed(EntryOf(p))
    PROVE  /\ req'[p] = req[p] /\ Asks(p, "Add")' /\ EntryOf(p)' = EntryOf(p)
           /\ EntryOf(p)' \in entries' \/ Doomed(EntryOf(p))'
<1>1. req'[p] = req[p]
  BY Lasting DEF Asks
<1>2. Asks(p, "Add")' /\ EntryOf(p)' = EntryOf(p)
  BY <1>1 DEF Asks, EntryOf
<1>3. CASE EntryOf(p) \in entries'
  BY <1>1, <1>2, <1>3
<1>4. CASE EntryOf(p) \notin entries'
  <2>1. Doomed(EntryOf(p))
    BY <1>4, EntryStep
  <2>2. Doomed(EntryOf(p))'
    BY <1>1, <2>1, OwnDeletionLasts
  <2> QED
    BY <1>1, <1>2, <2>2
<1> QED
  BY <1>3, <1>4

LEMMA PendingStep ==
    ASSUME SafetyInv, AskInv, PendingInv, [Next]_vars
    PROVE  PendingInv'
<1> SUFFICES ASSUME NEW r \in Req, NEW p \in rows'[r]
             PROVE  /\ Asks(p, "Add")' /\ req'[p].section = "projects"
                    /\ req'[p].resume = req'[r].resume
                    /\ EntryOf(p)' \in entries' \/ Doomed(EntryOf(p))'
  BY DEF PendingInv
<1>1. /\ p \in Req /\ Asks(p, "Add") /\ req[p].section = "projects"
      /\ req[p].resume = req[r].resume /\ req[r] # None
      /\ EntryOf(p) \in entries \/ Doomed(EntryOf(p))
  <2>1. CASE p \in rows[r]
    BY <2>1 DEF PendingInv, AskInv, SafetyInv, TypeOK
  <2>2. CASE p \notin rows[r]
    <3>1. pc[r] = "projects" /\ p \in Select(r)
      BY <2>2, ReadingStep
    <3>2. req[r] # None
      BY <3>1 DEF SafetyInv, ControlInv, InFlight
    <3> QED
      BY <3>1, <3>2, Selected
  <2> QED
    BY <2>1, <2>2
<1>2. req'[r] = req[r]
  BY <1>1, Lasting
<1> QED
  BY <1>1, <1>2, AddedLasts

\* A project's technologies are stored all together or, once its deletion was
\* let in, not at all.
LEMMA TechsRead ==
    ASSUME SafetyInv, NEW p \in Req,
           Asks(p, "Add"), req[p].section = "projects",
           EntryOf(p) \in entries \/ Doomed(EntryOf(p))
    PROVE  \/ Cardinality(TechsOf(p)) = req[p].techs
           \/ Cardinality(TechsOf(p)) = 0 /\ Doomed(EntryOf(p))
<1> DEFINE e == EntryOf(p)
<1>0. e.id = p /\ e.section = req[p].section
  BY DEF EntryOf
<1>1. CASE e \in entries
  <2>1. TechsOf(p) = 1..req[p].techs
    BY <1>0, <1>1 DEF SafetyInv, ProjectWhole
  <2>2. req[p].techs \in Nat
    BY BoundAssumption DEF SafetyInv, TypeOK, Request, Asks
  <2>3. Cardinality(1..req[p].techs) = req[p].techs
    BY <2>2, FS_Interval
  <2> QED
    BY <2>1, <2>3
<1>2. CASE e \notin entries
  <2>1. \A k : <<p, k>> \notin techs
    <3> SUFFICES ASSUME NEW k, <<p, k>> \in techs PROVE FALSE
      OBVIOUS
    <3>1. PICK d \in entries : d.id = p
      BY DEF SafetyInv, NoOrphans
    <3>2. d = e
      BY <3>1 DEF SafetyInv, IdInv
    <3> QED
      BY <1>2, <3>2
  <2>2. TechsOf(p) = {}
    BY <2>1 DEF TechsOf
  <2> QED
    BY <1>2, <2>2, FS_EmptySet
<1> QED
  BY <1>1, <1>2

LEMMA ShownStep ==
    ASSUME SafetyInv, AskInv, PendingInv, ShownWhole, [Next]_vars
    PROVE  ShownWhole'
<1> SUFFICES ASSUME NEW r \in Req, NEW s \in view'[r]
             PROVE  /\ Asks(s.id, "Add")'
                    /\ req'[s.id].resume = req'[r].resume
                    /\ \/ s.techs = req'[s.id].techs
                       \/ s.techs = 0 /\ Doomed(EntryOf(s.id))'
                       \/ s.techs = None /\ faults' > 0
  BY DEF ShownWhole, EntryOf
<1> DEFINE p == s.id
           e == EntryOf(p)
<1>0. faults' \in Nat /\ faults' >= faults /\ faults \in Nat
  BY EntryStep, BoundAssumption DEF SafetyInv, TypeOK
<1>1. /\ p \in Req /\ Asks(p, "Add") /\ req[p].resume = req[r].resume
      /\ req[r] # None
      /\ \/ s.techs = req[p].techs
         \/ s.techs = 0 /\ Doomed(e)
         \/ s.techs = None /\ faults' > 0
  <2>1. CASE s \in view[r]
    <3>1. p \in Req
      BY <2>1 DEF SafetyInv, TypeOK, Shown
    <3> QED
      BY <1>0, <2>1, <3>1 DEF ShownWhole, AskInv, EntryOf
  <2>2. CASE /\ pc[r] \in Sections \ {"projects"}
             /\ p \in Select(r) /\ s.techs = 0
    <3>1. /\ p \in Req /\ Asks(p, "Add") /\ req[p].section # "projects"
          /\ req[p].resume = req[r].resume
      BY <2>2, Selected
    <3>2. req[p].techs = 0
      BY <3>1, BoundAssumption
         DEF AskInv, SafetyInv, TypeOK, Request, Asks
    <3>3. req[r] # None
      BY <2>2 DEF SafetyInv, ControlInv, InFlight, Sections
    <3> QED
      BY <2>2, <3>1, <3>2, <3>3
  <2>3. CASE /\ p \in rows[r]
             /\ \/ s.techs = Cardinality(TechsOf(p))
                \/ s.techs = None /\ faults' > 0
    <3>1. /\ p \in Req /\ Asks(p, "Add") /\ req[p].section = "projects"
          /\ req[p].resume = req[r].resume /\ req[r] # None
          /\ EntryOf(p) \in entries \/ Doomed(EntryOf(p))
      BY <2>3 DEF PendingInv, AskInv, SafetyInv, TypeOK
    <3>2. \/ Cardinality(TechsOf(p)) = req[p].techs
          \/ Cardinality(TechsOf(p)) = 0 /\ Doomed(e)
      BY <3>1, TechsRead
    <3> QED
      BY <2>3, <3>1, <3>2
  <2> QED
    BY <2>1, <2>2, <2>3, ReadingStep
<1>2. req'[r] = req[r] /\ req'[p] = req[p]
  BY <1>1, Lasting DEF Asks
<1>3. Doomed(e) => Doomed(EntryOf(p))'
  BY <1>1, <1>2, OwnDeletionLasts
<1> QED
  BY <1>1, <1>2, <1>3 DEF Asks

\* The pool: a connection is taken out when one is free, by a request that
\* goes on with it.
LEMMA PoolStep ==
    ASSUME SafetyInv, [Next]_vars
    PROVE  \/ held' \subseteq held
           \/ \E q \in Req : /\ Free /\ held' = held \cup {q}
                             /\ pc'[q] \in {"tx_insert", "delete_wait"}
<1> USE DEF SafetyInv, TypeOK
<1>1. ASSUME NEW q \in Req, WaitForLock(q) \/ BeginTx(q)
      PROVE  /\ Free /\ held' = held \cup {q}
             /\ pc'[q] \in {"tx_insert", "delete_wait"}
  BY <1>1 DEF WaitForLock, BeginTx, Goto
<1>2. ASSUME NEW q \in Req,
             \/ Arrive(q) \/ Refuse(q) \/ FindResume(q) \/ CallFails(q)
             \/ CreateCV(q) \/ ListResumes(q) \/ DeleteCV(q)
             \/ SavePersonalInfo(q) \/ GetPersonalInfo(q) \/ InsertEntry(q)
             \/ DeleteEntry(q) \/ TxInsert(q) \/ TxTech(q) \/ TxCommit(q)
             \/ ReadSection(q) \/ ReadTechs(q)
      PROVE  held' \subseteq held
  BY <1>2 DEF Arrive, Refuse, FindResume, CallFails, CreateCV, ListResumes,
     DeleteCV, SavePersonalInfo, GetPersonalInfo, InsertEntry, DeleteEntry,
     TxInsert, TxTech, TxCommit, ReadSection, ReadTechs, EndTx, pool
<1>3. CASE Crash \/ Finished \/ UNCHANGED vars
  BY <1>3 DEF Crash, Finished, vars, pool
<1> QED
  BY <1>1, <1>2, <1>3 DEF Next, Serve

\* A request that keeps its connection goes on with its transaction or its
\* DELETE, or it ends at a technology that fails.
LEMMA HolderStep ==
    ASSUME SafetyInv, HeldInv, [Next]_vars, NEW r \in held, r \in held',
           pc[r] # "done", ~Untouched(r)
    PROVE  \/ pc'[r] \in {"tx_tech", "tx_commit"}
           \/ /\ TxTech(r) /\ faults' = faults + 1
              /\ pc'[r] = "done" /\ reply'[r] = 500 /\ Asks(r, "Add")'
              /\ made'[r] < req'[r].techs
<1> USE DEF SafetyInv, TypeOK
<1>1. r \in Req /\ pc[r] \in {"tx_insert", "tx_tech", "tx_commit", "delete_wait"}
  BY DEF HeldInv, At
<1>2. Serve(r)
  BY <1>1, StepOfOne DEF Arrive, Refuse, Crash, At
<1>3. ~CallFails(r) /\ ~DeleteCV(r) /\ ~TxCommit(r)
  BY DEF CallFails, DeleteCV, TxCommit, EndTx
<1>4. TxInsert(r) \/ TxTech(r)
  BY <1>1, <1>2, <1>3 DEF Serve, FindResume, CreateCV, ListResumes,
     WaitForLock, SavePersonalInfo, GetPersonalInfo, InsertEntry, DeleteEntry,
     BeginTx, ReadSection, ReadTechs, At, Sections
<1>5. CASE TxInsert(r)
  BY <1>1, <1>5 DEF TxInsert, EndTx, Goto, NextInsert
<1>6. CASE TxTech(r)
  <2>1. Asks(r, "Add") /\ made[r] < req[r].techs /\ req' = req
    BY <1>6 DEF TxTech, At, ControlInv, TxInv
  <2>2. \/ pc'[r] \in {"tx_tech", "tx_commit"}
        \/ /\ faults' = faults + 1 /\ made' = made
           /\ pc'[r] = "done" /\ reply'[r] = 500
    BY <1>1, <1>6 DEF TxTech, Goto, NextInsert, Answer, Fault
  <2> QED
    BY <1>6, <2>1, <2>2 DEF Asks
<1> QED
  BY <1>4, <1>5, <1>6

LEMMA HeldStep ==
    ASSUME SafetyInv, HeldInv, [Next]_vars
    PROVE  HeldInv'
<1> SUFFICES ASSUME NEW r \in held'
    PROVE  \/ pc'[r] \in {"tx_insert", "tx_tech", "tx_commit", "delete_wait"}
           \/ /\ pc'[r] = "done" /\ Asks(r, "Add")' /\ reply'[r] = 500
              /\ made'[r] < req'[r].techs
  BY DEF HeldInv, At
<1>1. CASE r \notin held
  BY <1>1, PoolStep
<1>2. CASE r \in held
  <2>0. r \in Req
    BY <1>2 DEF SafetyInv, TypeOK
  <2>1. CASE Untouched(r)
    BY <1>2, <2>1 DEF Untouched, HeldInv, At, Asks
  <2>2. CASE pc[r] = "done"
    BY <2>0, <2>1, <2>2, Lasting
  <2>3. CASE pc[r] # "done" /\ ~Untouched(r)
    BY <1>2, <2>3, HolderStep
  <2> QED
    BY <2>1, <2>2, <2>3
<1> QED
  BY <1>1, <1>2

\* A connection is lost only by a technology that fails.
LEMMA LeakStep ==
    ASSUME SafetyInv, HeldInv, [Next]_vars
    PROVE  \/ Leaked' \subseteq Leaked
           \/ \E r \in Req : /\ Leaked' \subseteq Leaked \cup {r}
                             /\ faults' = faults + 1
<1> SUFFICES ASSUME NEW r \in Leaked', r \notin Leaked
             PROVE  /\ r \in Req /\ Leaked' \subseteq Leaked \cup {r}
                    /\ faults' = faults + 1
  OBVIOUS
<1>1. r \in held' /\ pc'[r] = "done"
  BY DEF Leaked, At
<1>2. r \in held
  BY <1>1, PoolStep
<1>3. r \in Req /\ pc[r] # "done"
  BY <1>2 DEF Leaked, At, SafetyInv, TypeOK
<1>4. ~Untouched(r)
  BY <1>1, <1>3 DEF Untouched
<1>5. TxTech(r) /\ faults' = faults + 1
  BY <1>1, <1>2, <1>3, <1>4, HolderStep
<1>6. held' = held /\ \A q \in Req : q # r => pc'[q] = pc[q]
  BY <1>3, <1>5 DEF TxTech, Goto, Answer, SafetyInv, TypeOK
<1> QED
  BY <1>3, <1>5, <1>6 DEF Leaked, At, SafetyInv, TypeOK

LEMMA AddingOne ==
    ASSUME NEW S, IsFiniteSet(S), NEW x, NEW T, T \subseteq S \cup {x}
    PROVE  /\ Cardinality(T) \in Nat
           /\ Cardinality(T) <= Cardinality(S) + 1
<1> DEFINE more == S \cup {x}
<1>1. IsFiniteSet(more)
  BY FS_AddElement
<1>2. Cardinality(S) \in Nat
  BY FS_CardinalityType
<1>3. /\ Cardinality(more) \in Nat
      /\ Cardinality(more) <= Cardinality(S) + 1
  BY <1>2, FS_AddElement
<1>4. T \in SUBSET more
  OBVIOUS
<1> HIDE DEF more
<1>5. IsFiniteSet(T) /\ Cardinality(T) <= Cardinality(more)
  BY <1>1, <1>4, FS_Subset
<1>6. Cardinality(T) \in Nat
  BY <1>5, FS_CardinalityType
<1> QED
  BY <1>2, <1>3, <1>5, <1>6

LEMMA ConnectionsStep ==
    ASSUME SafetyInv, SafetyInv', HeldInv, HeldInv', ConnectionsReturned,
           [Next]_vars
    PROVE  ConnectionsReturned'
<1>1. /\ IsFiniteSet(held) /\ IsFiniteSet(Leaked)
      /\ Cardinality(held) \in Nat /\ Cardinality(Leaked) \in Nat
  <2>1. held \subseteq Req /\ Leaked \subseteq Req
    BY DEF SafetyInv, TypeOK, Leaked
  <2> QED
    BY <2>1, BoundAssumption, FS_Subset, FS_CardinalityType
<1>2. Cardinality(held') <= MaxConns
  <2>1. CASE held' \subseteq held
    <3>1. Cardinality(held') <= Cardinality(held) /\ IsFiniteSet(held')
      BY <1>1, <2>1, FS_Subset
    <3>2. Cardinality(held') \in Nat
      BY <3>1, FS_CardinalityType
    <3> QED
      BY <1>1, <3>1, <3>2, BoundAssumption DEF ConnectionsReturned
  <2>2. CASE \E q \in Req : Free /\ held' = held \cup {q}
    <3>1. PICK q \in Req : Free /\ held' = held \cup {q}
      BY <2>2
    <3>2. Cardinality(held') <= Cardinality(held) + 1
      BY <1>1, <3>1, AddingOne
    <3>3. Cardinality(held') \in Nat
      BY <1>1, <3>1, AddingOne
    <3> QED
      BY <1>1, <3>1, <3>2, <3>3, BoundAssumption DEF Free
  <2> QED
    BY <2>1, <2>2, PoolStep
<1>3. locks' \subseteq held'
  BY DEF SafetyInv, TxInv
<1>4. Cardinality(Leaked') <= faults'
  <2>0. /\ faults \in Nat /\ faults' \in Nat /\ faults' >= faults
        /\ Cardinality(Leaked) <= faults
    BY BoundAssumption, EntryStep
       DEF SafetyInv, TypeOK, ConnectionsReturned
  <2>1. CASE Leaked' \subseteq Leaked
    <3>1. Cardinality(Leaked') <= Cardinality(Leaked) /\ IsFiniteSet(Leaked')
      BY <1>1, <2>1, FS_Subset
    <3>2. Cardinality(Leaked') \in Nat
      BY <3>1, FS_CardinalityType
    <3> QED
      BY <1>1, <2>0, <3>1, <3>2
  <2>2. CASE \E r \in Req : /\ Leaked' \subseteq Leaked \cup {r}
                            /\ faults' = faults + 1
    <3>1. PICK r \in Req : /\ Leaked' \subseteq Leaked \cup {r}
                           /\ faults' = faults + 1
      BY <2>2
    <3>2. /\ Cardinality(Leaked') \in Nat
          /\ Cardinality(Leaked') <= Cardinality(Leaked) + 1
      BY <1>1, <3>1, AddingOne
    <3> QED
      BY <1>1, <2>0, <3>1, <3>2
  <2> QED
    BY <2>1, <2>2, LeakStep
<1>5. \A r \in Leaked' : /\ Asks(r, "Add")' /\ reply'[r] = 500
                         /\ made'[r] < req'[r].techs
  BY DEF HeldInv, Leaked, At
<1> QED
  BY <1>2, <1>3, <1>4, <1>5 DEF ConnectionsReturned

LEMMA AnswerInvStep == SafetyInv /\ AnswerInv /\ [Next]_vars => AnswerInv'
<1> SUFFICES ASSUME SafetyInv, AnswerInv, [Next]_vars PROVE AnswerInv'
  OBVIOUS
<1>0. /\ AskInv /\ GoneInv /\ PendingInv /\ HeldInv
      /\ DeletedOnce /\ ShownWhole /\ ConnectionsReturned
  BY DEF AnswerInv
<1>1. SafetyInv'
  BY NextSafety
<1>2. AskInv'
  BY <1>0, AskStep
<1>3. GoneInv'
  BY <1>0, GoneStep
<1>4. PendingInv'
  BY <1>0, PendingStep
<1>5. HeldInv'
  BY <1>0, HeldStep
<1>6. DeletedOnce'
  BY <1>0, <1>2, DeletedOnceStep
<1>7. ShownWhole'
  BY <1>0, ShownStep
<1>8. ConnectionsReturned'
  BY <1>0, <1>1, <1>5, ConnectionsStep
<1> QED
  BY <1>2, <1>3, <1>4, <1>5, <1>6, <1>7, <1>8 DEF AnswerInv

\* In every behaviour the answers to deletions, the entries shown and the
\* connections held are as the invariant says.
THEOREM AnswerInvariant == Spec => []AnswerInv
<1>1. SafetyInv /\ AnswerInv /\ [Next]_vars => (SafetyInv /\ AnswerInv)'
  BY NextSafety, AnswerInvStep
<1> QED
  BY <1>1, InitSafety, AnswerInit, PTL DEF Spec

\* Of any number of concurrent requests that delete one resume, or one entry,
\* at most one is answered 200: the row count of the DELETE decides it, not
\* the check of the owner that went before.
THEOREM DeletionsOnce == Spec => []DeletedOnce
<1>1. AnswerInv => DeletedOnce
  BY DEF AnswerInv
<1> QED
  BY <1>1, AnswerInvariant, PTL

\* A project is shown with all its technologies, or with none when its
\* deletion was let in between the SELECT of the projects and that of its
\* technologies, or with null when a call failed.
THEOREM ShownEntriesWhole == Spec => []ShownWhole
<1>1. AnswerInv => ShownWhole
  BY DEF AnswerInv
<1> QED
  BY <1>1, AnswerInvariant, PTL

\* The pool is never overdrawn, and every connection that AddProject does not
\* give back stands for one failed statement of addProjectTechnology.
THEOREM ConnectionsComeBack == Spec => []ConnectionsReturned
<1>1. AnswerInv => ConnectionsReturned
  BY DEF AnswerInv
<1> QED
  BY <1>1, AnswerInvariant, PTL

=============================================================================
