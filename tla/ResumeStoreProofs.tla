------------------------- MODULE ResumeStoreProofs -------------------------
(***************************************************************************)
(* Resumes implements ResumeStore: every step of a request is one effect   *)
(* with its answer, an answer without effect, or nothing that is promised. *)
(***************************************************************************)
EXTENDS ResumesProofs

LEMMA InitImplements == Init => Store!Init
  BY DEF Init, Store!Init, Stored, LetIn, Permitted

\* Who was let in follows from what the requests ask and have read.
LEMMA LetInKept ==
    ASSUME UNCHANGED <<req, row>>
    PROVE  LetIn' = LetIn
  BY DEF LetIn, Permitted

\* Steps between two calls of a request.
LEMMA SilentStep ==
    ASSUME UNCHANGED <<tables, req, row, reply>>
    PROVE  UNCHANGED Store!vars
<1>1. UNCHANGED <<resumes, entries, techs, req, row, reply>>
  BY DEF tables
<1>2. Stored' = Stored
  BY <1>1 DEF Stored, TechsOf
<1> QED
  BY <1>1, <1>2, LetInKept DEF Store!vars

\* A request that is served has been received and not answered.
LEMMA ServedPending ==
    ASSUME SafetyInv, NEW r \in Req, InFlight(r)
    PROVE  Store!Pending(r)
  BY DEF SafetyInv, ControlInv, InFlight, Store!Pending

\* An answer that promises nothing.
LEMMA AnswerStep ==
    ASSUME SafetyInv, NEW r \in Req, InFlight(r), NEW status,
           Answer(r, status), UNCHANGED <<tables, req, row>>,
           status \in Store!Failures \cup Store!Successes(r)
    PROVE  Store!NoEffect(r)
<1>1. UNCHANGED <<resumes, entries, techs, req, row>>
  BY DEF tables
<1>2. Stored' = Stored
  BY <1>1 DEF Stored, TechsOf
<1>3. reply' = [reply EXCEPT ![r] = status]
  BY DEF Answer
<1>4. Store!Answer(r, Store!Failures \cup Store!Successes(r))
  BY <1>3 DEF Store!Answer
<1> QED
  BY <1>1, <1>2, <1>4, ServedPending, LetInKept DEF Store!NoEffect

\* A failure may be answered to every request.
LEMMA FailureStep ==
    ASSUME SafetyInv, NEW r \in Req, InFlight(r),
           NEW status \in {400, 403, 404, 500},
           Answer(r, status), UNCHANGED <<tables, req, row>>
    PROVE  Store!NoEffect(r)
  BY AnswerStep DEF Store!Failures

\* Success without effect: to the list, and to who was let in.
LEMMA SuccessesAre ==
    ASSUME NEW r \in Req
    PROVE  /\ Asks(r, "ListResumes") => 200 \in Store!Successes(r)
           /\ /\ Permitted(r)
              /\ Asks(r, "GetResume") \/ Asks(r, "GetPersonalInfo") \/ Asks(r, "Get")
              => 200 \in Store!Successes(r)
           /\ Permitted(r) /\ Asks(r, "Add") /\ req[r].section = "experience"
              => 201 \in Store!Successes(r)
  BY DEF Store!Successes, Store!Reads, Asks, LetIn

LEMMA ArriveStep ==
    ASSUME SafetyInv, SafetyInv', NEW r \in Req, Arrive(r)
    PROVE  Store!Receive(r)
<1>1. PICK q : req' = [req EXCEPT ![r] = q]
  BY DEF Arrive
<1>2. pc[r] = "idle" /\ UNCHANGED <<resumes, entries, techs, row, reply>>
  BY DEF Arrive, At, Goto, tables
<1>3. req[r] = None /\ reply[r] = None
  BY <1>2 DEF SafetyInv, ControlInv
<1>4. req'[r] \in Request /\ req' = [req EXCEPT ![r] = req'[r]]
  <2>1. InFlight(r)'
    BY DEF Arrive, Goto, Entry, InFlight, SafetyInv, TypeOK
  <2>2. req'[r] # None
    BY <2>1 DEF SafetyInv, ControlInv
  <2> QED
    BY <1>1, <2>2 DEF SafetyInv, TypeOK
<1>5. Stored' = Stored
  BY <1>2 DEF Stored, TechsOf
<1>6. LetIn' = LetIn
  <2>1. row[r] = None
    BY <1>3 DEF SafetyInv, ControlInv
  <2>2. \A p \in Req : p # r => req'[p] = req[p]
    BY <1>1 DEF SafetyInv, TypeOK
  <2> QED
    BY <1>2, <2>1, <2>2 DEF LetIn, Permitted
<1> QED
  BY <1>2, <1>3, <1>4, <1>5, <1>6 DEF Store!Receive

LEMMA RefuseStep ==
    ASSUME SafetyInv, NEW r \in Req, Refuse(r)
    PROVE  Store!Refuse(r)
<1>1. pc[r] = "idle" /\ UNCHANGED <<resumes, entries, techs, req, row>>
  BY DEF Refuse, At, tables, local
<1>2. req[r] = None /\ reply[r] = None
  BY <1>1 DEF SafetyInv, ControlInv
<1>3. Store!Answer(r, {400, 401})
  BY ZenonT(60) DEF Refuse, Answer, Store!Answer
<1>4. Stored' = Stored
  BY <1>1 DEF Stored, TechsOf
<1> QED
  BY <1>1, <1>2, <1>3, <1>4, LetInKept DEF Store!Refuse

\* The resume is found and its owner is checked.
LEMMA FindStep ==
    ASSUME SafetyInv, NEW r \in Req, FindResume(r)
    PROVE  UNCHANGED Store!vars \/ Store!NoEffect(r) \/ Store!Admit(r)
<1>1. /\ InFlight(r) /\ UNCHANGED <<resumes, entries, techs, req>>
      /\ UNCHANGED tables
  BY DEF FindResume, At, InFlight, tables
<1>2. Stored' = Stored
  BY <1>1 DEF Stored, TechsOf
<1>3. CASE UNCHANGED row /\ Answer(r, 404)
  BY <1>1, <1>3, FailureStep
<1>4. ASSUME NEW c \in resumes, c.id = req[r].resume,
             row' = [row EXCEPT ![r] = c],
             \/ UNCHANGED reply
             \/ Allowed(r, c) /\ Answer(r, 400)
             \/ ~Allowed(r, c) /\ Answer(r, 403)
      PROVE  UNCHANGED Store!vars \/ Store!NoEffect(r) \/ Store!Admit(r)
  <2>1. /\ c # None /\ row'[r] = c
        /\ \A q \in Req : q # r => row'[q] = row[q]
        /\ row[r] # None => row[r] = c
    BY <1>4, NoneAssumption DEF SafetyInv, TypeOK, IdInv
  <2>2. CASE Allowed(r, c)
    <3>1. LetIn' = LetIn \cup {r}
      BY <1>1, <2>1, <2>2 DEF LetIn, Permitted, Allowed
    <3>2. Store!MayUse(r, c)
      BY <2>2 DEF Allowed, Store!MayUse
    <3>3. UNCHANGED reply \/ Store!Answer(r, {400})
      BY <1>4, <2>2 DEF Answer, Store!Answer
    <3> QED
      BY <1>1, <1>2, <1>4, <3>1, <3>2, <3>3, ServedPending DEF Store!Admit
  <2>3. CASE ~Allowed(r, c)
    <3>1. LetIn' = LetIn
      BY <1>1, <2>1, <2>3 DEF LetIn, Permitted, Allowed
    <3>2. CASE UNCHANGED reply
      BY <1>1, <1>2, <3>1, <3>2 DEF Store!vars
    <3>3. CASE Answer(r, 403)
      <4>1. Store!Answer(r, Store!Failures \cup Store!Successes(r))
        BY ZenonT(40), <3>3 DEF Answer, Store!Answer, Store!Failures
      <4> QED
        BY <1>1, <1>2, <3>1, <4>1, ServedPending DEF Store!NoEffect
    <3> QED
      BY <1>4, <2>3, <3>2, <3>3
  <2> QED
    BY <2>2, <2>3
<1> QED
  BY <1>1, <1>3, <1>4 DEF FindResume, Goto

LEMMA FailStep ==
    ASSUME SafetyInv, NEW r \in Req, CallFails(r)
    PROVE  Store!NoEffect(r)
<1>1. InFlight(r) /\ UNCHANGED <<tables, req, row>> /\ Answer(r, 500)
  BY DEF CallFails, At, InFlight, local
<1> QED
  BY <1>1, FailureStep

LEMMA InfoStep ==
    ASSUME SafetyInv, NEW r \in Req,
           ListResumes(r) \/ SavePersonalInfo(r) \/ GetPersonalInfo(r)
    PROVE  UNCHANGED Store!vars \/ Store!NoEffect(r)
<1>1. InFlight(r) /\ UNCHANGED <<tables, req, row>>
  BY DEF ListResumes, SavePersonalInfo, GetPersonalInfo, At, InFlight, local
<1>2. CASE ListResumes(r)
  <2>1. Answer(r, 200) /\ Asks(r, "ListResumes")
    BY <1>2 DEF ListResumes, At, SafetyInv, ControlInv
  <2> QED
    BY <1>1, <2>1, AnswerStep, SuccessesAre
<1>3. CASE SavePersonalInfo(r)
  <2>1. Answer(r, 500)
    BY <1>3 DEF SavePersonalInfo
  <2> QED
    BY <1>1, <2>1, FailureStep
<1>4. CASE GetPersonalInfo(r)
  <2>1. \/ UNCHANGED reply
        \/ /\ \E status \in {200, 500} : Answer(r, status)
           /\ ~Asks(r, "GetResume")
    BY <1>4 DEF GetPersonalInfo, Goto
  <2>2. ~Asks(r, "GetResume") => 200 \in Store!Successes(r)
    BY <1>4, SuccessesAre DEF GetPersonalInfo, At, SafetyInv, ControlInv
  <2> QED
    BY <1>1, <2>1, <2>2, SilentStep, AnswerStep, FailureStep
<1> QED
  BY <1>2, <1>3, <1>4

LEMMA ReadStep ==
    ASSUME SafetyInv, NEW r \in Req, ReadSection(r) \/ ReadTechs(r)
    PROVE  UNCHANGED Store!vars \/ Store!NoEffect(r)
<1>1. InFlight(r) /\ UNCHANGED <<tables, req, row>>
  BY DEF ReadSection, ReadTechs, At, InFlight, Sections
<1>2. \/ Asks(r, "Get") /\ Permitted(r)
      \/ Asks(r, "GetResume") /\ row[r] # None
  BY DEF ReadSection, ReadTechs, At, SafetyInv, ControlInv
<1> DEFINE Answers == \/ UNCHANGED reply
                      \/ Permitted(r) /\ Answer(r, 200)
                      \/ \E status \in {403, 500} : Answer(r, status)
<1>a. ASSUME NEW section, Proceed(r, section) PROVE Answers
  <2>1. CASE req[r].op = "Get"
    BY <1>2, <1>a, <2>1 DEF Proceed, Asks
  <2>2. CASE req[r].op # "Get" /\ section = "certifications"
    BY <1>2, <1>a, <2>2 DEF Proceed, Asks, Allowed, Permitted
  <2>3. CASE req[r].op # "Get" /\ section # "certifications"
    BY <1>a, <2>3 DEF Proceed, Goto
  <2> QED
    BY <2>1, <2>2, <2>3
<1>b. ASSUME NEW rest, NextProject(r, rest) PROVE Answers
  <2>1. Proceed(r, "projects") \/ Goto(r, "read_techs")
    BY <1>b DEF NextProject
  <2> QED
    BY <2>1, <1>a DEF Goto
<1>3. Answers
  <2> HIDE DEF Answers
  <2>1. CASE ReadSection(r)
    <3>1. \/ NextProject(r, Select(r))
          \/ Proceed(r, pc[r])
          \/ Answer(r, 500)
      BY <2>1 DEF ReadSection
    <3>2. Answer(r, 500) => Answers
      BY DEF Answers
    <3> QED
      BY <3>1, <3>2, <1>a, <1>b
  <2>2. CASE ReadTechs(r)
    <3>1. PICK p \in rows[r] : NextProject(r, rows[r] \ {p})
      BY <2>2 DEF ReadTechs
    <3> QED
      BY <3>1, <1>b
  <2> QED
    BY <2>1, <2>2
<1>4. Permitted(r) => 200 \in Store!Successes(r)
  BY <1>2, SuccessesAre
<1> QED
  BY <1>1, <1>3, <1>4, SilentStep, AnswerStep, FailureStep

LEMMA TxStep ==
    ASSUME SafetyInv, NEW r \in Req,
           WaitForLock(r) \/ BeginTx(r) \/ TxInsert(r) \/ TxTech(r)
    PROVE  UNCHANGED Store!vars \/ Store!NoEffect(r)
<1>1. InFlight(r) /\ UNCHANGED <<tables, req, row>>
  BY DEF WaitForLock, BeginTx, TxInsert, TxTech, At, InFlight, local
<1>2. UNCHANGED reply \/ Answer(r, 500)
  BY DEF WaitForLock, BeginTx, TxInsert, TxTech, Goto
<1> QED
  BY <1>1, <1>2, SilentStep, FailureStep

LEMMA CreateStep ==
    ASSUME SafetyInv, NEW r \in Req, CreateCV(r)
    PROVE  Store!CreateResume(r)
<1>1. InFlight(r) /\ Asks(r, "CreateResume")
  BY DEF CreateCV, At, InFlight, SafetyInv, ControlInv
<1>2. Store!Asked(r, "CreateResume")
  BY <1>1, ServedPending DEF Store!Asked, Asks
<1>3. Store!Answer(r, {201, 500})
  BY DEF CreateCV, Answer, Store!Answer
<1>4. /\ resumes' = resumes \cup {[id |-> r, owner |-> req[r].who]}
      /\ UNCHANGED <<entries, techs, req, row>>
  BY DEF CreateCV, local
<1>5. Stored' = Stored
  BY <1>4 DEF Stored, TechsOf
<1> QED
  BY <1>2, <1>3, <1>4, <1>5, LetInKept DEF Store!CreateResume

\* A row of techs belongs to an entry that is there.
LEMMA TechsOfEntries ==
    ASSUME SafetyInv, NEW i, \A e \in entries : e.id # i
    PROVE  TechsOf(i) = {}
  BY DEF SafetyInv, NoOrphans, TechsOf

\* An id names one entry.
LEMMA EntryUniqueById ==
    ASSUME SafetyInv, NEW d \in entries, NEW e \in entries, d.id = e.id
    PROVE  d = e
  BY DEF SafetyInv, IdInv

\* The technologies that stay when a set of entries goes.
LEMMA StoredWithout ==
    ASSUME SafetyInv, NEW gone \in SUBSET entries,
           entries' = entries \ gone, CascadeTechs(gone)
    PROVE  Stored' = {w \in Stored : \A e \in gone : e.id # w.id}
<1> DEFINE Whole(e) == [id |-> e.id, resume |-> e.resume,
                        section |-> e.section, techs |-> TechsOf(e.id)]
<1>1. Stored = {Whole(e) : e \in entries}
  BY DEF Stored
<1>2. \A e \in entries \ gone : \A g \in gone : g.id # e.id
  BY EntryUniqueById
<1>3. \A e \in entries \ gone : TechsOf(e.id)' = TechsOf(e.id)
  BY <1>2 DEF CascadeTechs, TechsOf
<1>4. Stored' = {Whole(e) : e \in entries \ gone}
  BY <1>3 DEF Stored
<1>5. \A e \in entries : Whole(e).id = e.id
  OBVIOUS
<1> HIDE DEF Whole
<1> QED
  BY <1>1, <1>2, <1>4, <1>5

LEMMA DeleteResumeStep ==
    ASSUME SafetyInv, NEW r \in Req, DeleteCV(r)
    PROVE  Store!DeleteResume(r) \/ Store!NoEffect(r)
<1>1. InFlight(r) /\ Asks(r, "DeleteResume") /\ Permitted(r)
  BY DEF DeleteCV, At, InFlight, SafetyInv, ControlInv
<1>2. Store!Asked(r, "DeleteResume")
  BY <1>1, ServedPending DEF Store!Asked, Asks
<1> DEFINE gone == {e \in entries : e.resume = req[r].resume}
<1>3. /\ resumes' = {d \in resumes : d.id # req[r].resume}
      /\ entries' = entries \ gone /\ CascadeTechs(gone)
      /\ UNCHANGED <<req, row>>
  BY DEF DeleteCV, DeleteRow, Cascade, local
<1>4. Stored' = {w \in Stored : \A e \in gone : e.id # w.id}
  BY <1>3, StoredWithout
<1>5. Stored' = {w \in Stored : w.resume # req[r].resume}
  <2>1. \A w \in Stored : \E e \in entries : e.id = w.id /\ e.resume = w.resume
    BY DEF Stored
  <2> QED
    BY <1>4, <2>1, EntryUniqueById
<1>6. CASE ResumeExists(r)
  <2>1. PICK c \in resumes : c.id = req[r].resume
    BY <1>6 DEF ResumeExists
  <2>2. c = row[r]
    BY <1>1, <2>1 DEF Permitted, SafetyInv, IdInv
  <2>3. Store!MayUse(r, c)
    BY <1>1, <2>2 DEF Permitted, Store!MayUse
  <2>4. resumes' = resumes \ {c}
    BY <1>3, <2>1 DEF SafetyInv, IdInv
  <2>5. Store!Answer(r, {200, 500})
    BY DEF DeleteCV, Answer, Store!Answer
  <2> QED
    BY <1>2, <1>3, <1>5, <2>1, <2>3, <2>4, <2>5, LetInKept DEF Store!DeleteResume
<1>7. CASE ~ResumeExists(r)
  <2>1. gone = {} /\ resumes' = resumes
    BY <1>3, <1>7 DEF ResumeExists, SafetyInv, NoOrphans
  <2>2. UNCHANGED <<tables, req, row>>
    <3>1. entries' = entries /\ techs' = techs
      BY <1>3, <2>1 DEF CascadeTechs
    <3> QED
      BY <1>3, <2>1, <3>1 DEF tables
  <2>3. Answer(r, 500)
    BY <1>7 DEF DeleteCV, ResumeExists
  <2> QED
    BY <1>1, <2>2, <2>3, FailureStep
<1> QED
  BY <1>6, <1>7

LEMMA DeleteEntryStep ==
    ASSUME SafetyInv, NEW r \in Req, DeleteEntry(r)
    PROVE  Store!DeleteEntry(r) \/ Store!NoEffect(r)
<1>1. InFlight(r) /\ Asks(r, "Delete") /\ Permitted(r)
  BY DEF DeleteEntry, At, InFlight, SafetyInv, ControlInv
<1>2. Store!Asked(r, "Delete")
  BY <1>1, ServedPending DEF Store!Asked, Asks
<1>3. /\ entries' = entries \ Targets(r) /\ CascadeTechs(Targets(r))
      /\ UNCHANGED <<resumes, req, row>>
  BY DEF DeleteEntry, local
<1>4. CASE Targets(r) = {}
  <2>1. UNCHANGED <<tables, req, row>>
    <3>1. entries' = entries /\ techs' = techs
      BY <1>3, <1>4 DEF CascadeTechs
    <3> QED
      BY <1>3, <3>1 DEF tables
  <2>2. \E status \in {404, 500} : Answer(r, status)
    BY <1>4 DEF DeleteEntry, DeleteStatus
  <2> QED
    BY <1>1, <2>1, <2>2, FailureStep
<1>5. CASE Targets(r) # {}
  <2>1. PICK t \in Targets(r) : TRUE
    BY <1>5
  <2>2. /\ t \in entries /\ t.id = req[r].entry
        /\ t.section = req[r].section
    BY DEF Targets
  <2>3. \A e \in Targets(r) : e.id = t.id
    BY <2>2 DEF Targets
  <2>4. Stored' = {w \in Stored : t.id # w.id}
    BY <1>3, <2>1, <2>3, StoredWithout DEF Targets
  <2> DEFINE gone == [id |-> t.id, resume |-> t.resume,
                      section |-> t.section, techs |-> TechsOf(t.id)]
  <2>5. gone \in Stored /\ gone.id = t.id /\ gone.section = t.section
    BY <2>2 DEF Stored
  <2>6. \A w \in Stored : w.id = t.id => w = gone
    BY <2>2, EntryUniqueById DEF Stored
  <2> HIDE DEF gone
  <2>7. Stored' = Stored \ {gone}
    BY <2>4, <2>5, <2>6
  <2>8. Store!Answer(r, {200, 500})
    BY <1>5 DEF DeleteEntry, DeleteStatus, Answer, Store!Answer
  <2> QED
    BY <1>1, <1>2, <1>3, <2>2, <2>5, <2>7, <2>8, LetInKept
       DEF Store!DeleteEntry, LetIn
<1> QED
  BY <1>4, <1>5

\* The entry of a request in flight is not there yet.
LEMMA NotYetThere ==
    ASSUME SafetyInv, NEW r \in Req, InFlight(r)
    PROVE  /\ \A e \in entries : e.id # r
           /\ \A t \in techs : t[1] # r
  BY DEF SafetyInv, IdInv, NoOrphans, At, InFlight

\* An entry is added as it was sent.
LEMMA AddEffect ==
    ASSUME SafetyInv, NEW r \in Req, Asks(r, "Add"), InFlight(r),
           ResumeExists(r), Permitted(r),
           entries' = entries \cup {EntryOf(r)},
           TechsOf(r)' = IF req[r].section = "projects" THEN 1..req[r].techs
                                                        ELSE {},
           \A i \in Req : i # r => TechsOf(i)' = TechsOf(i),
           UNCHANGED <<resumes, req, row>>,
           NEW status \in {201, 500}, Answer(r, status),
           req[r].section = "experience" => status = 201
    PROVE  Store!AddEntry(r)
<1>1. Store!Asked(r, "Add")
  BY ServedPending DEF Store!Asked, Asks
<1>2. \A e \in entries : e.id \in Req /\ e.id # r
  BY NotYetThere DEF SafetyInv, TypeOK, SectionEntry
<1> DEFINE Whole(e) == [id |-> e.id, resume |-> e.resume,
                        section |-> e.section, techs |-> TechsOf(e.id)]
<1>3. \A e \in entries : TechsOf(e.id)' = TechsOf(e.id)
  BY <1>2
<1>4. Stored = {Whole(e) : e \in entries}
  BY DEF Stored
<1> DEFINE After(e) == [id |-> e.id, resume |-> e.resume,
                        section |-> e.section, techs |-> TechsOf(e.id)']
<1>5. Stored' = {After(e) : e \in entries'}
  BY DEF Stored
<1>6. \A e \in entries : After(e) = Whole(e)
  BY <1>3
<1>7. After(EntryOf(r)) = Store!WholeEntry(r)
  BY DEF EntryOf, Store!WholeEntry
<1> HIDE DEF Whole, After
<1>9. Stored' = Stored \cup {Store!WholeEntry(r)}
  BY <1>4, <1>5, <1>6, <1>7
<1>8. Store!Answer(r, IF req[r].section = "experience" THEN {201} ELSE {201, 500})
  BY ZenonT(60) DEF Answer, Store!Answer
<1>10. \E c \in resumes : c.id = req[r].resume /\ Store!MayUse(r, c)
  BY DEF ResumeExists, Permitted, Store!MayUse, SafetyInv, IdInv
<1> QED
  BY <1>1, <1>8, <1>9, <1>10, LetInKept DEF Store!AddEntry

LEMMA InsertStep ==
    ASSUME SafetyInv, NEW r \in Req, InsertEntry(r)
    PROVE  Store!AddEntry(r) \/ Store!NoEffect(r)
<1>1. /\ InFlight(r) /\ Asks(r, "Add") /\ req[r].section # "projects"
      /\ Permitted(r) /\ UNCHANGED <<resumes, techs, req, row>>
  BY DEF InsertEntry, At, InFlight, SafetyInv, ControlInv, local
<1> DEFINE failed == IF req[r].section = "experience" THEN 201 ELSE 500
<1>2. CASE ResumeExists(r) /\ entries' = entries \cup {EntryOf(r)}
  <2>1. TechsOf(r) = {} /\ \A i : TechsOf(i)' = TechsOf(i)
    BY <1>1, NotYetThere DEF TechsOf
  <2>2. Answer(r, 201) \/ Answer(r, failed)
    BY DEF InsertEntry
  <2>3. PICK status \in {201, 500} :
           /\ Answer(r, status)
           /\ req[r].section = "experience" => status = 201
    BY <2>2
  <2> QED
    BY <1>1, <1>2, <2>1, <2>3, AddEffect
<1>3. CASE UNCHANGED entries /\ Answer(r, failed)
  <2>1. UNCHANGED <<tables, req, row>>
    BY <1>1, <1>3 DEF tables
  <2>2. failed \in Store!Failures \cup Store!Successes(r)
    BY <1>1, SuccessesAre DEF Store!Failures
  <2> QED
    BY <1>1, <1>3, <2>1, <2>2, AnswerStep
<1>4. \/ ResumeExists(r) /\ entries' = entries \cup {EntryOf(r)}
      \/ UNCHANGED entries /\ Answer(r, failed)
  BY DEF InsertEntry
<1> QED
  BY <1>2, <1>3, <1>4

LEMMA CommitStep ==
    ASSUME SafetyInv, NEW r \in Req, TxCommit(r)
    PROVE  Store!AddEntry(r) \/ Store!NoEffect(r)
<1>1. /\ InFlight(r) /\ Asks(r, "Add") /\ req[r].section = "projects"
      /\ ResumeExists(r) /\ Permitted(r) /\ made[r] = req[r].techs
      /\ UNCHANGED <<resumes, req, row>>
  BY DEF TxCommit, At, InFlight, SafetyInv, ControlInv, TxInv, local
<1>2. CASE /\ entries' = entries \cup {EntryOf(r)}
           /\ techs' = techs \cup {<<r, k>> : k \in 1..made[r]}
           /\ Answer(r, 201) \/ Answer(r, 500)
  <2>1. made[r] \in 0..MaxTechs
    BY DEF SafetyInv, TypeOK
  <2>2. TechsOf(r)' = 1..req[r].techs
    BY <1>1, <1>2, <2>1, NotYetThere, BoundAssumption DEF TechsOf
  <2>3. \A i \in Req : i # r => TechsOf(i)' = TechsOf(i)
    BY <1>2 DEF TechsOf
  <2>4. PICK status \in {201, 500} :
           /\ Answer(r, status)
           /\ req[r].section = "experience" => status = 201
    BY <1>1, <1>2
  <2> QED
    BY <1>1, <1>2, <2>2, <2>3, <2>4, AddEffect
<1>3. CASE UNCHANGED <<entries, techs>> /\ Answer(r, 500)
  <2>1. UNCHANGED <<tables, req, row>>
    BY <1>1, <1>3 DEF tables
  <2> QED
    BY <1>1, <1>3, <2>1, FailureStep
<1> QED
  BY <1>2, <1>3 DEF TxCommit

LEMMA CrashStep ==
    ASSUME SafetyInv, Crash
    PROVE  Store!Abort
<1> DEFINE some == {r \in Req : InFlight(r)}
<1>1. some \in SUBSET {r \in Req : Store!Pending(r)}
  BY ServedPending
<1>2. reply' = [r \in Req |-> IF r \in some THEN Aborted ELSE reply[r]]
  BY DEF Crash
<1>3. UNCHANGED <<resumes, entries, techs, req, row>>
  BY DEF Crash, tables, local
<1>4. Stored' = Stored
  BY <1>3 DEF Stored, TechsOf
<1> HIDE DEF some
<1> QED
  BY <1>1, <1>2, <1>3, <1>4, LetInKept DEF Store!Abort

\* Every step is one of the store, or none.
LEMMA NextImplements ==
    SafetyInv /\ SafetyInv' /\ [Next]_vars => [Store!Next]_Store!vars
<1> SUFFICES ASSUME SafetyInv, SafetyInv', [Next]_vars
             PROVE  [Store!Next]_Store!vars
  OBVIOUS
<1>1. ASSUME NEW r \in Req, Arrive(r) \/ Refuse(r)
      PROVE  Store!Next
  BY <1>1, ArriveStep, RefuseStep DEF Store!Next
<1>2. ASSUME NEW r \in Req, Serve(r)
      PROVE  Store!Next \/ UNCHANGED Store!vars
  <2>1. CASE \/ FindResume(r) \/ CallFails(r) \/ ListResumes(r)
             \/ SavePersonalInfo(r) \/ GetPersonalInfo(r)
             \/ ReadSection(r) \/ ReadTechs(r)
             \/ WaitForLock(r) \/ BeginTx(r) \/ TxInsert(r) \/ TxTech(r)
    <3>1. UNCHANGED Store!vars \/ Store!NoEffect(r) \/ Store!Admit(r)
      BY <2>1, FindStep, FailStep, InfoStep, ReadStep, TxStep
    <3> QED
      BY <3>1 DEF Store!Next
  <2>2. CASE \/ CreateCV(r) \/ DeleteCV(r) \/ InsertEntry(r)
             \/ DeleteEntry(r) \/ TxCommit(r)
    <3>1. \/ Store!CreateResume(r) \/ Store!DeleteResume(r)
          \/ Store!AddEntry(r) \/ Store!DeleteEntry(r) \/ Store!NoEffect(r)
      BY <2>2, CreateStep, DeleteResumeStep, InsertStep, DeleteEntryStep,
         CommitStep
    <3> QED
      BY <3>1 DEF Store!Next
  <2> QED
    BY <1>2, <2>1, <2>2 DEF Serve
<1>3. CASE Crash
  BY <1>3, CrashStep DEF Store!Next
<1>4. CASE Finished \/ UNCHANGED vars
  <2>1. UNCHANGED <<tables, req, row, reply>>
    BY <1>4 DEF Finished, vars, local
  <2> QED
    BY <2>1, SilentStep
<1> QED
  BY <1>1, <1>2, <1>3, <1>4 DEF Next

\* The handlers of the resume routes, their statements interleaved with those
\* of all other requests, failing or cut off at any point, implement a store
\* of whole resumes and whole entries in which each request has its effect at
\* most once, in one step with its answer: a resume is deleted, an entry added,
\* a resume or a section shown only for the owner of that resume or an
\* administrator, and an entry is deleted only for who was let in to the resume
\* of his path (of the entry's own resume the store promises nothing).
THEOREM ResumesImplementStore == Spec => ImplementsStore
<1>1. Init => Store!Init
  BY InitImplements
<1>2. SafetyInv /\ SafetyInv' /\ [Next]_vars => [Store!Next]_Store!vars
  BY NextImplements
<1> QED
  BY <1>1, <1>2, SafetyInvariant, PTL DEF Spec, ImplementsStore, Store!Spec

=============================================================================
