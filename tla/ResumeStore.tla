---------------------------- MODULE ResumeStore ----------------------------
(***************************************************************************)
(* What the routes under /api/v1/resumes promise of the stored resumes,    *)
(* whatever their handlers do one call after the other: each request has   *)
(* its effect at most once, in one step with its answer, on whole resumes  *)
(* and whole entries, and only for who was let in to the resume it names.  *)
(* Resumes implements this with the queries and the transaction of the     *)
(* repository.                                                             *)
(*                                                                         *)
(* An entry is stored with all its technologies.  Reads have no effect;    *)
(* what they show is the subject of ShownWhole in Resumes.                 *)
(***************************************************************************)
EXTENDS Naturals

CONSTANTS
    Req,      \* the requests of a behaviour
    Request,  \* what they may ask for
    Admins,   \* who has the role "admin"
    Seed,     \* the resumes that are there at the start
    None,     \* no value
    Aborted   \* no answer

VARIABLES
    resumes,  \* the resumes, with their owners
    stored,   \* the entries, with their technologies
    req,      \* what was asked
    may,      \* the requests that were let in to the resume they name
    reply     \* what was answered

vars == <<resumes, stored, req, may, reply>>

Init ==
    /\ resumes = Seed
    /\ stored = {}
    /\ req = [r \in Req |-> None]
    /\ may = {}
    /\ reply = [r \in Req |-> None]

Pending(r) == req[r] # None /\ reply[r] = None

Asked(r, o) == Pending(r) /\ req[r].op = o

Answer(r, statuses) == \E s \in statuses : reply' = [reply EXCEPT ![r] = s]

\* The owner and the administrators may do everything to a resume.
MayUse(r, c) == c.owner = req[r].who \/ req[r].who \in Admins

Receive(r) ==
    /\ req[r] = None /\ reply[r] = None
    /\ req'[r] \in Request
    /\ req' = [req EXCEPT ![r] = req'[r]]
    /\ UNCHANGED <<resumes, stored, may, reply>>

Refuse(r) ==
    /\ req[r] = None /\ reply[r] = None
    /\ Answer(r, {400, 401})
    /\ UNCHANGED <<resumes, stored, req, may>>

\* The body of a request that was let in may be refused.
Admit(r) ==
    /\ Pending(r)
    /\ \E c \in resumes : c.id = req[r].resume /\ MayUse(r, c)
    /\ may' = may \cup {r}
    /\ Answer(r, {400}) \/ UNCHANGED reply
    /\ UNCHANGED <<resumes, stored, req>>

CreateResume(r) ==
    /\ Asked(r, "CreateResume")
    /\ resumes' = resumes \cup {[id |-> r, owner |-> req[r].who]}
    /\ Answer(r, {201, 500})
    /\ UNCHANGED <<stored, req, may>>

\* A resume goes with all its entries.
DeleteResume(r) ==
    /\ Asked(r, "DeleteResume")
    /\ \E c \in resumes :
          /\ c.id = req[r].resume /\ MayUse(r, c)
          /\ resumes' = resumes \ {c}
          /\ stored' = {e \in stored : e.resume # c.id}
    /\ Answer(r, {200, 500})
    /\ UNCHANGED <<req, may>>

\* Only projects have technologies.
WholeEntry(r) ==
    [id |-> r, resume |-> req[r].resume, section |-> req[r].section,
     techs |-> IF req[r].section = "projects" THEN 1..req[r].techs ELSE {}]

\* Into a resume that is there and that the request may use at this moment; an
\* entry is there as soon as it is promised.
AddEntry(r) ==
    /\ Asked(r, "Add")
    /\ \E c \in resumes : c.id = req[r].resume /\ MayUse(r, c)
    /\ stored' = stored \cup {WholeEntry(r)}
    /\ Answer(r, IF req[r].section = "experience" THEN {201} ELSE {201, 500})
    /\ UNCHANGED <<resumes, req, may>>

\* For who was let in to the resume of the request; the entry may be in any.
DeleteEntry(r) ==
    /\ Asked(r, "Delete") /\ r \in may
    /\ \E e \in stored :
          /\ e.id = req[r].entry /\ e.section = req[r].section
          /\ stored' = stored \ {e}
    /\ Answer(r, {200, 500})
    /\ UNCHANGED <<resumes, req, may>>

\* The answers that come without an effect: who asks for the list of his own
\* resumes is answered, who asks for anything of one resume is if he was let in.
\* An experience is promised whether it is stored or not.
Failures == {400, 403, 404, 500}

Reads == {"GetResume", "GetPersonalInfo", "Get"}

Successes(r) ==
    CASE req[r].op = "ListResumes" -> {200}
      [] req[r].op \in Reads /\ r \in may -> {200}
      [] req[r].op = "Add" /\ req[r].section = "experience" /\ r \in may -> {201}
      [] OTHER -> {}

NoEffect(r) ==
    /\ Pending(r)
    /\ Answer(r, Failures \cup Successes(r))
    /\ UNCHANGED <<resumes, stored, req, may>>

\* The connections of some requests break: they are not answered any more.
Abort ==
    /\ \E some \in SUBSET {r \in Req : Pending(r)} :
          reply' = [r \in Req |-> IF r \in some THEN Aborted ELSE reply[r]]
    /\ UNCHANGED <<resumes, stored, req, may>>

Next ==
    \/ \E r \in Req :
          \/ Receive(r) \/ Refuse(r) \/ Admit(r)
          \/ CreateResume(r) \/ DeleteResume(r) \/ AddEntry(r) \/ DeleteEntry(r)
          \/ NoEffect(r)
    \/ Abort

Spec == Init /\ [][Next]_vars

=============================================================================
