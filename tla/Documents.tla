----------------------------- MODULE Documents -----------------------------
(***************************************************************************)
(* The documents of a resume: what Validate accepts, what BeforeSave makes *)
(* of it (internal/domain), which row is stored for it and which document  *)
(* is answered for a row (internal/repository/cv_repository.go).           *)
(*                                                                         *)
(* A text is a core, "" or a word without blanks at its ends, with blanks  *)
(* before or after it.  A document is a record of texts; a list of texts   *)
(* is a function from positions.  Of the texts nothing is required of      *)
(* (location, field, credential_id and the like) description stands for    *)
(* all, and repo_url for both addresses of a project.  A nullable column   *)
(* is a set of at most one value.  A day is a core that time.Parse         *)
(* accepts, and Order compares days; 0 is Go's zero time.                  *)
(***************************************************************************)
EXTENDS Integers

CONSTANTS
    Core,     \* "" and words without blanks at their ends
    Day,      \* cores of the form YYYY-MM-DD that are days
    Order,    \* their order
    Url,      \* cores that url.ParseRequestURI accepts
    PathUrl,  \* those that have a path, in which a blank is accepted
    Email,    \* cores that EmailRegex matches
    Phone     \* cores that PhoneRegex matches

Categories == {"language", "framework", "tool", "database", "other"}

ASSUME CoreAssumption ==
    /\ {"", "Present", "No Expiration"} \cup Categories \subseteq Core
    /\ Day \cup Url \cup Email \cup Phone \subseteq Core

ASSUME DayAssumption ==
    /\ Order \in [Day -> Int]
    /\ {"", "Present", "No Expiration"} \cap Day = {}

ASSUME WordAssumption ==
    /\ PathUrl \subseteq Url
    /\ "" \notin Url \cup Email \cup Phone

Pads == {"none", "before", "after"}

Text == [core : Core, pad : Pads]

IsList(list) ==
    /\ list = [i \in DOMAIN list |-> list[i]]
    /\ DOMAIN list \subseteq Nat /\ \A i \in DOMAIN list : list[i] \in Text

Plain(core) == [core |-> core, pad |-> "none"]

NoText == Plain("")

Given(t) == t # NoText

Trim(t) == Plain(t.core)

BlankUntrimmed(t) == t = NoText

\* strings.TrimSpace(t) == "".
Blank(t) == t.core = ""

Parses(t) == t.pad = "none" /\ t.core \in Day

\* The time of a text, the zero time when it is not a day.
Instant(t) == IF Parses(t) THEN Order[t.core] ELSE 0

\* url.ParseRequestURI takes no blank before the address, nor after its host.
UrlAccepted(t) ==
    t.core \in Url /\ (t.pad = "none" \/ (t.pad = "after" /\ t.core \in PathUrl))

OptionalUrl(t) == Given(t) => UrlAccepted(t)

\* The two dates of an entry that must begin; ongoing is how "no end" is
\* written.
Period(start, end, ongoing) ==
    /\ Parses(start)
    /\ \/ ~Given(end) \/ end = Plain(ongoing)
       \/ Parses(end) /\ Instant(end) >= Instant(start)

Trimmed(d) == [f \in DOMAIN d |-> Trim(d[f])]

\* The texts of a list that are not blank, trimmed.
TrimList(list) ==
    [i \in {j \in DOMAIN list : ~Blank(list[j])} |-> Trim(list[i])]

\* A date column: NULL if nothing was written, or that there is no end.
DateColumn(t, ongoing) == IF ~Given(t) \/ t = Plain(ongoing) THEN {} ELSE {t.core}

\* How a date column is written out.
DateText(column, ongoing) ==
    IF column = {} THEN Plain(ongoing) ELSE Plain(CHOOSE d \in column : TRUE)

-----------------------------------------------------------------------------
(* Education.                                                              *)

Education ==
    [institution : Text, degree : Text, start_date : Text, end_date : Text,
     description : Text]

ValidEducation(e) ==
    /\ ~Blank(e.institution) /\ ~Blank(e.degree) /\ ~Blank(e.start_date)
    /\ Period(e.start_date, e.end_date, "Present")

SavedEducation(e) == Trimmed(e)

\* start_date and end_date of the row in AddEducation.
EducationRow(e) ==
    [e EXCEPT !.start_date = DateColumn(@, ""),
              !.end_date = DateColumn(@, "Present")]

ShownEducation(row) ==
    [row EXCEPT !.start_date = DateText(@, ""),
                !.end_date = DateText(@, "Present")]

-----------------------------------------------------------------------------
(* Experience.  Its achievements have no column.                           *)

IsExperience(e) ==
    /\ e = [employer |-> e.employer, title |-> e.title,
            start_date |-> e.start_date, end_date |-> e.end_date,
            description |-> e.description, achievements |-> e.achievements]
    /\ {e.employer, e.title, e.start_date, e.end_date, e.description}
          \subseteq Text
    /\ IsList(e.achievements)

ValidExperience(e) ==
    /\ ~Blank(e.employer) /\ ~Blank(e.title) /\ ~Blank(e.start_date)
    /\ Period(e.start_date, e.end_date, "Present")

SavedExperience(e) ==
    [f \in DOMAIN e |-> IF f = "achievements" THEN TrimList(e[f])
                                              ELSE Trim(e[f])]

ExperienceRow(e) ==
    [employer |-> e.employer, title |-> e.title,
     start_date |-> DateColumn(e.start_date, ""),
     end_date |-> DateColumn(e.end_date, "Present"),
     description |-> e.description]

ShownExperience(row) ==
    [employer |-> row.employer, title |-> row.title,
     start_date |-> DateText(row.start_date, ""),
     end_date |-> DateText(row.end_date, "Present"),
     description |-> row.description,
     achievements |-> [i \in {} |-> NoText]]

-----------------------------------------------------------------------------
(* Certifications.                                                         *)

Certification ==
    [name : Text, issuer : Text, issue_date : Text, expiry_date : Text,
     url : Text, description : Text]

ValidCertification(c) ==
    /\ ~Blank(c.name) /\ ~Blank(c.issuer) /\ ~Blank(c.issue_date)
    /\ Period(c.issue_date, c.expiry_date, "No Expiration")
    /\ OptionalUrl(c.url)

SavedCertification(c) == Trimmed(c)

CertificationRow(c) ==
    [c EXCEPT !.issue_date = DateColumn(@, ""),
              !.expiry_date = DateColumn(@, "No Expiration")]

ShownCertification(row) ==
    [row EXCEPT !.issue_date = DateText(@, ""),
                !.expiry_date = DateText(@, "No Expiration")]

-----------------------------------------------------------------------------
(* Skills.  A proficiency of 0 is none.                                    *)

Skill == [name : Text, category : Text, proficiency : Int]

ValidSkill(s) ==
    /\ ~Blank(s.name)
    /\ Given(s.category) => s.category \in {Plain(c) : c \in Categories}
    /\ s.proficiency # 0 => s.proficiency \in 1..5

SavedSkill(s) ==
    [s EXCEPT !.name = Trim(@),
              !.category = IF Blank(@) THEN Plain("other") ELSE Trim(@)]

SkillRow(s) ==
    [s EXCEPT !.proficiency = IF @ = 0 THEN {} ELSE {@}]

ShownSkill(row) ==
    [row EXCEPT !.proficiency = IF @ = {} THEN 0 ELSE CHOOSE n \in @ : TRUE]

-----------------------------------------------------------------------------
(* Projects.  Both dates may be missing, and either may be "Present"; the  *)
(* range is tested with the zero time in the place of what does not parse. *)

IsProjectDocument(p) ==
    /\ p = [name |-> p.name, repo_url |-> p.repo_url,
            start_date |-> p.start_date, end_date |-> p.end_date,
            description |-> p.description, technologies |-> p.technologies]
    /\ {p.name, p.repo_url, p.start_date, p.end_date, p.description}
          \subseteq Text
    /\ IsList(p.technologies)

OptionalDate(t) == Given(t) /\ t # Plain("Present") => Parses(t)

ProjectRange(start, end) ==
    Given(start) /\ Given(end) /\ end # Plain("Present") =>
        Instant(end) >= Instant(start)

ValidProject(p) ==
    /\ ~Blank(p.name)
    /\ OptionalUrl(p.repo_url)
    /\ OptionalDate(p.start_date) /\ OptionalDate(p.end_date)
    /\ ProjectRange(p.start_date, p.end_date)

SavedProject(p) ==
    [f \in DOMAIN p |-> IF f = "technologies" THEN TrimList(p[f])
                                              ELSE Trim(p[f])]

\* The row of the table projects; the technologies have rows of their own.
ProjectRow(p) ==
    [name |-> p.name, repo_url |-> p.repo_url,
     start_date |-> DateColumn(p.start_date, "Present"),
     end_date |-> DateColumn(p.end_date, "Present"),
     description |-> p.description]

\* A start that is NULL is written "", an end that is NULL "Present".
ShownProject(row, technologies) ==
    [name |-> row.name, repo_url |-> row.repo_url,
     start_date |-> DateText(row.start_date, ""),
     end_date |-> DateText(row.end_date, "Present"),
     description |-> row.description, technologies |-> technologies]

-----------------------------------------------------------------------------
(* Personal information.                                                   *)

PersonalInfo ==
    [first_name : Text, last_name : Text, email : Text, phone : Text,
     street : Text, city : Text, country : Text, job_title : Text]

ValidAddress(p) ==
    Given(p.street) \/ Given(p.city) \/ Given(p.country) =>
        ~Blank(p.street) /\ ~Blank(p.city) /\ ~Blank(p.country)

ValidPersonalInfo(p) ==
    /\ ~Blank(p.first_name) /\ ~Blank(p.last_name) /\ ~Blank(p.email)
    /\ p.email.pad = "none" /\ p.email.core \in Email
    /\ Given(p.phone) => p.phone.pad = "none" /\ p.phone.core \in Phone
    /\ ValidAddress(p)

SavedPersonalInfo(p) == Trimmed(p)

-----------------------------------------------------------------------------
(* By the kind of the document.                                            *)

EntryKinds == {"education", "experience", "certifications", "skills",
               "projects"}

Kinds == EntryKinds \cup {"personal_info"}

IsDocument(k, d) ==
    \/ k = "education" /\ d \in Education
    \/ k = "experience" /\ IsExperience(d)
    \/ k = "certifications" /\ d \in Certification
    \/ k = "skills" /\ d \in Skill
    \/ k = "projects" /\ IsProjectDocument(d)
    \/ k = "personal_info" /\ d \in PersonalInfo

Validate(k, d) ==
    \/ k = "education" /\ ValidEducation(d)
    \/ k = "experience" /\ ValidExperience(d)
    \/ k = "certifications" /\ ValidCertification(d)
    \/ k = "skills" /\ ValidSkill(d)
    \/ k = "projects" /\ ValidProject(d)
    \/ k = "personal_info" /\ ValidPersonalInfo(d)

BeforeSave(k, d) ==
    CASE k = "education" -> SavedEducation(d)
      [] k = "experience" -> SavedExperience(d)
      [] k = "certifications" -> SavedCertification(d)
      [] k = "skills" -> SavedSkill(d)
      [] k = "projects" -> SavedProject(d)
      [] k = "personal_info" -> SavedPersonalInfo(d)

ToRow(k, d) ==
    CASE k = "education" -> EducationRow(d)
      [] k = "experience" -> ExperienceRow(d)
      [] k = "certifications" -> CertificationRow(d)
      [] k = "skills" -> SkillRow(d)
      [] k = "projects" -> ProjectRow(d)

\* The document of a row; technologies are those of a project.
FromRow(k, row, technologies) ==
    CASE k = "education" -> ShownEducation(row)
      [] k = "experience" -> ShownExperience(row)
      [] k = "certifications" -> ShownCertification(row)
      [] k = "skills" -> ShownSkill(row)
      [] k = "projects" -> ShownProject(row, technologies)

=============================================================================
