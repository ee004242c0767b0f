-------------------------- MODULE DocumentsProofs --------------------------
(***************************************************************************)
(* Proofs about Documents, for every set of words and days: what Validate  *)
(* has accepted it accepts again after BeforeSave, and a document that is  *)
(* read from its row can be stored again as it is.                         *)
(***************************************************************************)
EXTENDS Documents, TLAPS

-----------------------------------------------------------------------------
(* Texts.                                                                  *)

LEMMA PlainParts ==
    ASSUME NEW core
    PROVE  Plain(core).core = core /\ Plain(core).pad = "none"
  BY DEF Plain

LEMMA PlainIsText ==
    ASSUME NEW core \in Core
    PROVE  Plain(core) \in Text
  BY DEF Plain, Text, Pads

LEMMA TextParts ==
    ASSUME NEW t \in Text
    PROVE  t = [core |-> t.core, pad |-> t.pad] /\ t.core \in Core
  BY DEF Text

LEMMA TrimIsText ==
    ASSUME NEW t \in Text
    PROVE  /\ Trim(t) \in Text
           /\ Trim(t).core = t.core /\ Trim(t).pad = "none"
           /\ Trim(Trim(t)) = Trim(t)
  BY TextParts DEF Trim, Text, Pads, Plain

LEMMA TrimBlank ==
    ASSUME NEW t \in Text
    PROVE  Blank(Trim(t)) <=> Blank(t)
  BY TrimIsText DEF Blank

LEMMA TrimUnpadded ==
    ASSUME NEW t \in Text, t.pad = "none"
    PROVE  Trim(t) = t /\ t = Plain(t.core)
  BY TextParts DEF Trim, Plain

LEMMA UrlTrimmed ==
    ASSUME NEW u \in Text, OptionalUrl(u)
    PROVE  OptionalUrl(Trim(u))
<1>1. Trim(u).core = u.core /\ Trim(u).pad = "none"
  BY TrimIsText
<1>2. CASE u = NoText
  BY <1>2, TrimUnpadded DEF OptionalUrl, NoText, Plain, Given
<1>3. CASE UrlAccepted(u)
  BY <1>1, <1>3 DEF OptionalUrl, UrlAccepted
<1> QED
  BY <1>2, <1>3 DEF OptionalUrl, Given

LEMMA ListTrimmed ==
    ASSUME NEW list, IsList(list)
    PROVE  IsList(TrimList(list))
<1>1. \A i \in DOMAIN list : Trim(list[i]) \in Text
  BY TrimIsText DEF IsList
<1> QED
  BY <1>1 DEF IsList, TrimList

-----------------------------------------------------------------------------
(* Dates.                                                                  *)

\* Dates that are accepted have no blanks to be trimmed.
LEMMA PeriodTrimmed ==
    ASSUME NEW s \in Text, NEW e \in Text, NEW ongoing,
           Period(s, e, ongoing)
    PROVE  Trim(s) = s /\ Trim(e) = e
<1>1. s.pad = "none"
  BY DEF Period, Parses
<1>2. e.pad = "none"
  <2>1. e = NoText \/ e = Plain(ongoing) \/ Parses(e)
    BY Zenon DEF Period, Given
  <2> QED
    BY <2>1, PlainParts DEF Parses, NoText
<1> QED
  BY <1>1, <1>2, TrimUnpadded

\* The date of a day is written as it was given.
LEMMA DayShown ==
    ASSUME NEW t \in Text, Parses(t), NEW never, NEW ongoing,
           never \in {"", "Present", "No Expiration"}
    PROVE  /\ t # NoText /\ t # Plain(never)
           /\ DateText(DateColumn(t, never), ongoing) = t
<1>1. t = Plain(t.core) /\ t.core \in Day
  BY TrimUnpadded DEF Parses
<1>2. t # Plain(never) /\ t # Plain("")
  BY <1>1, PlainParts, DayAssumption
<1>3. DateColumn(t, never) = {t.core}
  BY <1>2 DEF DateColumn, Given, NoText
<1>4. DateText({t.core}, ongoing) = Plain(t.core)
  BY DEF DateText
<1> QED
  BY <1>1, <1>2, <1>3, <1>4 DEF NoText

\* No end is written as the word for it, and read as no end.
LEMMA NoEndShown ==
    ASSUME NEW e, NEW ongoing, e = NoText \/ e = Plain(ongoing), NEW word
    PROVE  /\ DateColumn(e, ongoing) = {}
           /\ DateText(DateColumn(e, ongoing), word) = Plain(word)
           /\ DateColumn(Plain(ongoing), ongoing) = {}
  BY DEF DateColumn, DateText, Given

\* How the two dates of an entry are written out from their columns.
StartShown(s) == DateText(DateColumn(s, ""), "")

EndShown(e, ongoing) == DateText(DateColumn(e, ongoing), ongoing)

\* The dates of an entry that has a period, written out and read again.
LEMMA PeriodShown ==
    ASSUME NEW s \in Text, NEW e \in Text,
           NEW ongoing \in {"Present", "No Expiration"},
           Period(s, e, ongoing)
    PROVE  /\ StartShown(s) = s /\ EndShown(e, ongoing) \in Text
           /\ Period(s, EndShown(e, ongoing), ongoing)
           /\ DateColumn(EndShown(e, ongoing), ongoing) = DateColumn(e, ongoing)
<1>1. StartShown(s) = s
  BY DayShown DEF Period, StartShown
<1>2. CASE e = NoText \/ e = Plain(ongoing)
  <2>1. /\ EndShown(e, ongoing) = Plain(ongoing)
        /\ DateColumn(Plain(ongoing), ongoing) = DateColumn(e, ongoing)
    BY <1>2, NoEndShown DEF EndShown
  <2>2. Plain(ongoing) \in Text
    BY PlainIsText, CoreAssumption
  <2>3. Period(s, Plain(ongoing), ongoing)
    BY Zenon DEF Period
  <2> QED
    BY <1>1, <2>1, <2>2, <2>3
<1>3. CASE Parses(e)
  <2>1. EndShown(e, ongoing) = e
    BY <1>3, DayShown DEF EndShown
  <2> QED
    BY <1>1, <2>1
<1>4. e = NoText \/ e = Plain(ongoing) \/ Parses(e)
  BY Zenon DEF Period, Given
<1> QED
  BY <1>2, <1>3, <1>4

-----------------------------------------------------------------------------
(* Education.                                                              *)

\* Cleaning an accepted education changes its names only.
LEMMA EducationSaved ==
    ASSUME NEW e \in Education, ValidEducation(e),
           NEW s, s = SavedEducation(e)
    PROVE  /\ s \in Education /\ ValidEducation(s)
           /\ SavedEducation(s) = s
<1>0. /\ e.institution \in Text /\ e.degree \in Text /\ e.start_date \in Text
      /\ e.end_date \in Text /\ e.description \in Text
  BY DEF Education
<1>1. s = [institution |-> Trim(e.institution), degree |-> Trim(e.degree),
           start_date |-> Trim(e.start_date), end_date |-> Trim(e.end_date),
           description |-> Trim(e.description)]
  BY DEF SavedEducation, Trimmed, Education
<1>2. s \in Education
  BY <1>0, <1>1, TrimIsText DEF Education
<1>3. s.start_date = e.start_date /\ s.end_date = e.end_date
  BY <1>0, <1>1, PeriodTrimmed DEF ValidEducation
<1>4. /\ s.institution = Trim(e.institution) /\ s.degree = Trim(e.degree)
      /\ s.start_date = Trim(e.start_date)
  BY <1>1
<1>5. ~Blank(s.institution) /\ ~Blank(s.degree) /\ ~Blank(s.start_date)
  BY <1>0, <1>4, TrimBlank DEF ValidEducation
<1>6. ValidEducation(s)
  BY <1>3, <1>5 DEF ValidEducation
<1>7. SavedEducation(s) = s
  <2>1. SavedEducation(s) =
          [institution |-> Trim(Trim(e.institution)),
           degree |-> Trim(Trim(e.degree)),
           start_date |-> Trim(Trim(e.start_date)),
           end_date |-> Trim(Trim(e.end_date)),
           description |-> Trim(Trim(e.description))]
    BY <1>1 DEF SavedEducation, Trimmed
  <2> QED
    BY <1>0, <1>1, <2>1, TrimIsText
<1> QED
  BY <1>2, <1>6, <1>7

LEMMA EducationRowIs ==
    ASSUME NEW e \in Education, NEW row, row = EducationRow(e)
    PROVE  row = [institution |-> e.institution, degree |-> e.degree,
                  start_date |-> DateColumn(e.start_date, ""),
                  end_date |-> DateColumn(e.end_date, "Present"),
                  description |-> e.description]
  BY DEF EducationRow, Education

\* A stored education is read as one that is accepted and stored alike.
LEMMA EducationShown ==
    ASSUME NEW e \in Education, ValidEducation(e), SavedEducation(e) = e,
           NEW v, v = ShownEducation(EducationRow(e))
    PROVE  /\ v \in Education /\ ValidEducation(v)
           /\ EducationRow(SavedEducation(v)) = EducationRow(e)
<1>0. /\ e.institution \in Text /\ e.degree \in Text /\ e.start_date \in Text
      /\ e.end_date \in Text /\ e.description \in Text
  BY DEF Education
<1>1. /\ StartShown(e.start_date) = e.start_date
      /\ EndShown(e.end_date, "Present") \in Text
      /\ Period(e.start_date, EndShown(e.end_date, "Present"), "Present")
      /\ DateColumn(EndShown(e.end_date, "Present"), "Present")
            = DateColumn(e.end_date, "Present")
  BY <1>0, PeriodShown DEF ValidEducation
<1>2. v = [institution |-> e.institution, degree |-> e.degree,
           start_date |-> e.start_date,
           end_date |-> EndShown(e.end_date, "Present"),
           description |-> e.description]
  BY <1>1 DEF ShownEducation, EducationRow, Education, StartShown, EndShown
<1>3. v \in Education
  BY <1>0, <1>1, <1>2 DEF Education
<1>4. ValidEducation(v)
  <2>1. /\ v.institution = e.institution /\ v.degree = e.degree
        /\ v.start_date = e.start_date
        /\ v.end_date = EndShown(e.end_date, "Present")
    BY <1>2
  <2> QED
    BY <1>1, <2>1 DEF ValidEducation
<1>5. SavedEducation(v) = v
  <2>1. /\ Trim(e.institution) = e.institution /\ Trim(e.degree) = e.degree
        /\ Trim(e.description) = e.description
    BY DEF SavedEducation, Trimmed, Education
  <2>2. /\ Trim(e.start_date) = e.start_date
        /\ Trim(EndShown(e.end_date, "Present")) = EndShown(e.end_date, "Present")
    BY <1>0, <1>1, PeriodTrimmed
  <2> QED
    BY <1>2, <2>1, <2>2 DEF SavedEducation, Trimmed
<1>6. EducationRow(v) = EducationRow(e)
  <2>1. /\ v.institution = e.institution /\ v.degree = e.degree
        /\ v.start_date = e.start_date /\ v.description = e.description
        /\ DateColumn(v.end_date, "Present") = DateColumn(e.end_date, "Present")
    BY <1>1, <1>2
  <2>2. EducationRow(v) =
          [institution |-> v.institution, degree |-> v.degree,
           start_date |-> DateColumn(v.start_date, ""),
           end_date |-> DateColumn(v.end_date, "Present"),
           description |-> v.description]
    BY <1>3, EducationRowIs
  <2>3. EducationRow(e) =
          [institution |-> e.institution, degree |-> e.degree,
           start_date |-> DateColumn(e.start_date, ""),
           end_date |-> DateColumn(e.end_date, "Present"),
           description |-> e.description]
    BY EducationRowIs
  <2> QED
    BY <2>1, <2>2, <2>3
<1> QED
  BY <1>3, <1>4, <1>5, <1>6

LEMMA NoList == IsList([i \in {} |-> NoText])
  BY DEF IsList

-----------------------------------------------------------------------------
(* Experience.                                                             *)

\* Cleaning an accepted experience changes its names and lists only.
LEMMA ExperienceSaved ==
    ASSUME NEW e, IsExperience(e), ValidExperience(e),
           NEW s, s = SavedExperience(e)
    PROVE  /\ IsExperience(s) /\ ValidExperience(s)
           /\ ExperienceRow(SavedExperience(s)) = ExperienceRow(s)
           /\ Trim(s.employer) = s.employer /\ Trim(s.title) = s.title
           /\ Trim(s.description) = s.description
<1>0. /\ e.employer \in Text /\ e.title \in Text /\ e.start_date \in Text
      /\ e.end_date \in Text /\ e.description \in Text
      /\ IsList(e.achievements)
  BY DEF IsExperience
<1>1. s = [employer |-> Trim(e.employer), title |-> Trim(e.title),
           start_date |-> Trim(e.start_date), end_date |-> Trim(e.end_date),
           description |-> Trim(e.description),
           achievements |-> TrimList(e.achievements)]
  BY DEF SavedExperience, IsExperience
<1>2. IsExperience(s)
  BY <1>0, <1>1, TrimIsText, ListTrimmed DEF IsExperience
<1>3. s.start_date = e.start_date /\ s.end_date = e.end_date
  BY <1>0, <1>1, PeriodTrimmed DEF ValidExperience
<1>4. /\ s.employer = Trim(e.employer) /\ s.title = Trim(e.title)
      /\ s.start_date = Trim(e.start_date) /\ s.end_date = Trim(e.end_date)
      /\ s.description = Trim(e.description)
  BY <1>1
<1>5. ~Blank(s.employer) /\ ~Blank(s.title) /\ ~Blank(s.start_date)
  BY <1>0, <1>4, TrimBlank DEF ValidExperience
<1>6. ValidExperience(s)
  BY <1>3, <1>5 DEF ValidExperience
<1>7. /\ Trim(s.employer) = s.employer /\ Trim(s.title) = s.title
      /\ Trim(s.start_date) = s.start_date /\ Trim(s.end_date) = s.end_date
      /\ Trim(s.description) = s.description
  BY <1>0, <1>4, TrimIsText
<1>8. SavedExperience(s) =
        [employer |-> Trim(s.employer), title |-> Trim(s.title),
         start_date |-> Trim(s.start_date), end_date |-> Trim(s.end_date),
         description |-> Trim(s.description),
         achievements |-> TrimList(s.achievements)]
  BY <1>2 DEF SavedExperience, IsExperience
<1>9. ExperienceRow(SavedExperience(s)) = ExperienceRow(s)
  BY <1>7, <1>8 DEF ExperienceRow
<1> QED
  BY <1>2, <1>6, <1>7, <1>9

\* A stored experience is read as one that is accepted and stored alike.
LEMMA ExperienceShown ==
    ASSUME NEW e, IsExperience(e), ValidExperience(e),
           Trim(e.employer) = e.employer, Trim(e.title) = e.title,
           Trim(e.description) = e.description,
           NEW v, v = ShownExperience(ExperienceRow(e))
    PROVE  /\ IsExperience(v) /\ ValidExperience(v)
           /\ ExperienceRow(SavedExperience(v)) = ExperienceRow(e)
<1>0. /\ e.employer \in Text /\ e.title \in Text /\ e.start_date \in Text
      /\ e.end_date \in Text /\ e.description \in Text
  BY DEF IsExperience
<1>1. /\ StartShown(e.start_date) = e.start_date
      /\ EndShown(e.end_date, "Present") \in Text
      /\ Period(e.start_date, EndShown(e.end_date, "Present"), "Present")
      /\ DateColumn(EndShown(e.end_date, "Present"), "Present")
            = DateColumn(e.end_date, "Present")
  BY <1>0, PeriodShown DEF ValidExperience
<1>2. v = [employer |-> e.employer, title |-> e.title,
           start_date |-> e.start_date,
           end_date |-> EndShown(e.end_date, "Present"),
           description |-> e.description,
           achievements |-> [i \in {} |-> NoText]]
  BY <1>1 DEF ShownExperience, ExperienceRow, StartShown, EndShown
<1>3. IsExperience(v)
  BY <1>0, <1>1, <1>2, NoList DEF IsExperience
<1>4. /\ v.employer = e.employer /\ v.title = e.title
      /\ v.start_date = e.start_date /\ v.description = e.description
      /\ v.end_date = EndShown(e.end_date, "Present")
  BY <1>2
<1>5. ValidExperience(v)
  BY <1>1, <1>4 DEF ValidExperience
<1>6. SavedExperience(v) =
        [employer |-> Trim(v.employer), title |-> Trim(v.title),
         start_date |-> Trim(v.start_date), end_date |-> Trim(v.end_date),
         description |-> Trim(v.description),
         achievements |-> TrimList(v.achievements)]
  BY <1>3 DEF SavedExperience, IsExperience
<1>7. /\ Trim(v.employer) = e.employer /\ Trim(v.title) = e.title
      /\ Trim(v.description) = e.description
      /\ Trim(v.start_date) = e.start_date
      /\ Trim(v.end_date) = EndShown(e.end_date, "Present")
  BY <1>0, <1>1, <1>4, PeriodTrimmed
<1> DEFINE w == SavedExperience(v)
<1>8. /\ w.employer = e.employer /\ w.title = e.title
      /\ w.start_date = e.start_date /\ w.description = e.description
      /\ DateColumn(w.end_date, "Present") = DateColumn(e.end_date, "Present")
  BY <1>1, <1>6, <1>7
<1> HIDE DEF w
<1>9. ExperienceRow(w) = ExperienceRow(e)
  BY <1>8 DEF ExperienceRow
<1> QED
  BY <1>3, <1>5, <1>9 DEF w

-----------------------------------------------------------------------------
(* Certifications.                                                         *)

LEMMA SavedCertificationIs ==
    ASSUME NEW c \in Certification
    PROVE  SavedCertification(c) =
             [name |-> Trim(c.name), issuer |-> Trim(c.issuer),
              issue_date |-> Trim(c.issue_date),
              expiry_date |-> Trim(c.expiry_date),
              url |-> Trim(c.url), description |-> Trim(c.description)]
  BY DEF SavedCertification, Trimmed, Certification

\* Cleaning an accepted certification changes its names and its address only.
LEMMA CertificationSaved ==
    ASSUME NEW c \in Certification, ValidCertification(c),
           NEW s, s = SavedCertification(c)
    PROVE  /\ s \in Certification /\ ValidCertification(s)
           /\ SavedCertification(s) = s
<1>0. /\ c.name \in Text /\ c.issuer \in Text /\ c.issue_date \in Text
      /\ c.expiry_date \in Text /\ c.url \in Text /\ c.description \in Text
  BY DEF Certification
<1>1. s = [name |-> Trim(c.name), issuer |-> Trim(c.issuer),
           issue_date |-> Trim(c.issue_date),
           expiry_date |-> Trim(c.expiry_date),
           url |-> Trim(c.url), description |-> Trim(c.description)]
  BY SavedCertificationIs
<1>2. s \in Certification
  BY <1>0, <1>1, TrimIsText DEF Certification
<1>3. s.issue_date = c.issue_date /\ s.expiry_date = c.expiry_date
  <2>1. Period(c.issue_date, c.expiry_date, "No Expiration")
    BY DEF ValidCertification
  <2>2. Trim(c.issue_date) = c.issue_date /\ Trim(c.expiry_date) = c.expiry_date
    BY <1>0, <2>1, PeriodTrimmed
  <2> QED
    BY <1>1, <2>2
<1>4. /\ s.name = Trim(c.name) /\ s.issuer = Trim(c.issuer)
      /\ s.issue_date = Trim(c.issue_date) /\ s.url = Trim(c.url)
  BY <1>1
<1>5. ~Blank(s.name) /\ ~Blank(s.issuer) /\ ~Blank(s.issue_date)
  BY <1>0, <1>4, TrimBlank DEF ValidCertification
<1>6. OptionalUrl(s.url)
  BY <1>0, <1>4, UrlTrimmed DEF ValidCertification
<1>7. ValidCertification(s)
  BY <1>3, <1>5, <1>6 DEF ValidCertification
<1>8. SavedCertification(s) = s
  <2>1. SavedCertification(s) =
          [name |-> Trim(s.name), issuer |-> Trim(s.issuer),
           issue_date |-> Trim(s.issue_date),
           expiry_date |-> Trim(s.expiry_date),
           url |-> Trim(s.url), description |-> Trim(s.description)]
    BY <1>2, SavedCertificationIs
  <2> QED
    BY <1>0, <1>1, <2>1, TrimIsText
<1> QED
  BY <1>2, <1>7, <1>8

LEMMA CertificationRowIs ==
    ASSUME NEW c \in Certification, NEW row, row = CertificationRow(c)
    PROVE  row = [name |-> c.name, issuer |-> c.issuer,
                  issue_date |-> DateColumn(c.issue_date, ""),
                  expiry_date |-> DateColumn(c.expiry_date, "No Expiration"),
                  url |-> c.url, description |-> c.description]
  BY DEF CertificationRow, Certification

\* A stored certification is read as one that is accepted and stored alike.
LEMMA CertificationShown ==
    ASSUME NEW c \in Certification, ValidCertification(c),
           SavedCertification(c) = c,
           NEW v, v = ShownCertification(CertificationRow(c))
    PROVE  /\ v \in Certification /\ ValidCertification(v)
           /\ CertificationRow(SavedCertification(v)) = CertificationRow(c)
<1>0. /\ c.name \in Text /\ c.issuer \in Text /\ c.issue_date \in Text
      /\ c.expiry_date \in Text /\ c.url \in Text /\ c.description \in Text
  BY DEF Certification
<1> DEFINE end == EndShown(c.expiry_date, "No Expiration")
<1>1. /\ StartShown(c.issue_date) = c.issue_date
      /\ end \in Text
      /\ Period(c.issue_date, end, "No Expiration")
      /\ DateColumn(end, "No Expiration")
            = DateColumn(c.expiry_date, "No Expiration")
  BY <1>0, PeriodShown DEF ValidCertification
<1>2. v = [name |-> c.name, issuer |-> c.issuer,
           issue_date |-> c.issue_date, expiry_date |-> end,
           url |-> c.url, description |-> c.description]
  BY <1>1 DEF ShownCertification, CertificationRow, Certification, StartShown,
              EndShown
<1> HIDE DEF end
<1>3. v \in Certification
  <2>1. end \in Text
    BY <1>1
  <2> QED
    BY <1>0, <1>2, <2>1 DEF Certification
<1>4. /\ v.name = c.name /\ v.issuer = c.issuer /\ v.url = c.url
      /\ v.issue_date = c.issue_date /\ v.description = c.description
      /\ v.expiry_date = end
  BY <1>2
<1>5. ValidCertification(v)
  BY <1>1, <1>4 DEF ValidCertification
<1>6. SavedCertification(v) = v
  <2>1. /\ Trim(c.name) = c.name /\ Trim(c.issuer) = c.issuer
        /\ Trim(c.url) = c.url /\ Trim(c.description) = c.description
    BY SavedCertificationIs
  <2>2. Trim(c.issue_date) = c.issue_date /\ Trim(end) = end
    BY <1>0, <1>1, PeriodTrimmed
  <2>3. SavedCertification(v) =
          [name |-> Trim(v.name), issuer |-> Trim(v.issuer),
           issue_date |-> Trim(v.issue_date),
           expiry_date |-> Trim(v.expiry_date),
           url |-> Trim(v.url), description |-> Trim(v.description)]
    BY <1>3, SavedCertificationIs
  <2> QED
    BY <1>2, <1>4, <2>1, <2>2, <2>3
<1>7. CertificationRow(v) = CertificationRow(c)
  <2>1. CertificationRow(v) =
          [name |-> v.name, issuer |-> v.issuer,
           issue_date |-> DateColumn(v.issue_date, ""),
           expiry_date |-> DateColumn(v.expiry_date, "No Expiration"),
           url |-> v.url, description |-> v.description]
    BY <1>3, CertificationRowIs
  <2>2. CertificationRow(c) =
          [name |-> c.name, issuer |-> c.issuer,
           issue_date |-> DateColumn(c.issue_date, ""),
           expiry_date |-> DateColumn(c.expiry_date, "No Expiration"),
           url |-> c.url, description |-> c.description]
    BY CertificationRowIs
  <2> QED
    BY <1>1, <1>4, <2>1, <2>2
<1> QED
  BY <1>3, <1>5, <1>6, <1>7

-----------------------------------------------------------------------------
(* Skills.                                                                 *)

\* A category that is accepted has no blanks, and "other" stands for none.
LEMMA CategorySaved ==
    ASSUME NEW t \in Text, Given(t) => t \in {Plain(c) : c \in Categories},
           NEW s, s = IF Blank(t) THEN Plain("other") ELSE Trim(t)
    PROVE  /\ s \in Text /\ s \in {Plain(c) : c \in Categories}
           /\ ~Blank(s) /\ Trim(s) = s
<1>1. \A c \in Categories : /\ Plain(c) \in Text /\ ~Blank(Plain(c))
                            /\ Trim(Plain(c)) = Plain(c)
  BY PlainIsText, PlainParts, TrimUnpadded, CoreAssumption
     DEF Categories, Blank
<1>2. CASE Blank(t)
  BY <1>1, <1>2 DEF Categories
<1>3. CASE ~Blank(t)
  <2>1. Given(t)
    BY <1>3, PlainParts DEF Given, Blank, NoText
  <2>2. PICK c \in Categories : t = Plain(c)
    BY <2>1
  <2>3. s = Plain(c)
    BY <1>1, <1>3, <2>2
  <2> QED
    BY <1>1, <2>3
<1> QED
  BY <1>2, <1>3

LEMMA SavedSkillIs ==
    ASSUME NEW k \in Skill, NEW s, s = SavedSkill(k)
    PROVE  s = [name |-> Trim(k.name),
                category |-> IF Blank(k.category) THEN Plain("other")
                                                  ELSE Trim(k.category),
                proficiency |-> k.proficiency]
  BY DEF SavedSkill, Skill

LEMMA SkillSaved ==
    ASSUME NEW k \in Skill, ValidSkill(k), NEW s, s = SavedSkill(k)
    PROVE  /\ s \in Skill /\ ValidSkill(s) /\ SavedSkill(s) = s
           /\ s.category \in {Plain(c) : c \in Categories}
<1>0. k.name \in Text /\ k.category \in Text /\ k.proficiency \in Int
  BY DEF Skill
<1> DEFINE category == IF Blank(k.category) THEN Plain("other")
                                            ELSE Trim(k.category)
<1>1. /\ category \in Text /\ category \in {Plain(c) : c \in Categories}
      /\ ~Blank(category) /\ Trim(category) = category
  BY <1>0, CategorySaved DEF ValidSkill
<1>2. s = [name |-> Trim(k.name), category |-> category,
           proficiency |-> k.proficiency]
  BY SavedSkillIs
<1> HIDE DEF category
<1>3. s \in Skill
  BY <1>0, <1>1, <1>2, TrimIsText DEF Skill
<1>4. /\ s.name = Trim(k.name) /\ s.category = category
      /\ s.proficiency = k.proficiency
  BY <1>2
<1>5. ValidSkill(s)
  <2>1. ~Blank(s.name)
    BY <1>0, <1>4, TrimBlank DEF ValidSkill
  <2>2. s.proficiency # 0 => s.proficiency \in 1..5
    BY <1>4 DEF ValidSkill
  <2> QED
    BY <1>1, <1>4, <2>1, <2>2 DEF ValidSkill
<1>6. SavedSkill(s) = s
  <2>1. SavedSkill(s) = [name |-> Trim(s.name),
                         category |-> IF Blank(s.category) THEN Plain("other")
                                                           ELSE Trim(s.category),
                         proficiency |-> s.proficiency]
    BY <1>3, SavedSkillIs
  <2>2. Trim(s.name) = s.name
    BY <1>0, <1>4, TrimIsText
  <2> QED
    BY <1>1, <1>2, <1>4, <2>1, <2>2
<1> QED
  BY <1>1, <1>3, <1>4, <1>5, <1>6

LEMMA SkillShown ==
    ASSUME NEW k \in Skill, ValidSkill(k), SavedSkill(k) = k,
           NEW v, v = ShownSkill(SkillRow(k))
    PROVE  v = k
<1>0. k = [name |-> k.name, category |-> k.category,
           proficiency |-> k.proficiency]
  BY DEF Skill
<1>1. SkillRow(k) = [name |-> k.name, category |-> k.category,
                     proficiency |-> IF k.proficiency = 0 THEN {}
                                                          ELSE {k.proficiency}]
  BY DEF SkillRow, Skill
<1>2. \A n : (CHOOSE m \in {n} : TRUE) = n
  OBVIOUS
<1>3. v = [name |-> k.name, category |-> k.category,
           proficiency |-> k.proficiency]
  BY <1>1, <1>2 DEF ShownSkill
<1> QED
  BY <1>0, <1>3

-----------------------------------------------------------------------------
(* Projects.                                                               *)

LEMMA OptionalDateTrimmed ==
    ASSUME NEW t \in Text, OptionalDate(t)
    PROVE  Trim(t) = t
<1>1. t = NoText \/ t = Plain("Present") \/ Parses(t)
  BY Zenon DEF OptionalDate, Given
<1>2. t.pad = "none"
  BY <1>1, PlainParts DEF Parses, NoText
<1> QED
  BY <1>2, TrimUnpadded

\* A date of a project, written out with word for none and read again.
LEMMA OptionalDateShown ==
    ASSUME NEW t \in Text, OptionalDate(t), NEW word \in {"", "Present"},
           NEW u, u = DateText(DateColumn(t, "Present"), word)
    PROVE  /\ u \in Text /\ OptionalDate(u)
           /\ DateColumn(u, "Present") = DateColumn(t, "Present")
           /\ u = t \/ u = Plain(word)
<1>1. CASE t = NoText \/ t = Plain("Present")
  <2>1. u = Plain(word) /\ DateColumn(t, "Present") = {}
    BY <1>1, NoEndShown
  <2>2. Plain(word) \in Text
    BY PlainIsText, CoreAssumption
  <2>3. OptionalDate(Plain(word)) /\ DateColumn(Plain(word), "Present") = {}
    BY DEF OptionalDate, Given, NoText, DateColumn
  <2> QED
    BY <2>1, <2>2, <2>3
<1>2. CASE Parses(t)
  <2>1. u = t
    BY <1>2, DayShown
  <2> QED
    BY <2>1
<1>3. t = NoText \/ t = Plain("Present") \/ Parses(t)
  BY Zenon DEF OptionalDate, Given
<1> QED
  BY <1>1, <1>2, <1>3

LEMMA SavedProjectIs ==
    ASSUME NEW p, IsProjectDocument(p)
    PROVE  SavedProject(p) =
             [name |-> Trim(p.name), repo_url |-> Trim(p.repo_url),
              start_date |-> Trim(p.start_date), end_date |-> Trim(p.end_date),
              description |-> Trim(p.description),
              technologies |-> TrimList(p.technologies)]
  BY DEF SavedProject, IsProjectDocument

\* Cleaning an accepted project leaves its dates as they are.
LEMMA ProjectSaved ==
    ASSUME NEW p, IsProjectDocument(p), ValidProject(p),
           NEW s, s = SavedProject(p)
    PROVE  /\ IsProjectDocument(s) /\ ValidProject(s)
           /\ Trim(s.name) = s.name /\ Trim(s.repo_url) = s.repo_url
           /\ Trim(s.description) = s.description
<1>0. /\ p.name \in Text /\ p.repo_url \in Text /\ p.start_date \in Text
      /\ p.end_date \in Text /\ p.description \in Text
      /\ IsList(p.technologies)
  BY DEF IsProjectDocument
<1>1. s = [name |-> Trim(p.name), repo_url |-> Trim(p.repo_url),
           start_date |-> Trim(p.start_date), end_date |-> Trim(p.end_date),
           description |-> Trim(p.description),
           technologies |-> TrimList(p.technologies)]
  BY SavedProjectIs
<1>2. IsProjectDocument(s)
  BY <1>0, <1>1, TrimIsText, ListTrimmed DEF IsProjectDocument
<1>3. s.start_date = p.start_date /\ s.end_date = p.end_date
  <2>1. OptionalDate(p.start_date) /\ OptionalDate(p.end_date)
    BY DEF ValidProject
  <2>2. Trim(p.start_date) = p.start_date /\ Trim(p.end_date) = p.end_date
    BY <1>0, <2>1, OptionalDateTrimmed
  <2> QED
    BY <1>1, <2>2
<1>4. /\ s.name = Trim(p.name) /\ s.repo_url = Trim(p.repo_url)
      /\ s.description = Trim(p.description)
  BY <1>1
<1>5. ~Blank(s.name)
  BY <1>0, <1>4, TrimBlank DEF ValidProject
<1>6. OptionalUrl(s.repo_url)
  BY <1>0, <1>4, UrlTrimmed DEF ValidProject
<1>7. ValidProject(s)
  BY <1>3, <1>5, <1>6 DEF ValidProject
<1> QED
  BY <1>0, <1>2, <1>4, <1>7, TrimIsText

\* A stored project is read, with whatever technologies, as one that is
\* accepted and stored alike.
LEMMA ProjectShown ==
    ASSUME NEW p, IsProjectDocument(p), ValidProject(p),
           Trim(p.name) = p.name, Trim(p.repo_url) = p.repo_url,
           Trim(p.description) = p.description,
           NEW technologies, IsList(technologies),
           NEW v, v = ShownProject(ProjectRow(p), technologies)
    PROVE  /\ IsProjectDocument(v) /\ ValidProject(v)
           /\ ProjectRow(SavedProject(v)) = ProjectRow(p)
<1>0. /\ p.name \in Text /\ p.repo_url \in Text /\ p.start_date \in Text
      /\ p.end_date \in Text /\ p.description \in Text
  BY DEF IsProjectDocument
<1> DEFINE start == DateText(DateColumn(p.start_date, "Present"), "")
           end == DateText(DateColumn(p.end_date, "Present"), "Present")
<1>1. /\ start \in Text /\ OptionalDate(start)
      /\ DateColumn(start, "Present") = DateColumn(p.start_date, "Present")
      /\ start = p.start_date \/ start = NoText
  <2>1. OptionalDate(p.start_date)
    BY DEF ValidProject
  <2> QED
    BY <1>0, <2>1, OptionalDateShown DEF NoText
<1>2. /\ end \in Text /\ OptionalDate(end)
      /\ DateColumn(end, "Present") = DateColumn(p.end_date, "Present")
      /\ end = p.end_date \/ end = Plain("Present")
  <2>1. OptionalDate(p.end_date)
    BY DEF ValidProject
  <2> QED
    BY <1>0, <2>1, OptionalDateShown
<1>3. v = [name |-> p.name, repo_url |-> p.repo_url,
           start_date |-> start, end_date |-> end,
           description |-> p.description, technologies |-> technologies]
  BY DEF ShownProject, ProjectRow
<1> HIDE DEF start, end
<1>4. IsProjectDocument(v)
  <2>1. start \in Text /\ end \in Text
    BY <1>1, <1>2
  <2> QED
    BY <1>0, <1>3, <2>1 DEF IsProjectDocument
<1>5. /\ v.name = p.name /\ v.repo_url = p.repo_url
      /\ v.start_date = start /\ v.end_date = end
      /\ v.description = p.description
  BY <1>3
<1>6. ProjectRange(start, end)
  <2>1. ProjectRange(p.start_date, p.end_date)
    BY DEF ValidProject
  <2>2. ~Given(NoText)
    BY DEF Given
  <2> QED
    BY <1>1, <1>2, <2>1, <2>2 DEF ProjectRange, Given
<1>7. ValidProject(v)
  BY <1>1, <1>2, <1>5, <1>6 DEF ValidProject
<1> DEFINE w == SavedProject(v)
<1>8. w = [name |-> Trim(v.name), repo_url |-> Trim(v.repo_url),
           start_date |-> Trim(v.start_date), end_date |-> Trim(v.end_date),
           description |-> Trim(v.description),
           technologies |-> TrimList(v.technologies)]
  BY <1>4, SavedProjectIs
<1> HIDE DEF w
<1>9. Trim(start) = start /\ Trim(end) = end
  BY <1>1, <1>2, OptionalDateTrimmed
<1>10. /\ w.name = p.name /\ w.repo_url = p.repo_url
       /\ w.description = p.description
       /\ DateColumn(w.start_date, "Present") = DateColumn(p.start_date, "Present")
       /\ DateColumn(w.end_date, "Present") = DateColumn(p.end_date, "Present")
  BY <1>1, <1>2, <1>5, <1>8, <1>9
<1>11. ProjectRow(w) = ProjectRow(p)
  BY <1>10 DEF ProjectRow
<1> QED
  BY <1>4, <1>7, <1>11 DEF w

-----------------------------------------------------------------------------
(* Personal information.                                                   *)

LEMMA PersonalInfoSaved ==
    ASSUME NEW p \in PersonalInfo, ValidPersonalInfo(p),
           NEW s, s = SavedPersonalInfo(p)
    PROVE  s \in PersonalInfo /\ ValidPersonalInfo(s)
<1>0. /\ p.first_name \in Text /\ p.last_name \in Text /\ p.email \in Text
      /\ p.phone \in Text /\ p.street \in Text /\ p.city \in Text
      /\ p.country \in Text /\ p.job_title \in Text
  BY DEF PersonalInfo
<1>1. s = [first_name |-> Trim(p.first_name), last_name |-> Trim(p.last_name),
           email |-> Trim(p.email), phone |-> Trim(p.phone),
           street |-> Trim(p.street), city |-> Trim(p.city),
           country |-> Trim(p.country), job_title |-> Trim(p.job_title)]
  BY DEF SavedPersonalInfo, Trimmed, PersonalInfo
<1>2. s \in PersonalInfo
  BY <1>0, <1>1, TrimIsText DEF PersonalInfo
<1>3. /\ s.first_name = Trim(p.first_name) /\ s.last_name = Trim(p.last_name)
      /\ s.email = Trim(p.email) /\ s.phone = Trim(p.phone)
      /\ s.street = Trim(p.street) /\ s.city = Trim(p.city)
      /\ s.country = Trim(p.country)
  BY <1>1
<1>4. \A t \in Text : Given(Trim(t)) => Given(t)
  BY TrimUnpadded, PlainParts DEF Given, NoText
<1>5. /\ ~Blank(s.first_name) /\ ~Blank(s.last_name) /\ ~Blank(s.email)
  BY <1>0, <1>3, TrimBlank DEF ValidPersonalInfo
<1>6. s.email.pad = "none" /\ s.email.core \in Email
  BY <1>0, <1>3, TrimIsText DEF ValidPersonalInfo
<1>7. Given(s.phone) => s.phone.pad = "none" /\ s.phone.core \in Phone
  BY <1>0, <1>3, <1>4, TrimIsText DEF ValidPersonalInfo
<1>8. ValidAddress(s)
  <2>1. ValidAddress(p)
    BY DEF ValidPersonalInfo
  <2> QED
    BY <1>0, <1>3, <1>4, <2>1, TrimBlank DEF ValidAddress
<1> QED
  BY <1>2, <1>5, <1>6, <1>7, <1>8 DEF ValidPersonalInfo

-----------------------------------------------------------------------------
(* Cleaned twice.                                                          *)

LEMMA EducationTwice ==
    ASSUME NEW e \in Education, NEW s, s = SavedEducation(e)
    PROVE  s \in Education /\ SavedEducation(s) = s
<1>0. /\ e.institution \in Text /\ e.degree \in Text /\ e.start_date \in Text
      /\ e.end_date \in Text /\ e.description \in Text
  BY DEF Education
<1>1. s = [institution |-> Trim(e.institution), degree |-> Trim(e.degree),
           start_date |-> Trim(e.start_date), end_date |-> Trim(e.end_date),
           description |-> Trim(e.description)]
  BY DEF SavedEducation, Trimmed, Education
<1>2. s \in Education
  BY <1>0, <1>1, TrimIsText DEF Education
<1>3. SavedEducation(s) =
        [institution |-> Trim(Trim(e.institution)),
         degree |-> Trim(Trim(e.degree)),
         start_date |-> Trim(Trim(e.start_date)),
         end_date |-> Trim(Trim(e.end_date)),
         description |-> Trim(Trim(e.description))]
  BY <1>1 DEF SavedEducation, Trimmed
<1> QED
  BY <1>0, <1>1, <1>2, <1>3, TrimIsText

LEMMA CertificationTwice ==
    ASSUME NEW c \in Certification, NEW s, s = SavedCertification(c)
    PROVE  s \in Certification /\ SavedCertification(s) = s
<1>0. /\ c.name \in Text /\ c.issuer \in Text /\ c.issue_date \in Text
      /\ c.expiry_date \in Text /\ c.url \in Text /\ c.description \in Text
  BY DEF Certification
<1>1. s = [name |-> Trim(c.name), issuer |-> Trim(c.issuer),
           issue_date |-> Trim(c.issue_date),
           expiry_date |-> Trim(c.expiry_date),
           url |-> Trim(c.url), description |-> Trim(c.description)]
  BY SavedCertificationIs
<1>2. s \in Certification
  BY <1>0, <1>1, TrimIsText DEF Certification
<1>3. SavedCertification(s) =
        [name |-> Trim(s.name), issuer |-> Trim(s.issuer),
         issue_date |-> Trim(s.issue_date),
         expiry_date |-> Trim(s.expiry_date),
         url |-> Trim(s.url), description |-> Trim(s.description)]
  BY <1>2, SavedCertificationIs
<1> QED
  BY <1>0, <1>1, <1>2, <1>3, TrimIsText

LEMMA SkillTwice ==
    ASSUME NEW k \in Skill, NEW s, s = SavedSkill(k)
    PROVE  s \in Skill /\ SavedSkill(s) = s
<1>0. k.name \in Text /\ k.category \in Text /\ k.proficiency \in Int
  BY DEF Skill
<1> DEFINE category == IF Blank(k.category) THEN Plain("other")
                                            ELSE Trim(k.category)
<1>1. category \in Text /\ ~Blank(category) /\ Trim(category) = category
  <2>1. CASE Blank(k.category)
    BY <2>1, PlainIsText, PlainParts, TrimUnpadded, CoreAssumption
       DEF Categories, Blank
  <2>2. CASE ~Blank(k.category)
    BY <1>0, <2>2, TrimIsText, TrimBlank
  <2> QED
    BY <2>1, <2>2
<1>2. s = [name |-> Trim(k.name), category |-> category,
           proficiency |-> k.proficiency]
  BY SavedSkillIs
<1> HIDE DEF category
<1>3. s \in Skill
  BY <1>0, <1>1, <1>2, TrimIsText DEF Skill
<1>4. SavedSkill(s) = [name |-> Trim(s.name),
                       category |-> IF Blank(s.category) THEN Plain("other")
                                                         ELSE Trim(s.category),
                       proficiency |-> s.proficiency]
  BY <1>3, SavedSkillIs
<1>5. Trim(s.name) = s.name /\ s.category = category
  BY <1>0, <1>2, TrimIsText
<1> QED
  BY <1>1, <1>2, <1>3, <1>4, <1>5

LEMMA ExperienceTwice ==
    ASSUME NEW e, IsExperience(e), NEW s, s = SavedExperience(e)
    PROVE  /\ IsExperience(s)
           /\ ExperienceRow(SavedExperience(s)) = ExperienceRow(s)
<1>0. /\ e.employer \in Text /\ e.title \in Text /\ e.start_date \in Text
      /\ e.end_date \in Text /\ e.description \in Text
      /\ IsList(e.achievements)
  BY DEF IsExperience
<1>1. s = [employer |-> Trim(e.employer), title |-> Trim(e.title),
           start_date |-> Trim(e.start_date), end_date |-> Trim(e.end_date),
           description |-> Trim(e.description),
           achievements |-> TrimList(e.achievements)]
  BY DEF SavedExperience, IsExperience
<1>2. IsExperience(s)
  BY <1>0, <1>1, TrimIsText, ListTrimmed DEF IsExperience
<1>3. /\ s.employer = Trim(e.employer) /\ s.title = Trim(e.title)
      /\ s.start_date = Trim(e.start_date) /\ s.end_date = Trim(e.end_date)
      /\ s.description = Trim(e.description)
  BY <1>1
<1>4. /\ Trim(s.employer) = s.employer /\ Trim(s.title) = s.title
      /\ Trim(s.start_date) = s.start_date /\ Trim(s.end_date) = s.end_date
      /\ Trim(s.description) = s.description
  BY <1>0, <1>3, TrimIsText
<1>5. SavedExperience(s) =
        [employer |-> Trim(s.employer), title |-> Trim(s.title),
         start_date |-> Trim(s.start_date), end_date |-> Trim(s.end_date),
         description |-> Trim(s.description),
         achievements |-> TrimList(s.achievements)]
  BY <1>2 DEF SavedExperience, IsExperience
<1> QED
  BY <1>2, <1>4, <1>5 DEF ExperienceRow

LEMMA ProjectTwice ==
    ASSUME NEW p, IsProjectDocument(p), NEW s, s = SavedProject(p)
    PROVE  /\ IsProjectDocument(s)
           /\ ProjectRow(SavedProject(s)) = ProjectRow(s)
<1>0. /\ p.name \in Text /\ p.repo_url \in Text /\ p.start_date \in Text
      /\ p.end_date \in Text /\ p.description \in Text
      /\ IsList(p.technologies)
  BY DEF IsProjectDocument
<1>1. s = [name |-> Trim(p.name), repo_url |-> Trim(p.repo_url),
           start_date |-> Trim(p.start_date), end_date |-> Trim(p.end_date),
           description |-> Trim(p.description),
           technologies |-> TrimList(p.technologies)]
  BY SavedProjectIs
<1>2. IsProjectDocument(s)
  BY <1>0, <1>1, TrimIsText, ListTrimmed DEF IsProjectDocument
<1>3. /\ s.name = Trim(p.name) /\ s.repo_url = Trim(p.repo_url)
      /\ s.start_date = Trim(p.start_date) /\ s.end_date = Trim(p.end_date)
      /\ s.description = Trim(p.description)
  BY <1>1
<1>4. /\ Trim(s.name) = s.name /\ Trim(s.repo_url) = s.repo_url
      /\ Trim(s.start_date) = s.start_date /\ Trim(s.end_date) = s.end_date
      /\ Trim(s.description) = s.description
  BY <1>0, <1>3, TrimIsText
<1>5. SavedProject(s) =
        [name |-> Trim(s.name), repo_url |-> Trim(s.repo_url),
         start_date |-> Trim(s.start_date), end_date |-> Trim(s.end_date),
         description |-> Trim(s.description),
         technologies |-> TrimList(s.technologies)]
  BY <1>2, SavedProjectIs
<1> QED
  BY <1>2, <1>4, <1>5 DEF ProjectRow

-----------------------------------------------------------------------------
(* All kinds.                                                              *)

LEMMA ByKind ==
    ASSUME NEW d
    PROVE  /\ BeforeSave("education", d) = SavedEducation(d)
           /\ BeforeSave("experience", d) = SavedExperience(d)
           /\ BeforeSave("certifications", d) = SavedCertification(d)
           /\ BeforeSave("skills", d) = SavedSkill(d)
           /\ BeforeSave("projects", d) = SavedProject(d)
           /\ BeforeSave("personal_info", d) = SavedPersonalInfo(d)
           /\ ToRow("education", d) = EducationRow(d)
           /\ ToRow("experience", d) = ExperienceRow(d)
           /\ ToRow("certifications", d) = CertificationRow(d)
           /\ ToRow("skills", d) = SkillRow(d)
           /\ ToRow("projects", d) = ProjectRow(d)
  BY DEF BeforeSave, ToRow

LEMMA ShownByKind ==
    ASSUME NEW row, NEW technologies
    PROVE  /\ FromRow("education", row, technologies) = ShownEducation(row)
           /\ FromRow("experience", row, technologies) = ShownExperience(row)
           /\ FromRow("certifications", row, technologies)
                = ShownCertification(row)
           /\ FromRow("skills", row, technologies) = ShownSkill(row)
           /\ FromRow("projects", row, technologies)
                = ShownProject(row, technologies)
  BY DEF FromRow

LEMMA KindOfDocument ==
    ASSUME NEW d
    PROVE  /\ IsDocument("education", d) <=> d \in Education
           /\ IsDocument("experience", d) <=> IsExperience(d)
           /\ IsDocument("certifications", d) <=> d \in Certification
           /\ IsDocument("skills", d) <=> d \in Skill
           /\ IsDocument("projects", d) <=> IsProjectDocument(d)
           /\ IsDocument("personal_info", d) <=> d \in PersonalInfo
           /\ Validate("education", d) <=> ValidEducation(d)
           /\ Validate("experience", d) <=> ValidExperience(d)
           /\ Validate("certifications", d) <=> ValidCertification(d)
           /\ Validate("skills", d) <=> ValidSkill(d)
           /\ Validate("projects", d) <=> ValidProject(d)
           /\ Validate("personal_info", d) <=> ValidPersonalInfo(d)
  BY DEF IsDocument, Validate

\* A document that is accepted, as the handlers do before it is cleaned, is
\* accepted again after it has been cleaned, as the repository does: Validate
\* does not depend on what BeforeSave changes.
THEOREM AcceptedAgain ==
    ASSUME NEW k \in Kinds, NEW d, IsDocument(k, d), Validate(k, d)
    PROVE  IsDocument(k, BeforeSave(k, d)) /\ Validate(k, BeforeSave(k, d))
<1>1. CASE k = "education"
  BY <1>1, EducationSaved, ByKind, KindOfDocument
<1>2. CASE k = "experience"
  BY <1>2, ExperienceSaved, ByKind, KindOfDocument
<1>3. CASE k = "certifications"
  BY <1>3, CertificationSaved, ByKind, KindOfDocument
<1>4. CASE k = "skills"
  BY <1>4, SkillSaved, ByKind, KindOfDocument
<1>5. CASE k = "projects"
  BY <1>5, ProjectSaved, ByKind, KindOfDocument
<1>6. CASE k = "personal_info"
  BY <1>6, PersonalInfoSaved, ByKind, KindOfDocument
<1> QED
  BY <1>1, <1>2, <1>3, <1>4, <1>5, <1>6 DEF Kinds, EntryKinds

\* BeforeSave changes nothing of what it has cleaned that has a column.
LEMMA CleanedTwice ==
    ASSUME NEW k \in EntryKinds, NEW d, IsDocument(k, d),
           NEW s, s = BeforeSave(k, d)
    PROVE  IsDocument(k, s) /\ ToRow(k, BeforeSave(k, s)) = ToRow(k, s)
<1>1. CASE k = "education"
  BY <1>1, EducationTwice, ByKind, KindOfDocument
<1>2. CASE k = "experience"
  BY <1>2, ExperienceTwice, ByKind, KindOfDocument
<1>3. CASE k = "certifications"
  BY <1>3, CertificationTwice, ByKind, KindOfDocument
<1>4. CASE k = "skills"
  BY <1>4, SkillTwice, ByKind, KindOfDocument
<1>5. CASE k = "projects"
  BY <1>5, ProjectTwice, ByKind, KindOfDocument
<1> QED
  BY <1>1, <1>2, <1>3, <1>4, <1>5 DEF EntryKinds

\* What is read from the row of a document, NULL columns written out as words,
\* is accepted when it is sent back, and stored in the same row.
THEOREM StoredReadBack ==
    ASSUME NEW k \in EntryKinds, NEW d, IsDocument(k, d), Validate(k, d),
           NEW technologies, IsList(technologies),
           NEW row, row = ToRow(k, BeforeSave(k, d)),
           NEW v, v = FromRow(k, row, technologies)
    PROVE  Validate(k, v) /\ ToRow(k, BeforeSave(k, v)) = row
<1>1. CASE k = "education"
  BY <1>1, EducationSaved, EducationShown, ByKind, ShownByKind, KindOfDocument
<1>2. CASE k = "experience"
  BY <1>2, ExperienceSaved, ExperienceShown, ByKind, ShownByKind,
     KindOfDocument
<1>3. CASE k = "certifications"
  BY <1>3, CertificationSaved, CertificationShown, ByKind, ShownByKind,
     KindOfDocument
<1>4. CASE k = "skills"
  BY <1>4, SkillSaved, SkillShown, ByKind, ShownByKind, KindOfDocument
<1>5. CASE k = "projects"
  BY <1>5, ProjectSaved, ProjectShown, ByKind, ShownByKind, KindOfDocument
<1> QED
  BY <1>1, <1>2, <1>3, <1>4, <1>5 DEF EntryKinds

=============================================================================
