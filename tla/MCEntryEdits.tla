---------------------------- MODULE MCEntryEdits ----------------------------
(***************************************************************************)
(* Small instances of EntryEdits.  The documents vary a good one in one    *)
(* text, or in both dates.                                                 *)
(***************************************************************************)
EXTENDS EntryEdits

MCCore == {"", "x", "go", "sql", "host", "host/p", "a@b", "2020", "2021",
           "Present", "No Expiration"} \cup Categories

MCDay == {"2020", "2021"}

MCOrder == [d \in MCDay |-> IF d = "2020" THEN 2020 ELSE 2021]

Pad(core, pad) == [core |-> core, pad |-> pad]

GoodEducation ==
    [institution |-> Plain("x"), degree |-> Plain("x"),
     start_date |-> Plain("2021"), end_date |-> NoText,
     description |-> Pad("x", "after")]

Educations ==
    {[GoodEducation EXCEPT !.institution = Pad("", "after")],
     [GoodEducation EXCEPT !.degree = Pad("x", "before"),
                           !.end_date = Plain("Present")],
     [GoodEducation EXCEPT !.end_date = Plain("2020")],
     [GoodEducation EXCEPT !.end_date = Pad("2021", "after")]}

Experiences ==
    {[employer |-> Plain("x"), title |-> t, start_date |-> Plain("2021"),
      end_date |-> Plain("2021"), description |-> NoText,
      achievements |-> [i \in {1} |-> Plain("x")]] :
        t \in {Pad("x", "after"), Pad("", "before")}}

GoodCertification ==
    [name |-> Plain("x"), issuer |-> Plain("x"), issue_date |-> Plain("2020"),
     expiry_date |-> Plain("No Expiration"), url |-> NoText,
     description |-> NoText]

Certifications ==
    {[GoodCertification EXCEPT !.url = Pad("host/p", "after")],
     [GoodCertification EXCEPT !.url = Pad("", "before")],
     [GoodCertification EXCEPT !.url = Pad("host", "after"),
                               !.expiry_date = Plain("Present")]}

Skills ==
    {[name |-> Pad("x", "after"), category |-> NoText, proficiency |-> 0],
     [name |-> Plain("x"), category |-> Pad("", "after"), proficiency |-> 5],
     [name |-> Plain("x"), category |-> Plain("tool"), proficiency |-> 6]}

\* The second has a start that is not a date, so that its range is tested with
\* the zero time, and one technology that is blank.
Projects ==
    {[name |-> Plain("x"), repo_url |-> NoText, start_date |-> NoText,
      end_date |-> NoText, description |-> NoText,
      technologies |-> [i \in {1, 2} |-> IF i = 1 THEN Plain("go")
                                                  ELSE Plain("sql")]],
     [name |-> Pad("x", "before"), repo_url |-> Plain("host"),
      start_date |-> Plain("Present"), end_date |-> Plain("2020"),
      description |-> NoText,
      technologies |-> [i \in {1, 2} |-> IF i = 1 THEN Pad("", "after")
                                                  ELSE Pad("go", "after")]]}

Infos ==
    {[first_name |-> Pad("x", "before"), last_name |-> Plain("x"),
      email |-> Pad("a@b", p), phone |-> NoText, street |-> Plain("x"),
      city |-> c, country |-> Pad("x", "after"), job_title |-> NoText] :
        p \in {"none", "after"}, c \in {Plain("x"), Pad("", "before")}}

MCDrafts == [education |-> Educations, experience |-> Experiences,
             certifications |-> Certifications, skills |-> Skills,
             projects |-> Projects, personal_info |-> Infos]

MCNames == {Plain("go")}
=============================================================================
