----------------------------- MODULE ImportRows -----------------------------
(***************************************************************************)
(* What the rows of an uploaded file do to the database: which of them a   *)
(* parser accepts (ImportParser.parse) and what a committer writes for     *)
(* them (ImportCommitter.commit), for the seven kinds of file.             *)
(*                                                                         *)
(* The database is a function from cells <<column, key, ...>> to values; a *)
(* row exists when its first column is not None.  A committer reads its    *)
(* maps once and keeps them in step with its own writes, so its effect is  *)
(* a function from what it read to a set of writes.                        *)
(***************************************************************************)
EXTENDS Integers, SequencesExt

CONSTANTS
  Students, Subjects, Sections, Lecturers, Departments, Majors, Classes,
  AdminClasses,  \* the codes parseClassCode calls ADMIN; the others are SECTION
  ClassMajor,    \* classMajorRule of an ADMIN class's prefix, or None
  MajorDept,     \* the department of each major
  HomeDept,      \* the department an unknown subject is given by its prefix or by default
  CodeTaken,     \* lecturers whose staff code another account has
  None

ASSUME RowsAssumption ==
  /\ AdminClasses \subseteq Classes
  /\ ClassMajor \in [AdminClasses -> Majors \cup {None}]
  /\ MajorDept \in [Majors -> Departments]
  /\ HomeDept \in [Subjects -> Departments \cup {None}]
  /\ CodeTaken \subseteq Lecturers
  /\ None \notin Classes

StudentColumns == {"class", "major", "dept", "status"}
EnrollmentColumns == {"result", "score", "banned", "absent"}

Cells ==
  (StudentColumns \X Students)
    \cup (EnrollmentColumns \X Students \X Sections)
    \cup ({"subject", "rate"} \X Subjects)      \* "subject" is the department
    \cup ({"section", "lecturer"} \X Sections)  \* "section" is the subject
    \cup ({"staff", "home"} \X Lecturers)       \* "home" is the department

\* The columns whose rows a create may find taken (unique keys).
Keys == ({"class"} \X Students) \cup ({"result"} \X Students \X Sections) \cup ({"subject"} \X Subjects)
          \cup ({"section"} \X Sections) \cup ({"staff"} \X Lecturers)

Nothing == [c \in {} |-> None]
c := v == [x \in {c} |-> v]
\* The writes of f over those of g.
f ++ g == [x \in DOMAIN f \cup DOMAIN g |-> IF x \in DOMAIN f THEN f[x] ELSE g[x]]
When(condition, writes) == IF condition THEN writes ELSE Nothing
Overwrite(db, writes) == [c \in DOMAIN db |-> IF c \in DOMAIN writes THEN writes[c] ELSE db[c]]

-----------------------------------------------------------------------------
(* Parsers                                                                 *)

Maybe(S) == {None} \cup S

\* What the cells of a row say once they are read; the subject and the section of a
\* gradebook are those of the file.
FileRow(kind) ==
  CASE kind = "CATALOG" -> [subject : Maybe(Subjects), dept : Maybe(Departments), rate : Maybe(Nat)]
    [] kind = "LECTURER" -> [lecturer : Maybe(Lecturers), dept : Maybe(Departments)]
    [] kind \in {"SECTION_LIST", "SCHEDULE"} ->
         [subject : Maybe(Subjects), alt : Maybe(Subjects), section : Maybe(Sections), lecturer : Maybe(Lecturers)]
    [] kind = "ROSTER" ->
         [student : Maybe(Students), class : Maybe(Classes), major : Maybe(Majors),
          subject : Maybe(Subjects), section : Maybe(Sections), status : Maybe(STRING)]
    [] kind = "GRADEBOOK" ->
         [student : Maybe(Students), class : Maybe(Classes), subject : Subjects, section : Sections,
          score : Maybe(Nat), label : Maybe(STRING)]
    [] kind = "GRADE_ATTENDANCE" ->
         [student : Maybe(Students), subject : Maybe(Subjects), section : Maybe(Sections),
          score : Maybe(Nat), label : Maybe(STRING), absent : Maybe(Nat), rate : Maybe(Nat)]

Kinds == {"CATALOG", "LECTURER", "SECTION_LIST", "SCHEDULE", "ROSTER", "GRADEBOOK", "GRADE_ATTENDANCE"}

Required(kind) ==
  CASE kind = "CATALOG" -> {"subject"}
    [] kind = "LECTURER" -> {"lecturer"}
    [] kind \in {"SECTION_LIST", "SCHEDULE"} -> {"section", "subject"}
    [] kind = "ROSTER" -> {"student", "class", "section", "subject"}
    [] kind = "GRADEBOOK" -> {"student", "class"}
    [] kind = "GRADE_ATTENDANCE" -> {"student", "section", "subject"}

\* STATUS_BY_LABEL and resultFromLabel.
ResultOf ==
  [passed |-> "PASS", studying |-> "IN_PROGRESS", failed |-> "FAIL", attendance_failed |-> "FAIL"]

Repeats(kind, rows, i) ==
  \E j \in 1..(i - 1) :
    \/ kind = "CATALOG" /\ rows[j].subject = rows[i].subject
    \/ kind = "LECTURER" /\ rows[j].lecturer = rows[i].lecturer

Accepted(kind, rows, i) ==
  /\ \A f \in Required(kind) : rows[i][f] # None
  /\ ~Repeats(kind, rows, i)
  /\ kind = "GRADEBOOK" /\ rows[i].score # None => rows[i].score \in 0..10
  /\ kind = "GRADE_ATTENDANCE" => rows[i].label \in DOMAIN ResultOf \cup {None}

\* The numbers of the rows without an error.
ValidRows(kind, rows) == {i \in DOMAIN rows : Accepted(kind, rows, i)}

-----------------------------------------------------------------------------
(* Committers                                                              *)

CatalogRow(db, r) ==
  When(r.dept # None, (<<"subject", r.subject>> := r.dept) ++ (<<"rate", r.subject>> := r.rate))

LecturerRow(db, r) ==
  LET staff == <<"staff", r.lecturer>>
      home == <<"home", r.lecturer>>
  IN
  IF db[staff] # None
    THEN When(r.dept # None /\ db[home] = None, home := r.dept)
    ELSE When(r.lecturer \notin CodeTaken, (staff := "in") ++ (home := r.dept))

NewSection(k, j, t) == (<<"section", k>> := j) ++ (<<"lecturer", k>> := t)

\* The section list and the schedule: acc has the writes, the section codes seen
\* in this file and the subjects that conversion codes stand for.
SectionRow(db, acc, r) ==
  LET seen == acc.writes ++ db
      known(j) == j # None /\ (j \in DOMAIN acc.alias \/ seen[<<"subject", j>>] # None)
      subjectOf(j) == IF j \in DOMAIN acc.alias THEN acc.alias[j] ELSE j
      creates == ~known(r.subject) /\ ~known(r.alt) /\ HomeDept[r.subject] # None
      subject == CASE known(r.subject) -> subjectOf(r.subject)
                   [] ~known(r.subject) /\ known(r.alt) -> subjectOf(r.alt)
                   [] creates -> r.subject
                   [] OTHER -> None
      teacher == IF r.lecturer # None /\ seen[<<"staff", r.lecturer>>] # None THEN r.lecturer ELSE None
      stored == subject # None /\ r.section \notin acc.done
  IN
  [ writes |-> When(creates, (<<"subject", r.subject>> := HomeDept[r.subject]) ++ (<<"rate", r.subject>> := None))
               ++ When(stored, NewSection(r.section, subject, teacher)) ++ acc.writes,
    done |-> IF stored THEN acc.done \cup {r.section} ELSE acc.done,
    alias |-> (IF subject = None THEN Nothing
                ELSE (r.subject := subject) ++ When(creates /\ r.alt # None, r.alt := subject)) ++ acc.alias ]

Enrolls(s, k, score, result, banned, absent) ==
  (<<"score", s, k>> := score) ++ (<<"result", s, k>> := result)
    ++ (<<"banned", s, k>> := banned) ++ (<<"absent", s, k>> := absent)

\* Mutant: the class code of the file is always newer.
AnyClass(db, s, class) == class # db[<<"class", s>>]

\* diffStudent: an ADMIN class code takes the place of another kind.
BetterClass(db, s, class) == class \in AdminClasses /\ db[<<"class", s>>] \notin AdminClasses

\* Mutant: the department is left as it was.
FillsMajorOnly(db, s, major) ==
  When(db[<<"major", s>>] = None /\ major # None, <<"major", s>> := major)

\* diffStudent: a major is filled in together with its department.
FillsMajor(db, s, major) ==
  When(db[<<"major", s>>] = None /\ major # None,
       (<<"major", s>> := major) ++ (<<"dept", s>> := MajorDept[major]))

RosterRow(db, r) ==
  LET s == r.student
      k == r.section
      taught == db[<<"section", k>>]
      fallback == IF r.major # None THEN MajorDept[r.major] ELSE HomeDept[r.subject]
      dept == CASE db[<<"subject", r.subject>>] # None -> db[<<"subject", r.subject>>]
                [] db[<<"subject", r.subject>>] = None /\ taught # None -> db[<<"subject", taught>>]
                [] OTHER -> fallback
      isNew == db[<<"class", s>>] = None
      student ==
        IF isNew
          THEN (<<"class", s>> := r.class) ++ (<<"major", s>> := r.major)
                 ++ (<<"dept", s>> := IF r.major # None THEN MajorDept[r.major] ELSE dept)
                 ++ (<<"status", s>> := IF r.status = None THEN "STUDYING" ELSE r.status)
          ELSE FillsMajor(db, s, r.major)
                 ++ When(BetterClass(db, s, r.class), <<"class", s>> := r.class)
                 ++ When(r.status # None, <<"status", s>> := r.status)
  IN
  When(dept # None,
       When(db[<<"subject", r.subject>>] = None /\ taught = None,
            (<<"subject", r.subject>> := dept) ++ (<<"rate", r.subject>> := None))
         ++ When(taught = None, NewSection(k, r.subject, None))
         ++ student
         ++ When(db[<<"result", s, k>>] = None, Enrolls(s, k, None, "IN_PROGRESS", FALSE, None)))

GradebookRow(db, r) ==
  LET s == r.student
      k == r.section
      major == IF r.class \in AdminClasses THEN ClassMajor[r.class] ELSE None
      result == IF r.label \in DOMAIN ResultOf THEN ResultOf[r.label] ELSE "IN_PROGRESS"
      isNew == db[<<"class", s>>] = None
      student ==
        IF isNew
          THEN (<<"class", s>> := r.class) ++ (<<"major", s>> := major)
                 ++ (<<"dept", s>> := db[<<"subject", r.subject>>]) ++ (<<"status", s>> := "STUDYING")
          ELSE When(db[<<"major", s>>] = None /\ major # None, <<"major", s>> := major)
                 ++ When(BetterClass(db, s, r.class), <<"class", s>> := r.class)
  IN
  When(db[<<"subject", r.subject>>] # None /\ db[<<"section", k>>] \in {None, r.subject},
       student
         ++ When(db[<<"section", k>>] = None, NewSection(k, r.subject, None))
         ++ IF db[<<"result", s, k>>] = None
              THEN Enrolls(s, k, r.score, result, FALSE, None)
              ELSE (<<"score", s, k>> := r.score) ++ (<<"result", s, k>> := result))

GradeAttendanceRow(db, r) ==
  LET s == r.student
      k == r.section
      given == When(r.score # None, <<"score", s, k>> := r.score)
                 ++ When(r.label # None, (<<"result", s, k>> := ResultOf[r.label])
                                           ++ (<<"banned", s, k>> := (r.label = "attendance_failed")))
                 ++ When(r.absent # None, <<"absent", s, k>> := r.absent)
  IN
  When(r.rate # None /\ db[<<"subject", r.subject>>] # None, <<"rate", r.subject>> := r.rate)
    ++ When(db[<<"class", s>>] # None /\ db[<<"section", k>>] # None,
            given ++ When(db[<<"result", s, k>>] = None, Enrolls(s, k, None, "IN_PROGRESS", FALSE, None)))

Row(kind, db, r) ==
  CASE kind = "CATALOG" -> CatalogRow(db, r)
    [] kind = "LECTURER" -> LecturerRow(db, r)
    [] kind = "ROSTER" -> RosterRow(db, r)
    [] kind = "GRADEBOOK" -> GradebookRow(db, r)
    [] kind = "GRADE_ATTENDANCE" -> GradeAttendanceRow(db, r)

Start == [writes |-> Nothing, done |-> {}, alias |-> Nothing]

Step(kind, db, r, acc) ==
  IF kind \in {"SECTION_LIST", "SCHEDULE"}
    THEN SectionRow(db, acc, r)
    ELSE [acc EXCEPT !.writes = Row(kind, acc.writes ++ db, r) ++ acc.writes]

\* All the writes of one file, row after row, when its committer has read db.
Writes(kind, db, rows) ==
  MapThenFoldSet(LAMBDA r, acc : Step(kind, db, r, acc), Start, LAMBDA i : rows[i], LAMBDA s : Max(s),
                 ValidRows(kind, rows)).writes
=============================================================================
