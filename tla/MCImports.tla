----------------------------- MODULE MCImports -----------------------------
(* One student, two majors in two departments, a file of each kind; the      *)
(* student appears first under a section code and later under an ADMIN class.*)
EXTENDS Imports, TLC

CONSTANTS s1, j1, j2, k1, t1, d1, d2, m1, m2, admin, section

MCClassMajor == admin :> m2
MCMajorDept == m1 :> d1 @@ m2 :> d2
MCHomeDept == j1 :> d1 @@ j2 :> None

MCCell == [c \in Cells |-> IF c = <<"subject", j2>> THEN d2 ELSE None]

RosterLine(class, major, status) ==
  [student |-> s1, class |-> class, major |-> major, subject |-> j1, section |-> k1, status |-> status]
GradeLine(class, score, label) ==
  [student |-> s1, class |-> class, subject |-> j1, section |-> k1, score |-> score, label |-> label]
AttendanceLine(score, label, absent, rate) ==
  [student |-> s1, subject |-> j1, section |-> k1, score |-> score, label |-> label, absent |-> absent, rate |-> rate]
SectionLine(subject, alt, lecturer) == [subject |-> subject, alt |-> alt, section |-> k1, lecturer |-> lecturer]

Roster == [kind |-> "ROSTER", rows |-> <<RosterLine(section, None, None), RosterLine(admin, m1, "DROPPED")>>]
OldRoster == [kind |-> "ROSTER", rows |-> <<RosterLine(section, m2, None), RosterLine(None, m2, None)>>]
Gradebook == [kind |-> "GRADEBOOK", rows |-> <<GradeLine(admin, 7, "passed"), GradeLine(section, 11, "passed")>>]
Attendance == [kind |-> "GRADE_ATTENDANCE",
               rows |-> <<AttendanceLine(None, "attendance_failed", 3, 0), AttendanceLine(4, "transferred", 0, None)>>]
SectionList == [kind |-> "SECTION_LIST", rows |-> <<SectionLine(j1, j2, t1), SectionLine(j2, None, None)>>]
Schedule == [kind |-> "SCHEDULE", rows |-> <<SectionLine(j1, None, None)>>]
Catalog == [kind |-> "CATALOG",
            rows |-> <<[subject |-> j1, dept |-> d1, rate |-> 80], [subject |-> j1, dept |-> None, rate |-> None]>>]
LecturerList == [kind |-> "LECTURER", rows |-> <<[lecturer |-> t1, dept |-> d1]>>]

\* One form takes an administrative class away, the other types one in.
MCForms == {[student |-> s1, major |-> m2, class |-> section, status |-> None],
            [student |-> s1, major |-> None, class |-> admin, status |-> "WARNED"]}

MCFiles == {Roster, OldRoster, Gradebook, Attendance, SectionList, Schedule, Catalog, LecturerList}
=============================================================================
