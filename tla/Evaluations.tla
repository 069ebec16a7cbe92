----------------------------- MODULE Evaluations -----------------------------
(***************************************************************************)
(* The evaluations of one student in one term and the risk score computed  *)
(* from them: EvaluationsService, computeRiskScore and what an import or a *)
(* deleted alert changes underneath.  The student is enrolled in every     *)
(* section of Sections.  create and remove are one statement behind their  *)
(* checks; update is a transaction of two, which others may come between.  *)
(* The analysis that create and update ask for is BeginCreate of           *)
(* StudentAnalysis.                                                        *)
(***************************************************************************)
EXTENDS Integers, FiniteSets, FiniteSetsExt

CONSTANTS
  Staff,
  Heads,      \* HEAD_OF_DEPT of the sections' subjects
  Admins,
  Sections,
  Inputs,     \* the scores and absences that are sent
  Ticked,     \* the sets of criteria that are sent
  Counts,     \* absences that an import brings
  Editors,    \* update requests that can be in flight
  MaxChanges, \* bound on requests
  None

\* CRITERION_POINTS
Points == [P_NOT_FIT_MAJOR |-> 2, P_PART_TIME_JOB |-> 2, P_OTHER_ACTIVITIES |-> 1, P_FAMILY_HARDSHIP |-> 2,
           P_FINANCIAL_HARDSHIP |-> 2, P_PSYCHOLOGICAL |-> 3, P_DROPOUT_INTENT |-> 9,
           H_NO_QUIZ_CMS |-> 2, H_EXAM_BAN_RISK |-> 3, H_NO_RESPONSE |-> 4]
Criteria == DOMAIN Points
Input == [academic : 1..10, attitude : 1..10, absent : Nat \cup {None}]

ASSUME EvaluationsAssumption ==
  /\ IsFiniteSet(Staff) /\ IsFiniteSet(Sections)
  /\ Heads \cup Admins \subseteq Staff
  /\ Inputs \subseteq Input /\ Ticked \subseteq SUBSET Criteria /\ Counts \subseteq Nat
  /\ MaxChanges \in Nat /\ None \notin Nat /\ None \notin Input

\* The unique key of an evaluation of this student.
Keys == Sections \X Staff

VARIABLES
  row,     \* Evaluation rows by key
  marks,   \* EvaluationCriterionMark: the criteria of each row
  known,   \* Enrollment.absentSessions by section
  teacher, \* ClassSection.lecturerId
  edit,    \* updates under way; seen are the marks their deletion reached and that are still there
  changes

vars == <<row, marks, known, teacher, edit, changes>>

Idle == [key |-> None, input |-> None, ticked |-> {}, seen |-> {}]

Rows == {k \in Keys : row[k] # None}

-----------------------------------------------------------------------------
(* risk-score.ts                                                           *)

\* effectiveAbsentSessions: the lecturer's own number, else the section's.
Absences(k) == IF row[k].absent # None THEN row[k].absent ELSE known[k[1]]
Reports == {k \in Rows : Absences(k) # None}

Given(field) == {row[k][field] : k \in Rows}

\* Mutant: sort() without a comparison sorts texts, "10" before "2".
NthAsText(field, i) ==
  LET Text(v) == IF v = 10 THEN 1 ELSE v
  IN  CHOOSE v \in Given(field) :
        /\ Cardinality({k \in Rows : Text(row[k][field]) <= Text(v)}) >= i
        /\ Cardinality({k \in Rows : Text(row[k][field]) < Text(v)}) < i

\* The i-th score once they are sorted.
Nth(field, i) ==
  CHOOSE v \in Given(field) :
    /\ Cardinality({k \in Rows : row[k][field] <= v}) >= i
    /\ Cardinality({k \in Rows : row[k][field] < v}) < i

\* median, doubled to stay an integer.
TwiceMedian(field) ==
  LET n == Cardinality(Rows)
      middle == n \div 2
  IN  IF n % 2 = 1 THEN 2 * Nth(field, middle + 1) ELSE Nth(field, middle) + Nth(field, middle + 1)

\* scoreBand of the rounded score, BAND_POINTS
BandPoints(rounded) == Cardinality({floor \in {9, 7, 5, 3} : rounded < floor})

ScorePoints(field) == IF Rows = {} THEN 0 ELSE BandPoints((TwiceMedian(field) + 1) \div 2)

AbsentPoint(n) == IF n < 2 THEN 0 ELSE IF n = 2 THEN 2 ELSE 3

Worst == Max({AbsentPoint(Absences(k)) : k \in Reports})

\* Mutant: "all of them two" instead of "two or more".
AttendanceScoreExact ==
  IF Reports = {} THEN 0
  ELSE IF Cardinality(Reports) < 2 THEN Worst
  ELSE IF \A k \in Reports : Absences(k) = 3 THEN 12
  ELSE IF \A k \in Reports : Absences(k) = 2 THEN 9
  ELSE Worst

AttendanceScore ==
  IF Reports = {} THEN 0
  ELSE IF Cardinality(Reports) < 2 THEN Worst
  ELSE IF \A k \in Reports : Absences(k) >= 3 THEN 12
  ELSE IF \A k \in Reports : Absences(k) >= 2 THEN 9
  ELSE Worst

\* sumCriteria of both groups: a criterion counts once, whoever marked it.
CriteriaPoints == FoldSet(LAMBDA c, sum : Points[c] + sum, 0, UNION {marks[k] : k \in Rows})

Drs == ScorePoints("academic") + ScorePoints("attitude") + AttendanceScore + CriteriaPoints

LevelFromDrs(drs) == IF drs >= 13 THEN 4 ELSE IF drs >= 9 THEN 3 ELSE IF drs >= 5 THEN 2 ELSE 1

DataForcedLevel == IF Cardinality(Reports) >= 2 /\ \A k \in Reports : Absences(k) >= 3 THEN 3 ELSE 1

\* resolveFinalLevel, without what the AI quotes
Level == Max({LevelFromDrs(Drs), DataForcedLevel})

-----------------------------------------------------------------------------
TypeOK ==
  /\ row \in [Keys -> Input \cup {None}]
  /\ marks \in [Keys -> SUBSET Criteria]
  /\ \A k \in Keys : row[k] = None => marks[k] = {}
  /\ known \in [Sections -> Nat \cup {None}]
  /\ teacher \in [Sections -> Staff]
  /\ \A e \in Editors :
       \/ edit[e] = Idle
       \/ edit[e].key \in Keys /\ edit[e].input \in Input /\ edit[e].seen \subseteq marks[edit[e].key]
  /\ changes \in 0..MaxChanges

Init ==
  /\ row = [k \in Keys |-> None]
  /\ marks = [k \in Keys |-> {}]
  /\ known = [s \in Sections |-> None]
  /\ teacher \in [Sections -> Staff]
  /\ edit = [e \in Editors |-> Idle]
  /\ changes = 0

Change == changes < MaxChanges /\ changes' = changes + 1

\* studentScope, isStudentInScope: an administrator, the head of the student's
\* department, a lecturer of one of the student's sections.
InScope(u) == u \in Admins \cup Heads \/ \E s \in Sections : teacher[s] = u

\* sectionScope
TeachesScope(u, s) == u \in Admins \cup Heads \/ teacher[s] = u

\* The update of the row and the deletion end for the other edits what they waited for.
Forget(k, gone) == [e \in Editors |-> IF edit[e].key = k THEN [edit[e] EXCEPT !.seen = @ \ gone] ELSE edit[e]]

\* create: the unique key refuses a second evaluation.
Create(u, s, input, ticked) ==
  LET k == <<s, u>> IN
  /\ Change
  /\ InScope(u) /\ TeachesScope(u, s)
  /\ row[k] = None
  /\ row' = [row EXCEPT ![k] = input]
  /\ marks' = [marks EXCEPT ![k] = ticked]
  /\ UNCHANGED <<known, teacher, edit>>

\* The author in scope, or an administrator.
MayChange(u, k) == row[k] # None /\ InScope(u) /\ (u = k[2] \/ u \in Admins)

\* update that does not send criteria: one statement.
Amends(u, k, input) ==
  /\ Change
  /\ MayChange(u, k)
  /\ row' = [row EXCEPT ![k] = input]
  /\ UNCHANGED <<marks, known, teacher, edit>>

\* update with criteria: the transaction has deleted the marks it saw.
BeginUpdate(e, u, k, input, ticked) ==
  /\ Change
  /\ edit[e] = Idle
  /\ MayChange(u, k)
  /\ edit' = [edit EXCEPT ![e] = [key |-> k, input |-> input, ticked |-> ticked, seen |-> marks[k]]]
  /\ UNCHANGED <<row, marks, known, teacher>>

\* The new marks meet no mark of the same criterion (@@unique).
Fits(e) == row[edit[e].key] # None /\ edit[e].ticked \cap (marks[edit[e].key] \ edit[e].seen) = {}

EndUpdate(e) ==
  LET k == edit[e].key IN
  /\ edit[e] # Idle /\ Fits(e)
  /\ row' = [row EXCEPT ![k] = edit[e].input]
  /\ marks' = [marks EXCEPT ![k] = (@ \ edit[e].seen) \cup edit[e].ticked]
  /\ edit' = [Forget(k, edit[e].seen) EXCEPT ![e] = Idle]
  /\ UNCHANGED <<known, teacher, changes>>

\* P2025, P2002: the transaction is rolled back.
UpdateRefused(e) ==
  /\ edit[e] # Idle /\ ~Fits(e)
  /\ edit' = [edit EXCEPT ![e] = Idle]
  /\ UNCHANGED <<row, marks, known, teacher, changes>>

\* Mutant: the marks do not go with their row.
DeletesRowOnly(keys) ==
  /\ row' = [k \in Keys |-> IF k \in keys THEN None ELSE row[k]]
  /\ UNCHANGED <<marks, edit>>

\* onDelete: Cascade
Deletes(keys) ==
  /\ row' = [k \in Keys |-> IF k \in keys THEN None ELSE row[k]]
  /\ marks' = [k \in Keys |-> IF k \in keys THEN {} ELSE marks[k]]
  /\ edit' = [e \in Editors |-> IF edit[e].key \in keys THEN [edit[e] EXCEPT !.seen = {}] ELSE edit[e]]

Remove(u, k) ==
  /\ Change
  /\ MayChange(u, k)
  /\ Deletes({k})
  /\ UNCHANGED <<known, teacher>>

\* AlertsService.deleteBatch: with an alert go the evaluations of its student.
AlertDeleted ==
  /\ Change
  /\ Rows # {}
  /\ Deletes(Rows)
  /\ UNCHANGED <<known, teacher>>

\* A grade and attendance import sets the absences of the enrolment.
AttendanceImported(s, n) ==
  /\ Change
  /\ known' = [known EXCEPT ![s] = n]
  /\ UNCHANGED <<row, marks, teacher, edit>>

\* A section list or the class editor gives the section to somebody else.
SectionReassigned(s, u) ==
  /\ Change
  /\ teacher' = [teacher EXCEPT ![s] = u]
  /\ UNCHANGED <<row, marks, known, edit>>

Next ==
  \/ \E u \in Staff, s \in Sections, input \in Inputs, ticked \in Ticked : Create(u, s, input, ticked)
  \/ \E e \in Editors, u \in Staff, k \in Keys, input \in Inputs, ticked \in Ticked :
       BeginUpdate(e, u, k, input, ticked)
  \/ \E e \in Editors : EndUpdate(e) \/ UpdateRefused(e)
  \/ \E u \in Staff, k \in Keys :
       \/ \E input \in Inputs : Amends(u, k, input)
       \/ Remove(u, k)
  \/ AlertDeleted
  \/ \E s \in Sections, n \in Counts : AttendanceImported(s, n)
  \/ \E s \in Sections, u \in Staff : SectionReassigned(s, u)

Spec == Init /\ [][Next]_vars

-----------------------------------------------------------------------------
\* risk-score.ts median and scoreBand: however many lecturers evaluate, at least half of
\* them gave a score as urgent as the one that counts and at least half one no more urgent.
MedianOfPoints ==
  \A field \in {"academic", "attitude"} : Rows # {} =>
    LET points == ScorePoints(field)
        n == Cardinality(Rows)
    IN  /\ 2 * Cardinality({k \in Rows : BandPoints(row[k][field]) >= points}) >= n
        /\ 2 * Cardinality({k \in Rows : BandPoints(row[k][field]) <= points}) >= n

\* Every row reports what it did or worse.
NoBetter ==
  /\ Rows' = Rows
  /\ \A k \in Rows :
       /\ row'[k].academic <= row[k].academic /\ row'[k].attitude <= row[k].attitude
       /\ marks[k] \subseteq marks'[k]
       /\ \/ Absences(k)' = Absences(k)
          \/ None \notin {Absences(k), Absences(k)'} /\ Absences(k)' >= Absences(k)

\* computeRiskScore: an edit or an import by which no lecturer's report gets better never
\* lowers the level, at whatever boundary of the tables it happens.
WorseNeverCalmer == [][NoBetter => Level' >= Level]_<<row, marks, known>>

-----------------------------------------------------------------------------
\* evaluations.service.ts:138, "the list of criteria is overwritten as a whole: what was
\* sent is what is left".
CriteriaAsSent ==
  [][\A e \in Editors : edit[e] # Idle /\ EndUpdate(e) => marks'[edit[e].key] = edit[e].ticked]_vars
=============================================================================
