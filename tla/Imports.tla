------------------------------ MODULE Imports ------------------------------
(***************************************************************************)
(* The life of an import batch: ImportsService.upload stages a file's      *)
(* rows, commit writes them in one transaction, discard cancels, and a     *)
(* commit of attendance starts the attendance review after an audit entry. *)
(* Next to them people edit students and grades in place, or import        *)
(* students from the older Excel form, which overwrites.                   *)
(*                                                                         *)
(* A handler reads the batch outside its transaction; the transaction runs *)
(* READ COMMITTED and reads its maps at its start, so its writes are known *)
(* then (writes, and fresh for the keys it creates) and reach the others   *)
(* when it commits.                                                        *)
(***************************************************************************)
EXTENDS ImportRows

CONSTANTS
  Callers,     \* requests of different users at the same time
  Scoped,      \* callers bound to a department
  MaxBatches,  \* bound on the batches that are uploaded
  Files,       \* records [kind, rows]: what was read of the files people upload
  Forms,       \* records [student, major, class, status]: what people type of a student
  InitialCell, \* the database before the imports
  MaxEdits,    \* bound on edits by hand and rows of the older Excel form
  MaxFaults    \* bound on statements that fail and on deaths of the process

Batches == 1..MaxBatches

ASSUME ImportsAssumption ==
  /\ MaxBatches \in Nat /\ None \notin Batches
  /\ Scoped \subseteq Callers
  /\ DOMAIN InitialCell = Cells
  /\ \A s \in Students :
       InitialCell[<<"major", s>>] # None => InitialCell[<<"dept", s>>] = MajorDept[InitialCell[<<"major", s>>]]
  /\ \A f \in Files : f.kind \in Kinds /\ f.rows \in Seq(FileRow(f.kind))
  /\ Forms \subseteq [student : Students, major : Maybe(Majors), class : Maybe(Classes), status : Maybe(STRING)]
  /\ MaxEdits \in Nat /\ MaxFaults \in Nat

VARIABLES
  cell,     \* the database
  batch,    \* ImportBatch and its rows
  applied,  \* how many transactions have committed a batch's rows
  review,   \* what became of the review of a committed attendance batch
  req,      \* the requests
  byPrefix, \* students whose major a gradebook's class prefix filled in
  edits,    \* changes of students and grades that are not an import's
  faults

vars == <<cell, batch, applied, review, req, byPrefix, edits, faults>>

NoBatch == [status |-> "none", kind |-> None, rows |-> <<>>, by |-> None]
Idle == [pc |-> "idle", batch |-> None, kind |-> None, rows |-> <<>>, writes |-> Nothing, fresh |-> {}]

Statuses == {"none", "PENDING", "COMMITTED", "CANCELLED"}
Steps == {"idle", "stage", "begin", "write", "audit", "review", "record", "discard"}

\* Only a request that is at work has a batch; attendance alone is reviewed.
TypeOK ==
  /\ DOMAIN cell = Cells
  /\ \A b \in Batches : batch[b].status \in Statuses /\ applied[b] \in Nat
  /\ review \in [Batches -> {"none", "due", "done", "failed", "lost"}]
  /\ \A c \in Callers :
       /\ req[c].pc \in Steps
       /\ req[c].pc = "idle" <=> req[c].batch = None
       /\ req[c].fresh \subseteq DOMAIN req[c].writes \cap Keys /\ DOMAIN req[c].writes \subseteq Cells
  /\ byPrefix \subseteq Students
  /\ edits \in 0..MaxEdits /\ faults \in 0..MaxFaults

Init ==
  /\ cell = InitialCell
  /\ batch = [b \in Batches |-> NoBatch]
  /\ applied = [b \in Batches |-> 0]
  /\ review = [b \in Batches |-> "none"]
  /\ req = [c \in Callers |-> Idle]
  /\ byPrefix = {}
  /\ edits = 0 /\ faults = 0

-----------------------------------------------------------------------------
\* Mutant: a request that has ended still holds its batch.
EndsHolding(c) == req' = [req EXCEPT ![c].pc = "idle"]

Ends(c) == req' = [req EXCEPT ![c] = Idle]

\* requireOwnBatch
MayTouch(c, b) == batch[b].status # "none" /\ (c \in Scoped => batch[b].by = c)

\* upload: the batch is there before its rows, in a statement of its own.
Uploads(c, b, f) ==
  /\ req[c].pc = "idle"
  /\ batch[b].status = "none" /\ \A older \in 1..(b - 1) : batch[older].status # "none"
  /\ batch' = [batch EXCEPT ![b] = [status |-> "PENDING", kind |-> f.kind, rows |-> <<>>, by |-> c]]
  /\ req' = [req EXCEPT ![c] = [pc |-> "stage", batch |-> b, kind |-> f.kind, rows |-> f.rows, writes |-> Nothing, fresh |-> {}]]
  /\ UNCHANGED <<cell, applied, review, byPrefix, edits, faults>>

Stages(c) ==
  /\ req[c].pc = "stage"
  /\ batch' = [batch EXCEPT ![req[c].batch].rows = req[c].rows]
  /\ Ends(c)
  /\ UNCHANGED <<cell, applied, review, byPrefix, edits, faults>>

\* commit, before its transaction.
ReadsBatch(c, b) ==
  /\ req[c].pc = "idle" /\ MayTouch(c, b)
  /\ batch[b].status = "PENDING"
  /\ req' = [req EXCEPT ![c] = [pc |-> "begin", batch |-> b, kind |-> batch[b].kind,
                                rows |-> batch[b].rows, writes |-> Nothing, fresh |-> {}]]
  /\ UNCHANGED <<cell, batch, applied, review, byPrefix, edits, faults>>

Begins(c) ==
  LET writes == Writes(req[c].kind, cell, req[c].rows) IN
  /\ req[c].pc = "begin"
  /\ req' = [req EXCEPT ![c] = [@ EXCEPT !.pc = "write", !.writes = writes,
                                          !.fresh = {k \in DOMAIN writes \cap Keys : cell[k] = None}]]
  /\ UNCHANGED <<cell, batch, applied, review, byPrefix, edits, faults>>

\* A row the transaction creates has been created by another one meanwhile.
KeyTaken(c) == \E k \in req[c].fresh : cell[k] # None

Filled(c) == {s \in Students : <<"major", s>> \in DOMAIN req[c].writes /\ req[c].writes[<<"major", s>>] # None}

ByPrefixAfter(c) == IF req[c].kind = "GRADEBOOK" THEN byPrefix \cup Filled(c) ELSE byPrefix \ Filled(c)

\* Mutant: the status is written in a statement after the transaction, which the
\* death of the process prevents.
CommitsRowsOnly(c) ==
  LET b == req[c].batch IN
  /\ req[c].pc = "write" /\ ~KeyTaken(c)
  /\ cell' = Overwrite(cell, req[c].writes)
  /\ applied' = [applied EXCEPT ![b] = @ + 1]
  /\ byPrefix' = ByPrefixAfter(c)
  /\ req' = [req EXCEPT ![c] = Idle]
  /\ UNCHANGED <<batch, review, edits, faults>>

\* Mutant: a review that throws ends the request without a trace.
CommitsUnreviewed(c) ==
  LET b == req[c].batch IN
  /\ req[c].pc = "write" /\ ~KeyTaken(c)
  /\ cell' = Overwrite(cell, req[c].writes)
  /\ batch' = [batch EXCEPT ![b].status = "COMMITTED"]
  /\ applied' = [applied EXCEPT ![b] = @ + 1]
  /\ byPrefix' = ByPrefixAfter(c)
  /\ review' = IF req[c].kind = "GRADE_ATTENDANCE" THEN [review EXCEPT ![b] = "due"] ELSE review
  /\ Ends(c)
  /\ UNCHANGED <<edits, faults>>

\* The transaction: the committer's writes and the batch's status.  The audit entry that
\* follows matters to the review alone.
Commits(c) ==
  LET b == req[c].batch
      reviews == req[c].kind = "GRADE_ATTENDANCE"
  IN
  /\ req[c].pc = "write" /\ ~KeyTaken(c)
  /\ cell' = Overwrite(cell, req[c].writes)
  /\ batch' = [batch EXCEPT ![b].status = "COMMITTED"]
  /\ applied' = [applied EXCEPT ![b] = @ + 1]
  /\ byPrefix' = ByPrefixAfter(c)
  /\ review' = IF reviews THEN [review EXCEPT ![b] = "due"] ELSE review
  /\ req' = [req EXCEPT ![c] = IF reviews THEN [@ EXCEPT !.pc = "audit", !.writes = Nothing, !.fresh = {}] ELSE Idle]
  /\ UNCHANGED <<edits, faults>>

\* A unique key is violated: the transaction rolls back.
RollsBack(c) ==
  /\ req[c].pc = "write" /\ KeyTaken(c)
  /\ Ends(c)
  /\ UNCHANGED <<cell, batch, applied, review, byPrefix, edits, faults>>

\* The entry IMPORT_COMMIT is written.
Audits(c) ==
  /\ req[c].pc = "audit"
  /\ req' = [req EXCEPT ![c].pc = "review"]
  /\ UNCHANGED <<cell, batch, applied, review, byPrefix, edits, faults>>

\* reviewAttendanceAfterCommit: reviewTerm returns, or throws and is to be put on record.
Reviews(c) ==
  /\ req[c].pc = "review"
  /\ review' = [review EXCEPT ![req[c].batch] = "done"]
  /\ Ends(c)
  /\ UNCHANGED <<cell, batch, applied, byPrefix, edits, faults>>

ReviewThrows(c) ==
  /\ req[c].pc = "review"
  /\ req' = [req EXCEPT ![c].pc = "record"]
  /\ UNCHANGED <<cell, batch, applied, review, byPrefix, edits, faults>>

\* The entry ATTENDANCE_REVIEW_FAILED is written.
Records(c) ==
  /\ req[c].pc = "record"
  /\ review' = [review EXCEPT ![req[c].batch] = "failed"]
  /\ Ends(c)
  /\ UNCHANGED <<cell, batch, applied, byPrefix, edits, faults>>

StartsDiscard(c, b) ==
  /\ req[c].pc = "idle" /\ MayTouch(c, b)
  /\ batch[b].status # "COMMITTED"
  /\ req' = [req EXCEPT ![c] = [Idle EXCEPT !.pc = "discard", !.batch = b]]
  /\ UNCHANGED <<cell, batch, applied, review, byPrefix, edits, faults>>

Discards(c) ==
  /\ req[c].pc = "discard"
  /\ batch' = [batch EXCEPT ![req[c].batch].rows = <<>>, ![req[c].batch].status = "CANCELLED"]
  /\ Ends(c)
  /\ UNCHANGED <<cell, applied, review, byPrefix, edits, faults>>

\* The request is between the rows of an attendance file and the end of their review.
Owes(c, b) == req[c].pc \in {"audit", "review", "record"} /\ req[c].batch = b

\* A transaction exceeds its timeout or the database refuses a statement.  An audit entry
\* that throws takes the review, or the record of its failure, with it.
Fails(c) ==
  /\ req[c].pc \notin {"idle", "review"}
  /\ faults < MaxFaults /\ faults' = faults + 1
  /\ review' = [b \in Batches |-> IF Owes(c, b) THEN "lost" ELSE review[b]]
  /\ Ends(c)
  /\ UNCHANGED <<cell, batch, applied, byPrefix, edits>>

\* The API process dies with all its requests.
Crash ==
  /\ faults < MaxFaults /\ faults' = faults + 1
  /\ \E c \in Callers : req[c].pc # "idle"
  /\ review' = [b \in Batches |-> IF \E c \in Callers : Owes(c, b) THEN "lost" ELSE review[b]]
  /\ req' = [c \in Callers |-> Idle]
  /\ UNCHANGED <<cell, batch, applied, byPrefix, edits>>

-----------------------------------------------------------------------------
(* Edits by hand                                                           *)

Edits(writes) ==
  /\ edits < MaxEdits /\ edits' = edits + 1
  /\ cell' = Overwrite(cell, writes)
  /\ UNCHANGED <<batch, applied, review, req, faults>>

\* What a form says of its student; None leaves a column as it is.
Profile(f) ==
  When(f.major # None, (<<"major", f.student>> := f.major) ++ (<<"dept", f.student>> := MajorDept[f.major]))
    ++ When(f.class # None, <<"class", f.student>> := f.class)
    ++ When(f.status # None, <<"status", f.student>> := f.status)

\* StudentsService.update; bulkAssignMajor gives a major only.
UpdatesStudent(f) ==
  /\ cell[<<"class", f.student>>] # None
  /\ Edits(Profile(f))
  /\ byPrefix' = IF f.major = None THEN byPrefix ELSE byPrefix \ {f.student}

\* A row of StudentsExcelService.import, which has a major and a class and asks nothing of
\* the student it overwrites; StudentsService.create for a new one.
SavesStudent(f) ==
  /\ f.major # None /\ f.class # None
  /\ Edits(Profile(f) ++ When(cell[<<"class", f.student>>] = None, <<"status", f.student>> := "STUDYING"))
  /\ byPrefix' = byPrefix \ {f.student}

\* ClassSectionsService.updateGrades.
EditsGrade(s, k, result) ==
  /\ cell[<<"result", s, k>>] # None
  /\ Edits((<<"score", s, k>> := None) ++ (<<"result", s, k>> := result))
  /\ UNCHANGED byPrefix

\* ClassSectionsService.addStudentsToSection: a new student's class is the section's.
AddsStudent(s, k, class) ==
  /\ cell[<<"section", k>>] # None /\ cell[<<"result", s, k>>] = None
  /\ class \notin AdminClasses
  /\ Edits(When(cell[<<"class", s>>] = None,
                (<<"class", s>> := class) ++ (<<"major", s>> := None) ++ (<<"status", s>> := "STUDYING")
                  ++ (<<"dept", s>> := cell[<<"subject", cell[<<"section", k>>]>>]))
           ++ Enrolls(s, k, None, "IN_PROGRESS", FALSE, None))
  /\ UNCHANGED byPrefix

Handles(c) ==
  \/ Stages(c) \/ Begins(c) \/ Commits(c) \/ RollsBack(c) \/ Discards(c)
  \/ Audits(c) \/ Reviews(c) \/ ReviewThrows(c) \/ Records(c)

Next ==
  \/ \E c \in Callers, b \in Batches :
       \/ \E f \in Files : Uploads(c, b, f)
       \/ ReadsBatch(c, b) \/ StartsDiscard(c, b)
  \/ \E c \in Callers : Handles(c) \/ Fails(c)
  \/ Crash
  \/ \E f \in Forms : UpdatesStudent(f) \/ SavesStudent(f)
  \/ \E s \in Students, k \in Sections :
       \/ \E result \in {"PASS", "FAIL"} : EditsGrade(s, k, result)
       \/ \E class \in Classes : AddsStudent(s, k, class)

\* Node continues the request after its transaction, and every call it awaits settles.
Spec ==
  /\ Init /\ [][Next]_vars
  /\ \A c \in Callers : WF_vars(Audits(c) \/ Reviews(c) \/ ReviewThrows(c) \/ Records(c))

-----------------------------------------------------------------------------
\* imports.service.ts commit: whatever overlaps, fails or dies, a batch whose rows
\* are in the database is never offered for another commit.
AppliedNotPending == \A b \in Batches : applied[b] > 0 => batch[b].status # "PENDING"

\* roster.committer.ts, gradebook.committer.ts: no import batch, even one that works on
\* what it read before another one or before somebody typed the class in, replaces an
\* administrative class by a section code; only an edit by hand and the older Excel form,
\* which overwrites, do.
AdminClassKept ==
  [][\A s \in Students :
       cell[<<"class", s>>] \in AdminClasses /\ edits' = edits => cell'[<<"class", s>>] \in AdminClasses]_vars

\* roster.committer.ts "both fields never disagree", students.service.ts: imports and
\* edits by hand keep a student in the department of the major, unless the prefix of
\* a gradebook's class gave the major.
DepartmentFollowsMajor ==
  \A s \in Students \ byPrefix :
    cell[<<"major", s>>] # None => cell[<<"dept", s>>] = MajorDept[cell[<<"major", s>>]]

\* reviewAttendanceAfterCommit: attendance that was committed is reviewed, or the failure
\* of the review is on record, unless the process dies, the audit entry of the commit
\* throws before the review or that of the failure throws after it ("lost").
ReviewFollows == \A b \in Batches : review[b] = "due" ~> review[b] # "due"

-----------------------------------------------------------------------------
\* imports.service.ts:228, "Lượt import này đã được xử lý, không thể commit lại": the
\* rows of a batch are written once.
AppliedOnce == \A b \in Batches : applied[b] <= 1
=============================================================================
