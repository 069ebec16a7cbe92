---------------------------- MODULE ImportsProofs ----------------------------
(***************************************************************************)
(* Proofs about Imports for every file, every number of callers, batches,  *)
(* edits and faults, in four parts: the life of a batch, which does not    *)
(* depend on what a committer writes; the fold over the rows of a file;    *)
(* what one row, and so a whole file, may write of a student; and what     *)
(* transactions that overlap do to a student.                              *)
(***************************************************************************)
EXTENDS Imports, FiniteSetTheorems, WellFoundedInduction, TLAPS

-----------------------------------------------------------------------------
(* The inductive invariant.                                                *)

BatchFields == {"status", "kind", "rows", "by"}
ReqFields == {"pc", "batch", "kind", "rows", "writes", "fresh"}

Shape ==
  /\ DOMAIN batch = Batches /\ DOMAIN req = Callers
  /\ \A b \in Batches : DOMAIN batch[b] = BatchFields
  /\ \A c \in Callers : DOMAIN req[c] = ReqFields
  /\ applied \in [Batches -> Nat]

\* Whose rows were written has been dealt with, and will not be offered again.
Settled == \A b \in Batches : applied[b] > 0 => batch[b].status \in {"COMMITTED", "CANCELLED"}

Inv == Shape /\ Settled

\* What every step keeps of the batches other than by committing one.
LEMMA KeepsSettled ==
  ASSUME Inv, Shape', UNCHANGED applied,
         \A b \in Batches : batch[b].status \in {"COMMITTED", "CANCELLED"} =>
                              batch'[b].status \in {"COMMITTED", "CANCELLED"}
  PROVE  Inv'
  BY DEF Inv, Settled

LEMMA InitOK ==
  ASSUME Init
  PROVE  Inv
  BY DEF Init, Inv, Shape, Settled, NoBatch, Idle, BatchFields, ReqFields

LEMMA UploadsOK ==
  ASSUME Inv, NEW c \in Callers, NEW b \in Batches, NEW f \in Files, Uploads(c, b, f)
  PROVE  Inv'
<1>1. Shape' BY DEF Uploads, Inv, Shape, BatchFields, ReqFields
<1>2. \A i \in Batches : i # b => batch'[i] = batch[i] BY DEF Uploads, Inv, Shape
<1>3. batch[b].status = "none" /\ UNCHANGED applied BY DEF Uploads
<1> QED BY <1>1, <1>2, <1>3, KeepsSettled

LEMMA StagesOK ==
  ASSUME Inv, NEW c \in Callers, Stages(c)
  PROVE  Inv'
<1>1. Shape' BY DEF Stages, Ends, Idle, Inv, Shape, BatchFields, ReqFields
<1>2. \A i \in Batches : batch'[i].status = batch[i].status BY DEF Stages, Inv, Shape, BatchFields
<1> QED BY <1>1, <1>2, KeepsSettled DEF Stages

LEMMA DiscardsOK ==
  ASSUME Inv, NEW c \in Callers, Discards(c)
  PROVE  Inv'
<1>1. Shape' BY DEF Discards, Ends, Idle, Inv, Shape, BatchFields, ReqFields
<1>2. \A i \in Batches : batch'[i].status \in {batch[i].status, "CANCELLED"}
  BY DEF Discards, Inv, Shape, BatchFields
<1> QED BY <1>1, <1>2, KeepsSettled DEF Discards

LEMMA CommitsOK ==
  ASSUME Inv, NEW c \in Callers, Commits(c)
  PROVE  Inv'
<1> DEFINE b == req[c].batch
<1>1. batch' = [batch EXCEPT ![b].status = "COMMITTED"] /\ applied' = [applied EXCEPT ![b] = @ + 1]
  BY DEF Commits
<1>2. DOMAIN req' = Callers /\ \A i \in Callers : DOMAIN req'[i] = ReqFields
  BY DEF Commits, Idle, Inv, Shape, ReqFields
<1> HIDE DEF b
<1>6. DOMAIN batch' = Batches /\ \A i \in Batches : DOMAIN batch'[i] = BatchFields
  BY <1>1 DEF Inv, Shape, BatchFields
<1>7. applied' \in [Batches -> Nat]
  <2>1. applied' = [i \in Batches |-> IF i = b THEN applied[b] + 1 ELSE applied[i]] BY <1>1 DEF Inv, Shape
  <2>2. \A i \in Batches : applied[i] \in Nat /\ applied[i] + 1 \in Nat BY DEF Inv, Shape
  <2>3. \A i \in Batches : (IF i = b THEN applied[b] + 1 ELSE applied[i]) \in Nat BY <2>2
  <2> QED BY <2>1, <2>3
<1>3. Shape' BY <1>2, <1>6, <1>7 DEF Shape
<1>4. \A i \in Batches : i # b => batch'[i] = batch[i] /\ applied'[i] = applied[i] BY <1>1 DEF Inv, Shape
<1>5. b \in Batches => batch'[b].status = "COMMITTED" BY <1>1 DEF Inv, Shape, BatchFields
<1> QED BY <1>3, <1>4, <1>5 DEF Inv, Settled

\* Every other step leaves the batches alone.
LEMMA OthersOK ==
  ASSUME Inv, UNCHANGED <<batch, applied>>, DOMAIN req' = Callers,
         \A c \in Callers : DOMAIN req'[c] = ReqFields
  PROVE  Inv'
  BY DEF Inv, Shape, Settled

LEMMA RequestOK ==
  ASSUME Inv, NEW c \in Callers,
         \/ \E b \in Batches : ReadsBatch(c, b) \/ StartsDiscard(c, b)
         \/ Begins(c) \/ RollsBack(c) \/ Fails(c)
         \/ Audits(c) \/ Reviews(c) \/ ReviewThrows(c) \/ Records(c)
  PROVE  Inv'
<1>1. ASSUME NEW b \in Batches, ReadsBatch(c, b) PROVE Inv'
  BY <1>1, OthersOK DEF ReadsBatch, Inv, Shape, ReqFields
<1>2. ASSUME NEW b \in Batches, StartsDiscard(c, b) PROVE Inv'
  BY <1>2, OthersOK DEF StartsDiscard, Idle, Inv, Shape, ReqFields
<1>3. CASE Begins(c) BY <1>3, OthersOK DEF Begins, Inv, Shape, ReqFields
<1>4. CASE RollsBack(c) BY <1>4, OthersOK DEF RollsBack, Ends, Idle, Inv, Shape, ReqFields
<1>5. CASE Reviews(c) BY <1>5, OthersOK DEF Reviews, Ends, Idle, Inv, Shape, ReqFields
<1>6. CASE Fails(c) BY <1>6, OthersOK DEF Fails, Ends, Idle, Inv, Shape, ReqFields
<1>7. CASE Audits(c) \/ ReviewThrows(c)
  BY <1>7, OthersOK DEF Audits, ReviewThrows, Inv, Shape, ReqFields
<1>8. CASE Records(c) BY <1>8, OthersOK DEF Records, Ends, Idle, Inv, Shape, ReqFields
<1> QED BY <1>1, <1>2, <1>3, <1>4, <1>5, <1>6, <1>7, <1>8

LEMMA CrashOK ==
  ASSUME Inv, Crash
  PROVE  Inv'
  BY OthersOK DEF Crash, Idle, Inv, Shape, ReqFields

\* A student or a grade is changed, and not by an import.
ByHand ==
  \/ \E f \in Forms : UpdatesStudent(f) \/ SavesStudent(f)
  \/ \E s \in Students, k \in Sections :
       \/ \E result \in {"PASS", "FAIL"} : EditsGrade(s, k, result)
       \/ \E class \in Classes : AddsStudent(s, k, class)

LEMMA ByHandIsEdits ==
  ASSUME ByHand
  PROVE  \E w : Edits(w)
  BY DEF ByHand, UpdatesStudent, SavesStudent, EditsGrade, AddsStudent

LEMMA EditsOK ==
  ASSUME Inv, ByHand
  PROVE  Inv'
<1>1. UNCHANGED <<batch, applied, req>> BY ByHandIsEdits DEF Edits
<1> QED BY <1>1, OthersOK DEF Inv, Shape

LEMMA StepOK ==
  ASSUME Inv, [Next]_vars
  PROVE  Inv'
<1>1. ASSUME NEW c \in Callers, NEW b \in Batches, NEW f \in Files, Uploads(c, b, f)
      PROVE  Inv'
  BY <1>1, UploadsOK
<1>2. ASSUME NEW c \in Callers, NEW b \in Batches, ReadsBatch(c, b) \/ StartsDiscard(c, b)
      PROVE  Inv'
  BY <1>2, RequestOK
<1>3. ASSUME NEW c \in Callers, Handles(c) \/ Fails(c)
      PROVE  Inv'
  BY <1>3, StagesOK, DiscardsOK, CommitsOK, RequestOK DEF Handles
<1>4. CASE UNCHANGED vars BY <1>4 DEF vars, Inv, Shape, Settled
<1> QED BY <1>1, <1>2, <1>3, <1>4, CrashOK, EditsOK DEF Next, ByHand

-----------------------------------------------------------------------------
\* A batch whose rows are in the database is not offered for another commit, whatever
\* overlaps, fails or dies.
THEOREM AppliedIsNotPending == Spec => []AppliedNotPending
<1>1. Init => Inv BY InitOK
<1>2. Inv /\ [Next]_vars => Inv' BY StepOK
<1>3. Inv => AppliedNotPending BY DEF Inv, Settled, AppliedNotPending
<1> QED BY <1>1, <1>2, <1>3, PTL DEF Spec
-----------------------------------------------------------------------------
(* The fold over the rows of a file.                                       *)

LEMMA SubsetInduction ==
  ASSUME NEW S, IsFiniteSet(S), NEW F,
         \A T \in SUBSET S : (\A U \in SUBSET T : U # T => U \in F) => T \in F
  PROVE  SUBSET S \subseteq F
<1> DEFINE bad == {T \in SUBSET S : T \notin F}
<1>1. ASSUME bad # {} PROVE FALSE
  <2>1. IsWellFoundedOn(StrictSubsetOrdering(S), SUBSET S)
    BY FS_StrictSubsetOrderingWellFounded, FS_FiniteSubsetsOfFinite
  <2>2. bad \subseteq SUBSET S OBVIOUS
  <2>3. \E T \in bad : \A U \in bad : ~(<<U, T>> \in StrictSubsetOrdering(S))
    <3> HIDE DEF bad
    <3> QED BY <2>1, <2>2, <1>1, WFMin
  <2>4. PICK T \in bad : \A U \in bad : ~(<<U, T>> \in StrictSubsetOrdering(S)) BY <2>3
  <2>5. ASSUME NEW U \in SUBSET T, U # T PROVE U \in F
    <3>1. <<U, T>> \in StrictSubsetOrdering(S) BY <2>4, <2>5 DEF StrictSubsetOrdering
    <3>2. U \in SUBSET S BY <2>4
    <3> QED BY <2>4, <3>1, <3>2
  <2> QED BY <2>4, <2>5
<1> QED BY <1>1

\* A finite set of numbers has a largest one.
LEMMA LastIs ==
  ASSUME NEW S \in SUBSET Nat, IsFiniteSet(S), S # {}
  PROVE  Max(S) \in S
<1> DEFINE F == {T \in SUBSET S : T # {} => \E m \in T : \A x \in T : m >= x}
<1>1. \A T \in SUBSET S : (\A U \in SUBSET T : U # T => U \in F) => T \in F
  <2>1. SUFFICES ASSUME NEW T \in SUBSET S, \A U \in SUBSET T : U # T => U \in F, T # {}
                 PROVE  \E m \in T : \A x \in T : m >= x
    OBVIOUS
  <2>2. PICK y : y \in T BY <2>1
  <2>3. T \ {y} \in F BY <2>1, <2>2
  <2>4. CASE T \ {y} = {} BY <2>2, <2>4
  <2>5. CASE T \ {y} # {}
    <3>1. PICK m \in T \ {y} : \A x \in T \ {y} : m >= x BY <2>3, <2>5
    <3>2. m \in Nat /\ y \in Nat BY <2>1, <2>2
    <3>3. CASE m >= y BY <3>1, <3>3
    <3>4. CASE y > m
      <4>1. \A x \in T : y >= x BY <3>1, <3>2, <3>4
      <4> QED BY <2>2, <4>1
    <3> QED BY <3>2, <3>3, <3>4
  <2> QED BY <2>4, <2>5
<1> HIDE DEF F
<1>2. SUBSET S \subseteq F BY <1>1, SubsetInduction
<1>3. S \in F BY <1>2
<1>4. \E m \in S : \A x \in S : m >= x BY <1>3 DEF F
<1> QED BY <1>4 DEF Max

Folds(g, S, kind, db, rows) ==
  g = [s \in SUBSET S |-> IF s = {} THEN Start ELSE Step(kind, db, rows[Max(s)], g[s \ {Max(s)}])]

LEMMA FoldUnique ==
  ASSUME NEW S \in SUBSET Nat, IsFiniteSet(S), NEW kind, NEW db, NEW rows,
         NEW T \in SUBSET S, NEW U \in SUBSET S, NEW g, NEW h,
         Folds(g, T, kind, db, rows), Folds(h, U, kind, db, rows)
  PROVE  \A s \in SUBSET (T \cap U) : g[s] = h[s]
<1> DEFINE both == T \cap U
           F == {s \in SUBSET both : g[s] = h[s]}
<1>1. IsFiniteSet(both) /\ both \in SUBSET Nat BY FS_Subset
<1>2. \A s \in SUBSET both : (\A u \in SUBSET s : u # s => u \in F) => s \in F
  <2>1. SUFFICES ASSUME NEW s \in SUBSET both, \A u \in SUBSET s : u # s => u \in F
                 PROVE  g[s] = h[s]
    OBVIOUS
  <2>2. /\ g[s] = IF s = {} THEN Start ELSE Step(kind, db, rows[Max(s)], g[s \ {Max(s)}])
        /\ h[s] = IF s = {} THEN Start ELSE Step(kind, db, rows[Max(s)], h[s \ {Max(s)}])
    <3>1. \A u \in SUBSET T : g[u] = IF u = {} THEN Start ELSE Step(kind, db, rows[Max(u)], g[u \ {Max(u)}])
      BY DEF Folds
    <3>2. \A u \in SUBSET U : h[u] = IF u = {} THEN Start ELSE Step(kind, db, rows[Max(u)], h[u \ {Max(u)}])
      BY DEF Folds
    <3>3. s \in SUBSET T /\ s \in SUBSET U BY <2>1
    <3> QED BY <3>1, <3>2, <3>3
  <2>3. CASE s = {} BY <2>2, <2>3
  <2>4. CASE s # {}
    <3>1. IsFiniteSet(s) BY <1>1, FS_Subset
    <3>2. Max(s) \in s BY <1>1, <2>4, <3>1, LastIs
    <3>3. s \ {Max(s)} \in F BY <2>1, <3>2
    <3> QED BY <2>2, <2>4, <3>3
  <2> QED BY <2>3, <2>4
<1> HIDE DEF F, both
<1>3. SUBSET both \subseteq F BY <1>1, <1>2, SubsetInduction
<1> QED BY <1>3 DEF F, both

LEMMA FoldExists ==
  ASSUME NEW S \in SUBSET Nat, IsFiniteSet(S), NEW kind, NEW db, NEW rows
  PROVE  \E g : Folds(g, S, kind, db, rows)
<1> DEFINE F == {T \in SUBSET S : \E g : Folds(g, T, kind, db, rows)}
           G(T) == CHOOSE g : Folds(g, T, kind, db, rows)
<1>1. \A T \in SUBSET S : (\A U \in SUBSET T : U # T => U \in F) => T \in F
  <2>1. SUFFICES ASSUME NEW T \in SUBSET S, \A U \in SUBSET T : U # T => U \in F
                 PROVE  \E g : Folds(g, T, kind, db, rows)
    OBVIOUS
  <2> DEFINE rest(s) == s \ {Max(s)}
             new == [s \in SUBSET T |-> IF s = {} THEN Start ELSE Step(kind, db, rows[Max(s)], G(rest(s))[rest(s)])]
  <2>2. \A U \in SUBSET T : U # T => Folds(G(U), U, kind, db, rows) BY <2>1
  <2>3. \A s \in SUBSET T : s # {} => Max(s) \in s
    <3>1. \A s \in SUBSET T : IsFiniteSet(s) /\ s \in SUBSET Nat BY FS_Subset
    <3> QED BY <3>1, LastIs
  <2> HIDE DEF G
  <2>4. ASSUME NEW u \in SUBSET T, u # T
        PROVE  new[u] = G(u)[u]
    <3>1. G(u)[u] = IF u = {} THEN Start ELSE Step(kind, db, rows[Max(u)], G(u)[rest(u)])
      <4>1. Folds(G(u), u, kind, db, rows) /\ u \in SUBSET u BY <2>2, <2>4
      <4> HIDE DEF rest, new
      <4>2. \A s \in SUBSET u :
              G(u)[s] = IF s = {} THEN Start ELSE Step(kind, db, rows[Max(s)], G(u)[s \ {Max(s)}])
        BY <4>1 DEF Folds
      <4> QED BY <4>1, <4>2 DEF rest
    <3>2. new[u] = IF u = {} THEN Start ELSE Step(kind, db, rows[Max(u)], G(rest(u))[rest(u)]) OBVIOUS
    <3>3. CASE u = {} BY <3>1, <3>2, <3>3
    <3>4. CASE u # {}
      <4>1. rest(u) \in SUBSET T /\ rest(u) # T /\ rest(u) \in SUBSET u BY <2>3, <2>4, <3>4
      <4>2. Folds(G(rest(u)), rest(u), kind, db, rows) /\ Folds(G(u), u, kind, db, rows) BY <2>2, <2>4, <4>1
      <4>3. u \in SUBSET S /\ rest(u) \in SUBSET S /\ rest(u) \in SUBSET (u \cap rest(u)) BY <4>1
      <4> HIDE DEF rest, new
      <4>4. G(u)[rest(u)] = G(rest(u))[rest(u)] BY <4>2, <4>3, FoldUnique
      <4> QED BY <3>1, <3>2, <3>4, <4>4
    <3> QED BY <3>3, <3>4
  <2>5. \A s \in SUBSET T : s # {} => rest(s) \in SUBSET T /\ rest(s) # T BY <2>3
  <2>6. \A s \in SUBSET T : new[s] = IF s = {} THEN Start ELSE Step(kind, db, rows[Max(s)], new[rest(s)])
    <3>1. SUFFICES ASSUME NEW s \in SUBSET T
                   PROVE  new[s] = IF s = {} THEN Start ELSE Step(kind, db, rows[Max(s)], new[rest(s)])
      OBVIOUS
    <3>2. new[s] = IF s = {} THEN Start ELSE Step(kind, db, rows[Max(s)], G(rest(s))[rest(s)]) OBVIOUS
    <3> HIDE DEF rest, new
    <3>3. s # {} => new[rest(s)] = G(rest(s))[rest(s)] BY <2>4, <2>5
    <3> QED BY <3>2, <3>3
  <2>7. DOMAIN new = SUBSET T /\ new = [s \in SUBSET T |-> new[s]] OBVIOUS
  <2> HIDE DEF new
  <2>8. Folds(new, T, kind, db, rows) BY <2>6, <2>7 DEF Folds
  <2> QED BY <2>8
<1> HIDE DEF F
<1>2. SUBSET S \subseteq F BY <1>1, SubsetInduction
<1>3. S \in F BY <1>2
<1> QED BY <1>3 DEF F
-----------------------------------------------------------------------------
(* What the rows of a file write of a student.                             *)

LEMMA MergeIs ==
  ASSUME NEW f, NEW g
  PROVE  /\ DOMAIN (f ++ g) = DOMAIN f \cup DOMAIN g
         /\ \A x \in DOMAIN f : (f ++ g)[x] = f[x]
         /\ \A x \in DOMAIN g \ DOMAIN f : (f ++ g)[x] = g[x]
  BY DEF ++

LEMMA NothingIs == DOMAIN Nothing = {}
  BY DEF Nothing

ClassCell(s) == <<"class", s>>
MajorCell(s) == <<"major", s>>
DeptCell(s) == <<"dept", s>>
Personal == {"class", "major", "dept"} \X Students
Quiet == Cells \ Personal

LEMMA CellsOK ==
  /\ Personal \subseteq Cells
  /\ \A s \in Students : /\ ClassCell(s) \in Personal /\ MajorCell(s) \in Personal /\ DeptCell(s) \in Personal
                         /\ ClassCell(s) # MajorCell(s) /\ ClassCell(s) # DeptCell(s) /\ MajorCell(s) # DeptCell(s)
                         /\ <<"status", s>> \in Quiet
  /\ \A s, t \in Students : s # t => ClassCell(s) # ClassCell(t) /\ MajorCell(s) # MajorCell(t) /\ DeptCell(s) # DeptCell(t)
  /\ \A j \in Subjects : <<"subject", j>> \in Quiet /\ <<"rate", j>> \in Quiet
  /\ \A k \in Sections : <<"section", k>> \in Quiet /\ <<"lecturer", k>> \in Quiet
  /\ \A t \in Lecturers : <<"staff", t>> \in Quiet /\ <<"home", t>> \in Quiet
<1>1. Personal \subseteq Cells BY DEF Personal, Cells, StudentColumns
<1>2. \A s \in Students : /\ ClassCell(s) \in Personal /\ MajorCell(s) \in Personal /\ DeptCell(s) \in Personal
                          /\ ClassCell(s) # MajorCell(s) /\ ClassCell(s) # DeptCell(s) /\ MajorCell(s) # DeptCell(s)
                          /\ <<"status", s>> \in Quiet
  BY DEF Personal, ClassCell, MajorCell, DeptCell, Quiet, Cells, StudentColumns
<1>3. \A s, t \in Students : s # t => ClassCell(s) # ClassCell(t) /\ MajorCell(s) # MajorCell(t) /\ DeptCell(s) # DeptCell(t)
  BY DEF ClassCell, MajorCell, DeptCell
<1>4. \A j \in Subjects : <<"subject", j>> \in Quiet /\ <<"rate", j>> \in Quiet BY DEF Quiet, Personal, Cells
<1>5. \A k \in Sections : <<"section", k>> \in Quiet /\ <<"lecturer", k>> \in Quiet BY DEF Quiet, Personal, Cells
<1>6. \A t \in Lecturers : <<"staff", t>> \in Quiet /\ <<"home", t>> \in Quiet BY DEF Quiet, Personal, Cells
<1> QED BY <1>1, <1>2, <1>3, <1>4, <1>5, <1>6

LEMMA EnrollmentQuiet ==
  ASSUME NEW s \in Students, NEW k \in Sections
  PROVE  <<"score", s, k>> \in Quiet /\ <<"result", s, k>> \in Quiet /\ <<"banned", s, k>> \in Quiet
           /\ <<"absent", s, k>> \in Quiet
<1>1. \A x \in EnrollmentColumns : <<x, s, k>> \in EnrollmentColumns \X Students \X Sections OBVIOUS
<1>2. \A x \in EnrollmentColumns : <<x, s, k>> \in Cells BY <1>1 DEF Cells
<1>3. \A x : <<x, s, k>> \notin Personal
  BY DEF Personal
<1> QED BY <1>2, <1>3 DEF Quiet, EnrollmentColumns

\* The writes of a file, known so far, to the class and the major of a student: a class
\* that was known is only replaced by an administrative one, and, except from a gradebook,
\* a major brings its department.
Patch(kind, db, w) ==
  /\ DOMAIN w \subseteq Cells
  /\ \A s \in Students :
       /\ ClassCell(s) \in DOMAIN w =>
            w[ClassCell(s)] \in Classes /\ (db[ClassCell(s)] # None => w[ClassCell(s)] \in AdminClasses)
       /\ DeptCell(s) \in DOMAIN w => MajorCell(s) \in DOMAIN w
       /\ kind # "GRADEBOOK" /\ MajorCell(s) \in DOMAIN w =>
            /\ DeptCell(s) \in DOMAIN w
            /\ w[MajorCell(s)] # None => w[DeptCell(s)] = MajorDept[w[MajorCell(s)]]

LEMMA QuietPatch ==
  ASSUME NEW kind, NEW db, NEW w, Patch(kind, db, w), NEW q, DOMAIN q \subseteq Quiet
  PROVE  Patch(kind, db, q ++ w)
<1>1. DOMAIN (q ++ w) \subseteq Cells BY MergeIs DEF Patch, Quiet
<1>2. \A c \in Personal : c \in DOMAIN (q ++ w) <=> c \in DOMAIN w BY MergeIs DEF Quiet
<1>3. \A c \in Personal : c \in DOMAIN w => (q ++ w)[c] = w[c]
  <2>1. \A c \in DOMAIN w \ DOMAIN q : (q ++ w)[c] = w[c] BY MergeIs
  <2> QED BY <2>1 DEF Quiet
<1>4. \A s \in Students : ClassCell(s) \in Personal /\ MajorCell(s) \in Personal /\ DeptCell(s) \in Personal
  BY CellsOK
<1> HIDE DEF Personal
<1> QED BY <1>1, <1>2, <1>3, <1>4 DEF Patch

\* What a row may write when the database looks like seen: of the class and the major of
\* one student what a patch may, and whatever it likes of the rest.
Part(kind, seen, s, row) ==
  /\ DOMAIN row \subseteq Cells
  /\ Personal \cap DOMAIN row \subseteq {ClassCell(s), MajorCell(s), DeptCell(s)}
  /\ ClassCell(s) \in DOMAIN row =>
       row[ClassCell(s)] \in Classes /\ (seen[ClassCell(s)] = None \/ row[ClassCell(s)] \in AdminClasses)
  /\ DeptCell(s) \in DOMAIN row => MajorCell(s) \in DOMAIN row
  /\ kind # "GRADEBOOK" /\ MajorCell(s) \in DOMAIN row =>
       /\ DeptCell(s) \in DOMAIN row
       /\ row[MajorCell(s)] # None => row[DeptCell(s)] = MajorDept[row[MajorCell(s)]]

LEMMA StudentPatch ==
  ASSUME NEW kind, NEW db, DOMAIN db = Cells, NEW w, Patch(kind, db, w), NEW s \in Students, NEW row,
         Part(kind, w ++ db, s, row)
  PROVE  Patch(kind, db, row ++ w)
<1>1. DOMAIN (row ++ w) \subseteq Cells /\ DOMAIN (row ++ w) = DOMAIN row \cup DOMAIN w BY MergeIs DEF Patch, Part
<1>2. /\ \A c \in DOMAIN row : (row ++ w)[c] = row[c]
      /\ \A c \in DOMAIN w \ DOMAIN row : (row ++ w)[c] = w[c]
  BY MergeIs
<1>3. \A t \in Students : ClassCell(t) \in Personal /\ MajorCell(t) \in Personal /\ DeptCell(t) \in Personal
  BY CellsOK
<1>4. ASSUME NEW t \in Students, t # s
      PROVE  ClassCell(t) \notin DOMAIN row /\ MajorCell(t) \notin DOMAIN row /\ DeptCell(t) \notin DOMAIN row
  BY <1>3, <1>4 DEF ClassCell, MajorCell, DeptCell, Part
<1>5. ASSUME ClassCell(s) \in DOMAIN row, db[ClassCell(s)] # None, row[ClassCell(s)] \notin AdminClasses
      PROVE  FALSE
  <2>1. (w ++ db)[ClassCell(s)] = None BY <1>5 DEF Part
  <2>5. /\ \A c \in DOMAIN w : (w ++ db)[c] = w[c]
        /\ \A c \in DOMAIN db \ DOMAIN w : (w ++ db)[c] = db[c]
    BY DEF ++
  <2>2. ClassCell(s) \in DOMAIN db BY CellsOK
  <2>3. CASE ClassCell(s) \in DOMAIN w
    <3>1. w[ClassCell(s)] = None BY <2>1, <2>3, <2>5
    <3>2. w[ClassCell(s)] \in Classes BY <2>3 DEF Patch
    <3> QED BY <3>1, <3>2, RowsAssumption
  <2>4. CASE ClassCell(s) \notin DOMAIN w
    <3>1. (w ++ db)[ClassCell(s)] = db[ClassCell(s)] BY <2>2, <2>4, <2>5
    <3> QED BY <2>1, <3>1, <1>5
  <2> QED BY <2>3, <2>4
<1>6. \A t \in Students :
        ClassCell(t) \in DOMAIN (row ++ w) =>
          /\ (row ++ w)[ClassCell(t)] \in Classes
          /\ db[ClassCell(t)] # None => (row ++ w)[ClassCell(t)] \in AdminClasses
  BY <1>1, <1>2, <1>4, <1>5 DEF Patch, Part
<1>7. \A t \in Students : DeptCell(t) \in DOMAIN (row ++ w) => MajorCell(t) \in DOMAIN (row ++ w)
  BY <1>1, <1>4 DEF Patch, Part
<1>8. ASSUME NEW t \in Students, kind # "GRADEBOOK", MajorCell(t) \in DOMAIN (row ++ w)
      PROVE  /\ DeptCell(t) \in DOMAIN (row ++ w)
             /\ (row ++ w)[MajorCell(t)] # None =>
                  (row ++ w)[DeptCell(t)] = MajorDept[(row ++ w)[MajorCell(t)]]
  <2>1. CASE t = s /\ MajorCell(s) \in DOMAIN row BY <2>1, <1>1, <1>2, <1>8 DEF Part
  <2>2. CASE t # s \/ MajorCell(s) \notin DOMAIN row
    <3>1. MajorCell(t) \notin DOMAIN row /\ DeptCell(t) \notin DOMAIN row BY <2>2, <1>4 DEF Part
    <3>2. MajorCell(t) \in DOMAIN w BY <3>1, <1>1, <1>8
    <3>3. DeptCell(t) \in DOMAIN w BY <3>2, <1>8 DEF Patch
    <3>4. (row ++ w)[MajorCell(t)] = w[MajorCell(t)] /\ (row ++ w)[DeptCell(t)] = w[DeptCell(t)]
      BY <3>1, <3>2, <3>3, <1>2
    <3>5. w[MajorCell(t)] # None => w[DeptCell(t)] = MajorDept[w[MajorCell(t)]] BY <3>2, <1>8 DEF Patch
    <3> QED BY <3>3, <3>4, <3>5, <1>1
  <2> QED BY <2>1, <2>2
<1> QED BY <1>1, <1>6, <1>7, <1>8 DEF Patch
LEMMA QuietWhen ==
  ASSUME NEW b, NEW q, DOMAIN q \subseteq Quiet
  PROVE  DOMAIN When(b, q) \subseteq Quiet
  BY NothingIs DEF When

LEMMA QuietMerge ==
  ASSUME NEW p, NEW q, DOMAIN p \subseteq Quiet, DOMAIN q \subseteq Quiet
  PROVE  DOMAIN (p ++ q) \subseteq Quiet
  BY MergeIs

LEMMA QuietOne ==
  ASSUME NEW c \in Quiet, NEW v
  PROVE  DOMAIN (c := v) \subseteq Quiet
  BY DEF :=

LEMMA PartWhen ==
  ASSUME NEW kind, NEW seen, NEW s, NEW row, NEW b, b => Part(kind, seen, s, row)
  PROVE  Part(kind, seen, s, When(b, row))
<1>1. CASE b BY <1>1 DEF When
<1>2. CASE ~b BY <1>2, NothingIs DEF When, Part
<1> QED BY <1>1, <1>2

\* Writes of other cells change nothing in this.
LEMMA PartQuiet ==
  ASSUME NEW kind, NEW seen, NEW s \in Students, NEW row, Part(kind, seen, s, row), NEW q, DOMAIN q \subseteq Quiet
  PROVE  Part(kind, seen, s, q ++ row) /\ Part(kind, seen, s, row ++ q)
<1>1. DOMAIN (q ++ row) = DOMAIN q \cup DOMAIN row /\ DOMAIN (row ++ q) = DOMAIN q \cup DOMAIN row BY MergeIs
<1>2. \A c \in Personal : c \notin DOMAIN q BY DEF Quiet
<1>3. \A c \in Personal : c \in DOMAIN row => (q ++ row)[c] = row[c] /\ (row ++ q)[c] = row[c] BY <1>2 DEF ++
<1>4. ClassCell(s) \in Personal /\ MajorCell(s) \in Personal /\ DeptCell(s) \in Personal BY CellsOK
<1>5. DOMAIN q \subseteq Cells BY DEF Quiet
<1> HIDE DEF Personal
<1>6. ASSUME NEW x, DOMAIN x = DOMAIN q \cup DOMAIN row, \A c \in Personal : c \in DOMAIN row => x[c] = row[c]
      PROVE  Part(kind, seen, s, x)
  BY <1>2, <1>4, <1>5, <1>6 DEF Part
<1> QED BY <1>1, <1>3, <1>6

LEMMA NewSectionQuiet ==
  ASSUME NEW k \in Sections, NEW j, NEW t
  PROVE  DOMAIN NewSection(k, j, t) \subseteq Quiet
<1>1. <<"section", k>> \in Quiet /\ <<"lecturer", k>> \in Quiet BY CellsOK
<1> QED BY <1>1, QuietMerge, QuietOne DEF NewSection

LEMMA EnrollsQuiet ==
  ASSUME NEW s \in Students, NEW k \in Sections, NEW score, NEW result, NEW banned, NEW absent
  PROVE  DOMAIN Enrolls(s, k, score, result, banned, absent) \subseteq Quiet
<1>1. \A v : /\ DOMAIN (<<"score", s, k>> := v) \subseteq Quiet /\ DOMAIN (<<"result", s, k>> := v) \subseteq Quiet
             /\ DOMAIN (<<"banned", s, k>> := v) \subseteq Quiet /\ DOMAIN (<<"absent", s, k>> := v) \subseteq Quiet
  BY EnrollmentQuiet, QuietOne
<1> QED BY <1>1, QuietMerge DEF Enrolls

LEMMA CatalogQuiet ==
  ASSUME NEW db, NEW r, r.subject \in Subjects
  PROVE  DOMAIN CatalogRow(db, r) \subseteq Quiet
<1>1. <<"subject", r.subject>> \in Quiet /\ <<"rate", r.subject>> \in Quiet BY CellsOK
<1> QED BY <1>1, QuietMerge, QuietOne, QuietWhen DEF CatalogRow

LEMMA LecturerQuiet ==
  ASSUME NEW db, NEW r, r.lecturer \in Lecturers
  PROVE  DOMAIN LecturerRow(db, r) \subseteq Quiet
<1>1. <<"staff", r.lecturer>> \in Quiet /\ <<"home", r.lecturer>> \in Quiet BY CellsOK
<1> QED BY <1>1, QuietMerge, QuietOne, QuietWhen DEF LecturerRow

LEMMA AttendanceQuiet ==
  ASSUME NEW db, NEW r, r.student \in Students, r.subject \in Subjects, r.section \in Sections
  PROVE  DOMAIN GradeAttendanceRow(db, r) \subseteq Quiet
<1> DEFINE s == r.student
           k == r.section
<1>1. <<"rate", r.subject>> \in Quiet BY CellsOK
<1>2. \A v : /\ DOMAIN (<<"score", s, k>> := v) \subseteq Quiet /\ DOMAIN (<<"result", s, k>> := v) \subseteq Quiet
             /\ DOMAIN (<<"banned", s, k>> := v) \subseteq Quiet /\ DOMAIN (<<"absent", s, k>> := v) \subseteq Quiet
  BY EnrollmentQuiet, QuietOne
<1>3. DOMAIN Enrolls(s, k, None, "IN_PROGRESS", FALSE, None) \subseteq Quiet BY EnrollsQuiet
<1>4. \A c, v : DOMAIN When(c, <<"score", s, k>> := v) \subseteq Quiet BY <1>2, QuietWhen
<1>5. \A c, v, u : DOMAIN When(c, (<<"result", s, k>> := v) ++ (<<"banned", s, k>> := u)) \subseteq Quiet
  BY <1>2, QuietMerge, QuietWhen
<1>6. \A c, v : DOMAIN When(c, <<"absent", s, k>> := v) \subseteq Quiet BY <1>2, QuietWhen
<1>7. \A c : DOMAIN When(c, Enrolls(s, k, None, "IN_PROGRESS", FALSE, None)) \subseteq Quiet BY <1>3, QuietWhen
<1>8. \A c, v : DOMAIN When(c, <<"rate", r.subject>> := v) \subseteq Quiet BY <1>1, QuietOne, QuietWhen
<1> DEFINE given == When(r.score # None, <<"score", s, k>> := r.score)
                      ++ When(r.label # None, (<<"result", s, k>> := ResultOf[r.label])
                                                ++ (<<"banned", s, k>> := (r.label = "attendance_failed")))
                      ++ When(r.absent # None, <<"absent", s, k>> := r.absent)
           new == When(db[<<"result", s, k>>] = None, Enrolls(s, k, None, "IN_PROGRESS", FALSE, None))
           rate == When(r.rate # None /\ db[<<"subject", r.subject>>] # None, <<"rate", r.subject>> := r.rate)
<1>9. DOMAIN given \subseteq Quiet BY <1>4, <1>5, <1>6, QuietMerge
<1>10. GradeAttendanceRow(db, r) =
         rate ++ When(db[<<"class", s>>] # None /\ db[<<"section", k>>] # None, given ++ new)
  BY DEF GradeAttendanceRow
<1>11. DOMAIN rate \subseteq Quiet /\ DOMAIN new \subseteq Quiet BY <1>7, <1>8
<1> HIDE DEF given, new, rate
<1>12. DOMAIN (given ++ new) \subseteq Quiet BY <1>9, <1>11, QuietMerge
<1>13. DOMAIN When(db[<<"class", s>>] # None /\ db[<<"section", k>>] # None, given ++ new) \subseteq Quiet
  BY <1>12, QuietWhen
<1> QED BY <1>10, <1>11, <1>13, QuietMerge

LEMMA SectionQuiet ==
  ASSUME NEW db, NEW acc, NEW r, r.subject \in Subjects, r.section \in Sections
  PROVE  \E q : DOMAIN q \subseteq Quiet /\ SectionRow(db, acc, r).writes = q ++ acc.writes
<1>1. <<"subject", r.subject>> \in Quiet /\ <<"rate", r.subject>> \in Quiet BY CellsOK
<1>2. \A v, u : DOMAIN ((<<"subject", r.subject>> := v) ++ (<<"rate", r.subject>> := u)) \subseteq Quiet
  BY <1>1, QuietMerge, QuietOne
<1>3. \A j, t : DOMAIN NewSection(r.section, j, t) \subseteq Quiet BY NewSectionQuiet
<1>4. \E creates, stored, d, j, t :
        SectionRow(db, acc, r).writes =
          (When(creates, (<<"subject", r.subject>> := d) ++ (<<"rate", r.subject>> := None))
             ++ When(stored, NewSection(r.section, j, t))) ++ acc.writes
  BY DEF SectionRow
<1>5. \A creates, stored, d, j, t :
        DOMAIN (When(creates, (<<"subject", r.subject>> := d) ++ (<<"rate", r.subject>> := None))
                  ++ When(stored, NewSection(r.section, j, t))) \subseteq Quiet
  BY <1>2, <1>3, QuietMerge, QuietWhen
<1> QED BY <1>4, <1>5
LEMMA NewStudent ==
  ASSUME NEW kind, NEW seen, NEW s \in Students, seen[ClassCell(s)] = None,
         NEW class \in Classes, NEW major, NEW dept, kind # "GRADEBOOK" /\ major # None => dept = MajorDept[major]
  PROVE  Part(kind, seen, s, (<<"class", s>> := class) ++ (<<"major", s>> := major) ++ (<<"dept", s>> := dept))
<1> DEFINE row == (<<"class", s>> := class) ++ (<<"major", s>> := major) ++ (<<"dept", s>> := dept)
<1>1. /\ DOMAIN row = {ClassCell(s), MajorCell(s), DeptCell(s)}
      /\ row[ClassCell(s)] = class /\ row[MajorCell(s)] = major /\ row[DeptCell(s)] = dept
  BY DEF ++, :=, ClassCell, MajorCell, DeptCell
<1>2. ClassCell(s) \in Cells /\ MajorCell(s) \in Cells /\ DeptCell(s) \in Cells BY CellsOK
<1> HIDE DEF row
<1>3. Part(kind, seen, s, row) BY <1>1, <1>2 DEF Part
<1> QED BY <1>3 DEF row

\* A student that is known is given a better class.
LEMMA BetterPart ==
  ASSUME NEW kind, NEW seen, NEW s \in Students, NEW class
  PROVE  LET row == When(BetterClass(seen, s, class), <<"class", s>> := class) IN
         Part(kind, seen, s, row) /\ DOMAIN row \subseteq {ClassCell(s)}
<1>1. DOMAIN (<<"class", s>> := class) = {ClassCell(s)} /\ (<<"class", s>> := class)[ClassCell(s)] = class
  BY DEF :=, ClassCell
<1>2. ClassCell(s) \in Cells /\ ClassCell(s) # MajorCell(s) /\ ClassCell(s) # DeptCell(s) BY CellsOK
<1>3. BetterClass(seen, s, class) => Part(kind, seen, s, <<"class", s>> := class)
  BY <1>1, <1>2, RowsAssumption DEF Part, BetterClass
<1> HIDE DEF BetterClass
<1>4. DOMAIN When(BetterClass(seen, s, class), <<"class", s>> := class) \subseteq {ClassCell(s)}
  BY <1>1, NothingIs DEF When
<1> QED BY <1>3, <1>4, PartWhen

\* A student that is known is given a major.
LEMMA FillsPart ==
  ASSUME NEW kind, NEW seen, NEW s \in Students, NEW b, NEW major
  PROVE  LET row == When(b, (<<"major", s>> := major) ++ (<<"dept", s>> := MajorDept[major])) IN
         Part(kind, seen, s, row) /\ DOMAIN row \subseteq {MajorCell(s), DeptCell(s)}
<1> DEFINE row == (<<"major", s>> := major) ++ (<<"dept", s>> := MajorDept[major])
<1>1. /\ DOMAIN row = {MajorCell(s), DeptCell(s)}
      /\ row[MajorCell(s)] = major /\ row[DeptCell(s)] = MajorDept[major]
  BY DEF ++, :=, MajorCell, DeptCell
<1>2. MajorCell(s) \in Cells /\ DeptCell(s) \in Cells /\ ClassCell(s) # MajorCell(s) /\ ClassCell(s) # DeptCell(s)
  BY CellsOK
<1> HIDE DEF row
<1>3. Part(kind, seen, s, row) BY <1>1, <1>2 DEF Part
<1>4. DOMAIN When(b, row) \subseteq {MajorCell(s), DeptCell(s)} BY <1>1, NothingIs DEF When
<1>5. Part(kind, seen, s, When(b, row)) BY <1>3, PartWhen
<1> QED BY <1>4, <1>5 DEF row

\* A gradebook gives the major without a department.
LEMMA PrefixPart ==
  ASSUME NEW seen, NEW s \in Students, NEW b, NEW major
  PROVE  LET row == When(b, <<"major", s>> := major) IN
         Part("GRADEBOOK", seen, s, row) /\ DOMAIN row \subseteq {MajorCell(s), DeptCell(s)}
<1>1. DOMAIN (<<"major", s>> := major) = {MajorCell(s)} BY DEF :=, MajorCell
<1>2. MajorCell(s) \in Cells /\ ClassCell(s) # MajorCell(s) /\ MajorCell(s) # DeptCell(s)
  BY CellsOK
<1>3. Part("GRADEBOOK", seen, s, <<"major", s>> := major) BY <1>1, <1>2 DEF Part
<1>4. DOMAIN When(b, <<"major", s>> := major) \subseteq {MajorCell(s), DeptCell(s)} BY <1>1, NothingIs DEF When
<1> QED BY <1>3, <1>4, PartWhen

LEMMA PartBoth ==
  ASSUME NEW kind, NEW seen, NEW s \in Students, NEW f, NEW g, Part(kind, seen, s, f), Part(kind, seen, s, g),
         DOMAIN f \subseteq {MajorCell(s), DeptCell(s)}, DOMAIN g \subseteq {ClassCell(s)}
  PROVE  Part(kind, seen, s, f ++ g)
<1>1. DOMAIN (f ++ g) = DOMAIN f \cup DOMAIN g BY MergeIs
<1>2. ClassCell(s) # MajorCell(s) /\ ClassCell(s) # DeptCell(s) BY CellsOK
<1>3. /\ ClassCell(s) \in DOMAIN g => (f ++ g)[ClassCell(s)] = g[ClassCell(s)]
      /\ MajorCell(s) \in DOMAIN f => (f ++ g)[MajorCell(s)] = f[MajorCell(s)]
      /\ DeptCell(s) \in DOMAIN f => (f ++ g)[DeptCell(s)] = f[DeptCell(s)]
  BY <1>2 DEF ++
<1> QED BY <1>1, <1>2, <1>3 DEF Part

LEMMA RosterPart ==
  ASSUME NEW db, NEW r, r.student \in Students, r.class \in Classes, r.subject \in Subjects, r.section \in Sections
  PROVE  Part("ROSTER", db, r.student, RosterRow(db, r))
<1> DEFINE s == r.student
           k == r.section
           isNew == db[<<"class", s>>] = None
           status == IF r.status = None THEN "STUDYING" ELSE r.status
           old == FillsMajor(db, s, r.major)
                    ++ When(BetterClass(db, s, r.class), <<"class", s>> := r.class)
                    ++ When(r.status # None, <<"status", s>> := r.status)
           new(dept) == (<<"class", s>> := r.class) ++ (<<"major", s>> := r.major)
                          ++ (<<"dept", s>> := IF r.major # None THEN MajorDept[r.major] ELSE dept)
                          ++ (<<"status", s>> := status)
           student(dept) == IF isNew THEN new(dept) ELSE old
<1>1. \A dept : isNew => Part("ROSTER", db, s, new(dept))
  <2>1. SUFFICES ASSUME NEW dept, isNew PROVE Part("ROSTER", db, s, new(dept)) OBVIOUS
  <2>2. Part("ROSTER", db, s, (<<"class", s>> := r.class) ++ (<<"major", s>> := r.major)
                          ++ (<<"dept", s>> := IF r.major # None THEN MajorDept[r.major] ELSE dept))
    BY <2>1, NewStudent DEF ClassCell
  <2>3. DOMAIN (<<"status", s>> := status) \subseteq Quiet BY CellsOK, QuietOne
  <2> QED BY <2>2, <2>3, PartQuiet
<1>2. Part("ROSTER", db, s, old)
  <2> DEFINE fills == FillsMajor(db, s, r.major)
             class == When(BetterClass(db, s, r.class), <<"class", s>> := r.class)
             q == When(r.status # None, <<"status", s>> := r.status)
  <2>1. Part("ROSTER", db, s, fills) /\ DOMAIN fills \subseteq {MajorCell(s), DeptCell(s)}
    BY FillsPart DEF FillsMajor
  <2>2. Part("ROSTER", db, s, class) /\ DOMAIN class \subseteq {ClassCell(s)} BY BetterPart
  <2>3. DOMAIN q \subseteq Quiet BY CellsOK, QuietOne, QuietWhen
  <2> HIDE DEF fills, class, q
  <2>4. Part("ROSTER", db, s, fills ++ class) BY <2>1, <2>2, PartBoth
  <2>5. Part("ROSTER", db, s, fills ++ class ++ q) BY <2>3, <2>4, PartQuiet
  <2> QED BY <2>5 DEF fills, class, q
<1>3. \A dept : Part("ROSTER", db, s, student(dept)) BY <1>1, <1>2
<1>4. \A dept, b : DOMAIN When(b, (<<"subject", r.subject>> := dept) ++ (<<"rate", r.subject>> := None)) \subseteq Quiet
  <2>1. <<"subject", r.subject>> \in Quiet /\ <<"rate", r.subject>> \in Quiet BY CellsOK
  <2> QED BY <2>1, QuietMerge, QuietOne, QuietWhen
<1>5. \A b : DOMAIN When(b, NewSection(k, r.subject, None)) \subseteq Quiet BY NewSectionQuiet, QuietWhen
<1>6. \A b : DOMAIN When(b, Enrolls(s, k, None, "IN_PROGRESS", FALSE, None)) \subseteq Quiet BY EnrollsQuiet, QuietWhen
<1> DEFINE taught == db[<<"section", k>>]
           fallback == IF r.major # None THEN MajorDept[r.major] ELSE HomeDept[r.subject]
           dept == CASE db[<<"subject", r.subject>>] # None -> db[<<"subject", r.subject>>]
                     [] db[<<"subject", r.subject>>] = None /\ taught # None -> db[<<"subject", taught>>]
                     [] OTHER -> fallback
           x == When(db[<<"subject", r.subject>>] = None /\ taught = None,
                     (<<"subject", r.subject>> := dept) ++ (<<"rate", r.subject>> := None))
           y == When(taught = None, NewSection(k, r.subject, None))
           z == When(db[<<"result", s, k>>] = None, Enrolls(s, k, None, "IN_PROGRESS", FALSE, None))
<1>7. RosterRow(db, r) = When(dept # None, x ++ y ++ student(dept) ++ z) BY DEF RosterRow
<1> HIDE DEF student, taught, dept
<1>8. DOMAIN x \subseteq Quiet /\ DOMAIN y \subseteq Quiet /\ DOMAIN z \subseteq Quiet BY <1>4, <1>5, <1>6
<1> HIDE DEF x, y, z
<1>9. DOMAIN (x ++ y) \subseteq Quiet BY <1>8, QuietMerge
<1>10. Part("ROSTER", db, s, (x ++ y) ++ student(dept)) BY <1>3, <1>9, PartQuiet
<1>11. Part("ROSTER", db, s, ((x ++ y) ++ student(dept)) ++ z) BY <1>8, <1>10, PartQuiet
<1> QED BY <1>7, <1>11, PartWhen

LEMMA GradebookPart ==
  ASSUME NEW db, NEW r, r.student \in Students, r.class \in Classes, r.subject \in Subjects, r.section \in Sections
  PROVE  Part("GRADEBOOK", db, r.student, GradebookRow(db, r))
<1> DEFINE s == r.student
           k == r.section
           major == IF r.class \in AdminClasses THEN ClassMajor[r.class] ELSE None
           result == IF r.label \in DOMAIN ResultOf THEN ResultOf[r.label] ELSE "IN_PROGRESS"
           isNew == db[<<"class", s>>] = None
           new == (<<"class", s>> := r.class) ++ (<<"major", s>> := major)
                    ++ (<<"dept", s>> := db[<<"subject", r.subject>>]) ++ (<<"status", s>> := "STUDYING")
           old == When(db[<<"major", s>>] = None /\ major # None, <<"major", s>> := major)
                    ++ When(BetterClass(db, s, r.class), <<"class", s>> := r.class)
           student == IF isNew THEN new ELSE old
           y == When(db[<<"section", k>>] = None, NewSection(k, r.subject, None))
           z == IF db[<<"result", s, k>>] = None
                  THEN Enrolls(s, k, r.score, result, FALSE, None)
                  ELSE (<<"score", s, k>> := r.score) ++ (<<"result", s, k>> := result)
<1>1. isNew => Part("GRADEBOOK", db, s, new)
  <2>1. SUFFICES ASSUME isNew PROVE Part("GRADEBOOK", db, s, new) OBVIOUS
  <2>2. Part("GRADEBOOK", db, s, (<<"class", s>> := r.class) ++ (<<"major", s>> := major)
                                   ++ (<<"dept", s>> := db[<<"subject", r.subject>>]))
    BY <2>1, NewStudent DEF ClassCell
  <2>3. DOMAIN (<<"status", s>> := "STUDYING") \subseteq Quiet BY CellsOK, QuietOne
  <2> QED BY <2>2, <2>3, PartQuiet
<1>2. Part("GRADEBOOK", db, s, old)
  <2> DEFINE fills == When(db[<<"major", s>>] = None /\ major # None, <<"major", s>> := major)
             class == When(BetterClass(db, s, r.class), <<"class", s>> := r.class)
  <2>1. Part("GRADEBOOK", db, s, fills) /\ DOMAIN fills \subseteq {MajorCell(s), DeptCell(s)} BY PrefixPart
  <2>2. Part("GRADEBOOK", db, s, class) /\ DOMAIN class \subseteq {ClassCell(s)} BY BetterPart
  <2> HIDE DEF fills, class
  <2>3. Part("GRADEBOOK", db, s, fills ++ class) BY <2>1, <2>2, PartBoth
  <2> QED BY <2>3 DEF fills, class
<1>3. Part("GRADEBOOK", db, s, student) BY <1>1, <1>2
<1>4. DOMAIN y \subseteq Quiet BY NewSectionQuiet, QuietWhen
<1>5. DOMAIN z \subseteq Quiet
  <2>1. DOMAIN Enrolls(s, k, r.score, result, FALSE, None) \subseteq Quiet BY EnrollsQuiet
  <2>2. DOMAIN ((<<"score", s, k>> := r.score) ++ (<<"result", s, k>> := result)) \subseteq Quiet
    BY EnrollmentQuiet, QuietOne, QuietMerge
  <2> QED BY <2>1, <2>2
<1>6. GradebookRow(db, r) =
        When(db[<<"subject", r.subject>>] # None /\ db[<<"section", k>>] \in {None, r.subject}, student ++ y ++ z)
  BY DEF GradebookRow
<1> HIDE DEF student, y, z
<1>7. Part("GRADEBOOK", db, s, student ++ y) BY <1>3, <1>4, PartQuiet
<1>8. Part("GRADEBOOK", db, s, (student ++ y) ++ z) BY <1>5, <1>7, PartQuiet
<1> QED BY <1>6, <1>8, PartWhen

-----------------------------------------------------------------------------
(* From row to row, and from the first row to the last.                    *)

\* What a committer is left with after some rows of a file.
Held(kind, db, acc) == DOMAIN acc = {"writes", "done", "alias"} /\ Patch(kind, db, acc.writes)

LEMMA StepKeeps ==
  ASSUME NEW kind \in Kinds, NEW db, DOMAIN db = Cells, NEW rows \in Seq(FileRow(kind)),
         NEW i \in ValidRows(kind, rows), NEW acc, Held(kind, db, acc)
  PROVE  Held(kind, db, Step(kind, db, rows[i], acc))
<1> DEFINE r == rows[i]
<1>1. r \in FileRow(kind) /\ \A f \in Required(kind) : r[f] # None
  BY DEF ValidRows, Accepted
<1>2. ASSUME kind \in {"SECTION_LIST", "SCHEDULE"} PROVE Held(kind, db, Step(kind, db, r, acc))
  <2>1. r.subject \in Subjects /\ r.section \in Sections
    BY <1>1, <1>2 DEF FileRow, Required, Maybe
  <2>2. PICK q : DOMAIN q \subseteq Quiet /\ SectionRow(db, acc, r).writes = q ++ acc.writes BY <2>1, SectionQuiet
  <2>3. Patch(kind, db, SectionRow(db, acc, r).writes) BY <2>2, QuietPatch DEF Held
  <2>4. DOMAIN SectionRow(db, acc, r) = {"writes", "done", "alias"} BY DEF SectionRow
  <2> QED BY <1>2, <2>3, <2>4 DEF Held, Step
<1>3. ASSUME kind \notin {"SECTION_LIST", "SCHEDULE"},
             Patch(kind, db, Row(kind, acc.writes ++ db, r) ++ acc.writes)
      PROVE  Held(kind, db, Step(kind, db, r, acc))
  BY <1>3 DEF Held, Step
<1>4. ASSUME kind \in {"CATALOG", "LECTURER", "GRADE_ATTENDANCE"}
      PROVE  Patch(kind, db, Row(kind, acc.writes ++ db, r) ++ acc.writes)
  <2>1. DOMAIN Row(kind, acc.writes ++ db, r) \subseteq Quiet
    <3>1. CASE kind = "CATALOG"
      <4>1. r.subject \in Subjects BY <1>1, <3>1 DEF FileRow, Required, Maybe
      <4> QED BY <3>1, <4>1, CatalogQuiet DEF Row
    <3>2. CASE kind = "LECTURER"
      <4>1. r.lecturer \in Lecturers BY <1>1, <3>2 DEF FileRow, Required, Maybe
      <4> QED BY <3>2, <4>1, LecturerQuiet DEF Row
    <3>3. CASE kind = "GRADE_ATTENDANCE"
      <4>1. r.student \in Students /\ r.subject \in Subjects /\ r.section \in Sections
        BY <1>1, <3>3 DEF FileRow, Required, Maybe
      <4> QED BY <3>3, <4>1, AttendanceQuiet DEF Row
    <3> QED BY <1>4, <3>1, <3>2, <3>3
  <2> QED BY <2>1, QuietPatch DEF Held
<1>5. ASSUME kind = "ROSTER"
      PROVE  Patch(kind, db, Row(kind, acc.writes ++ db, r) ++ acc.writes)
  <2>1. r.student \in Students /\ r.class \in Classes /\ r.subject \in Subjects /\ r.section \in Sections
    BY <1>1, <1>5 DEF FileRow, Required, Maybe
  <2>2. Part(kind, acc.writes ++ db, r.student, Row(kind, acc.writes ++ db, r)) BY <1>5, <2>1, RosterPart DEF Row
  <2> QED BY <2>1, <2>2, StudentPatch DEF Held
<1>6. ASSUME kind = "GRADEBOOK"
      PROVE  Patch(kind, db, Row(kind, acc.writes ++ db, r) ++ acc.writes)
  <2>1. r.student \in Students /\ r.class \in Classes /\ r.subject \in Subjects /\ r.section \in Sections
    BY <1>1, <1>6 DEF FileRow, Required, Maybe
  <2>2. Part(kind, acc.writes ++ db, r.student, Row(kind, acc.writes ++ db, r)) BY <1>6, <2>1, GradebookPart DEF Row
  <2> QED BY <2>1, <2>2, StudentPatch DEF Held
<1> QED BY <1>2, <1>3, <1>4, <1>5, <1>6 DEF Kinds

LEMMA WritesPatch ==
  ASSUME NEW kind \in Kinds, NEW db, DOMAIN db = Cells, NEW rows \in Seq(FileRow(kind))
  PROVE  Patch(kind, db, Writes(kind, db, rows))
<1> DEFINE S == ValidRows(kind, rows)
           g == CHOOSE h : Folds(h, S, kind, db, rows)
           F == {s \in SUBSET S : Held(kind, db, g[s])}
<1>1. S \in SUBSET Nat /\ IsFiniteSet(S)
  <2>1. S \subseteq 1..Len(rows) BY DEF ValidRows
  <2> HIDE DEF S
  <2>2. IsFiniteSet(1..Len(rows)) /\ 1..Len(rows) \subseteq Nat
    <3>1. Len(rows) \in Nat OBVIOUS
    <3> QED BY <3>1, FS_Interval
  <2>3. IsFiniteSet(S) BY <2>1, <2>2, FS_Subset
  <2> QED BY <2>1, <2>2, <2>3
<1>2. Folds(g, S, kind, db, rows) BY <1>1, FoldExists
<1>3. Held(kind, db, Start)
  BY NothingIs DEF Start, Held, Patch
<1>4. \A T \in SUBSET S : (\A U \in SUBSET T : U # T => U \in F) => T \in F
  <2> HIDE DEF g, S
  <2>1. SUFFICES ASSUME NEW T \in SUBSET S, \A U \in SUBSET T : U # T => U \in F
                 PROVE  Held(kind, db, g[T])
    OBVIOUS
  <2>2. g[T] = IF T = {} THEN Start ELSE Step(kind, db, rows[Max(T)], g[T \ {Max(T)}]) BY <1>2 DEF Folds
  <2>3. CASE T = {} BY <2>2, <2>3, <1>3
  <2>4. CASE T # {}
    <3>1. IsFiniteSet(T) BY <1>1, FS_Subset
    <3>2. Max(T) \in T BY <1>1, <2>4, <3>1, LastIs
    <3>3. T \ {Max(T)} \in F BY <2>1, <3>2
    <3>4. Held(kind, db, g[T \ {Max(T)}]) BY <3>3
    <3>5. Max(T) \in ValidRows(kind, rows) BY <3>2 DEF S
    <3> QED BY <2>2, <2>4, <3>4, <3>5, StepKeeps
  <2> QED BY <2>3, <2>4
<1>5. Held(kind, db, g[S])
  <2> HIDE DEF F, S, g
  <2>1. SUBSET S \subseteq F BY <1>1, <1>4, SubsetInduction
  <2> QED BY <2>1 DEF F
<1>6. Writes(kind, db, rows) = g[S].writes BY DEF Writes, MapThenFoldSet, Folds
<1> HIDE DEF g, S
<1> QED BY <1>5, <1>6 DEF Held
-----------------------------------------------------------------------------
(* The inductive invariant of the data: what a transaction at work is      *)
(* about to write, and whether the batch it writes is there.               *)

InRows(kind, rows) == kind \in Kinds /\ rows \in Seq(FileRow(kind))

\* The rows of a batch are rows of its kind, staged or not.
BatchesOK ==
  \A b \in Batches : /\ batch[b].status \in Statuses
                     /\ batch[b].status # "none" => InRows(batch[b].kind, batch[b].rows)

\* What a transaction at work will write: a class of its own only where it creates the
\* student, and, except from a gradebook, a major with its department.
Pending(kind, w, fresh) ==
  /\ DOMAIN w \subseteq Cells /\ fresh \subseteq DOMAIN w \cap Keys
  /\ \A s \in Students :
       /\ ClassCell(s) \in DOMAIN w => w[ClassCell(s)] \in AdminClasses \/ ClassCell(s) \in fresh
       /\ DeptCell(s) \in DOMAIN w => MajorCell(s) \in DOMAIN w
       /\ kind # "GRADEBOOK" /\ MajorCell(s) \in DOMAIN w =>
            /\ DeptCell(s) \in DOMAIN w
            /\ w[MajorCell(s)] # None => w[DeptCell(s)] = MajorDept[w[MajorCell(s)]]

Consistent(r) ==
  /\ r.pc \in Steps /\ (r.pc = "idle" <=> r.batch = None)
  /\ r.pc # "idle" => r.batch \in Batches /\ batch[r.batch].status # "none"
  /\ r.pc \in {"stage", "begin", "write"} => InRows(r.kind, r.rows)
  /\ r.pc = "stage" => batch[r.batch].kind = r.kind
  /\ Pending(r.kind, r.writes, r.fresh)

Bounds ==
  /\ DOMAIN cell = Cells /\ byPrefix \subseteq Students
  /\ review \in [Batches -> {"none", "due", "done", "failed", "lost"}]
  /\ edits \in 0..MaxEdits /\ faults \in 0..MaxFaults

Sound == Bounds /\ BatchesOK /\ (\A c \in Callers : Consistent(req[c])) /\ DepartmentFollowsMajor

LEMMA IdleOK == Consistent(Idle)
<1>1. None \notin Batches BY ImportsAssumption
<1>2. Pending(None, Nothing, {}) BY NothingIs DEF Pending
<1> QED BY <1>1, <1>2 DEF Consistent, Idle, Steps

LEMMA NothingPending ==
  ASSUME NEW kind
  PROVE  Pending(kind, Nothing, {})
  BY NothingIs DEF Pending

LEMMA InitSound ==
  ASSUME Init
  PROVE  Sound
<1>1. Bounds BY ImportsAssumption DEF Init, Bounds
<1>2. BatchesOK BY DEF Init, BatchesOK, NoBatch, Statuses
<1>3. \A c \in Callers : Consistent(req[c])
  <2>1. \A c \in Callers : req[c] = Idle BY DEF Init
  <2> QED BY <2>1, IdleOK
<1>4. DepartmentFollowsMajor BY ImportsAssumption DEF Init, DepartmentFollowsMajor
<1> QED BY <1>1, <1>2, <1>3, <1>4 DEF Sound

\* A batch that is there stays there and keeps its kind.
KeepsBatches ==
  \A b \in Batches : batch[b].status # "none" => batch'[b].status # "none" /\ batch'[b].kind = batch[b].kind

LEMMA RequestKept ==
  ASSUME Sound, KeepsBatches, NEW c \in Callers, req'[c] = req[c]
  PROVE  Consistent(req[c])'
<1>1. Consistent(req[c]) BY DEF Sound
<1> QED BY <1>1 DEF Consistent, KeepsBatches

\* One request moves on, the others stay where they are.
LEMMA RequestMoves ==
  ASSUME Sound, Shape, KeepsBatches, NEW c \in Callers, NEW r, req' = [req EXCEPT ![c] = r], Consistent(r)'
  PROVE  \A i \in Callers : Consistent(req[i])'
<1>1. ASSUME NEW i \in Callers PROVE Consistent(req[i])'
  <2>1. CASE i = c
    <3>1. req'[i] = r BY <2>1 DEF Shape
    <3> QED BY <3>1
  <2>2. CASE i # c
    <3>1. req'[i] = req[i] BY <2>2 DEF Shape
    <3> QED BY <3>1, RequestKept
  <2> QED BY <2>1, <2>2
<1> QED BY <1>1

LEMMA IdleLater == Consistent(Idle)'
<1>1. None \notin Batches BY ImportsAssumption
<1> QED BY <1>1, NothingIs DEF Consistent, Idle, Steps, Pending

LEMMA EndsSound ==
  ASSUME Sound, Shape, KeepsBatches, NEW c \in Callers, Ends(c)
  PROVE  \A i \in Callers : Consistent(req[i])'
  BY IdleLater, RequestMoves DEF Ends

\* The database is as it was.
LEMMA DataKept ==
  ASSUME Sound, UNCHANGED <<cell, byPrefix>>
  PROVE  DepartmentFollowsMajor' /\ DOMAIN cell' = Cells /\ byPrefix' \subseteq Students
  BY DEF Sound, Bounds, DepartmentFollowsMajor

LEMMA UploadsSound ==
  ASSUME Sound, Shape, NEW c \in Callers, NEW b \in Batches, NEW f \in Files, Uploads(c, b, f)
  PROVE  Sound'
<1> DEFINE new == [status |-> "PENDING", kind |-> f.kind, rows |-> <<>>, by |-> c]
           r == [pc |-> "stage", batch |-> b, kind |-> f.kind, rows |-> f.rows, writes |-> Nothing, fresh |-> {}]
<1>1. /\ batch[b].status = "none" /\ batch' = [batch EXCEPT ![b] = new] /\ req' = [req EXCEPT ![c] = r]
      /\ UNCHANGED <<cell, applied, review, byPrefix, edits, faults>>
  BY DEF Uploads
<1>2. f.kind \in Kinds /\ f.rows \in Seq(FileRow(f.kind)) BY ImportsAssumption
<1>3. /\ \A i \in Batches : i # b => batch'[i] = batch[i]
      /\ batch'[b] = new
  BY <1>1 DEF Shape
<1>4. KeepsBatches BY <1>1, <1>3 DEF KeepsBatches
<1>5. BatchesOK'
  <2>1. InRows(f.kind, <<>>) BY <1>2 DEF InRows
  <2> QED BY <1>3, <2>1 DEF Sound, BatchesOK, Statuses
<1>6. Consistent(r)'
  <2>1. b # None BY ImportsAssumption
  <2>2. batch'[b].status # "none" /\ batch'[b].kind = f.kind BY <1>3
  <2>3. r.pc \in Steps /\ r.pc # "idle" /\ r.batch # None BY <2>1 DEF Steps
  <2>4. Pending(r.kind, r.writes, r.fresh) BY NothingPending
  <2> QED BY <1>2, <2>2, <2>3, <2>4 DEF Consistent, InRows, Pending
<1>7. \A i \in Callers : Consistent(req[i])'
  <2> HIDE DEF r
  <2> QED BY <1>1, <1>4, <1>6, RequestMoves
<1> QED BY <1>1, <1>5, <1>7, DataKept DEF Sound, Bounds

LEMMA StagesSound ==
  ASSUME Sound, Shape, NEW c \in Callers, Stages(c)
  PROVE  Sound'
<1> DEFINE b == req[c].batch
<1>1. /\ req[c].pc = "stage" /\ batch' = [batch EXCEPT ![b].rows = req[c].rows] /\ Ends(c)
      /\ UNCHANGED <<cell, applied, review, byPrefix, edits, faults>>
  BY DEF Stages
<1>2. InRows(req[c].kind, req[c].rows) /\ batch[b].kind = req[c].kind BY <1>1 DEF Sound, Consistent
<1>3. /\ \A i \in Batches : i # b => batch'[i] = batch[i]
      /\ \A i \in Batches : batch'[i].status = batch[i].status /\ batch'[i].kind = batch[i].kind
      /\ b \in Batches => batch'[b].rows = req[c].rows
  BY <1>1 DEF Shape, BatchFields
<1>4. KeepsBatches BY <1>3 DEF KeepsBatches
<1>5. BatchesOK' BY <1>2, <1>3 DEF Sound, BatchesOK
<1> QED BY <1>1, <1>4, <1>5, EndsSound, DataKept DEF Sound, Bounds

LEMMA DiscardsSound ==
  ASSUME Sound, Shape, NEW c \in Callers, Discards(c)
  PROVE  Sound'
<1> DEFINE b == req[c].batch
<1>1. /\ req[c].pc = "discard" /\ batch' = [batch EXCEPT ![b].rows = <<>>, ![b].status = "CANCELLED"] /\ Ends(c)
      /\ UNCHANGED <<cell, applied, review, byPrefix, edits, faults>>
  BY DEF Discards
<1>2. b \in Batches /\ batch[b].status # "none" BY <1>1 DEF Sound, Consistent
<1>3. /\ \A i \in Batches : i # b => batch'[i] = batch[i]
      /\ batch'[b].status = "CANCELLED" /\ batch'[b].kind = batch[b].kind /\ batch'[b].rows = <<>>
  BY <1>1, <1>2 DEF Shape, BatchFields
<1>4. KeepsBatches BY <1>3 DEF KeepsBatches
<1>5. BatchesOK'
  <2>1. batch[b].kind \in Kinds BY <1>2 DEF Sound, BatchesOK, InRows
  <2>2. InRows(batch[b].kind, <<>>) BY <2>1 DEF InRows
  <2> QED BY <1>3, <2>2 DEF Sound, BatchesOK, Statuses
<1> QED BY <1>1, <1>4, <1>5, EndsSound, DataKept DEF Sound, Bounds

LEMMA ReadsSound ==
  ASSUME Sound, Shape, NEW c \in Callers, NEW b \in Batches, ReadsBatch(c, b) \/ StartsDiscard(c, b)
  PROVE  Sound'
<1>1. UNCHANGED <<cell, batch, applied, review, byPrefix, edits, faults>> BY DEF ReadsBatch, StartsDiscard
<1>2. KeepsBatches /\ BatchesOK' BY <1>1 DEF KeepsBatches, Sound, BatchesOK
<1>3. batch[b].status # "none" BY DEF ReadsBatch, StartsDiscard, MayTouch
<1>4. b # None BY ImportsAssumption
<1>5. \A i \in Callers : Consistent(req[i])'
  <2>1. ASSUME ReadsBatch(c, b) PROVE \A i \in Callers : Consistent(req[i])'
    <3> DEFINE r == [pc |-> "begin", batch |-> b, kind |-> batch[b].kind, rows |-> batch[b].rows,
                     writes |-> Nothing, fresh |-> {}]
    <3>1. req' = [req EXCEPT ![c] = r] BY <2>1 DEF ReadsBatch
    <3>2. InRows(batch[b].kind, batch[b].rows) BY <1>3 DEF Sound, BatchesOK
    <3>3. PICK x : x = r OBVIOUS
    <3>4. /\ x.pc = "begin" /\ x.batch = b /\ x.kind = batch[b].kind /\ x.rows = batch[b].rows
          /\ x.writes = Nothing /\ x.fresh = {}
      BY <3>3
    <3>5. req' = [req EXCEPT ![c] = x] BY <3>1, <3>3
    <3> HIDE DEF r
    <3>6. Consistent(x)' BY <1>1, <1>3, <1>4, <3>2, <3>4, NothingPending DEF Consistent, Steps
    <3> QED BY <1>2, <3>5, <3>6, RequestMoves
  <2>2. ASSUME StartsDiscard(c, b) PROVE \A i \in Callers : Consistent(req[i])'
    <3> DEFINE r == [Idle EXCEPT !.pc = "discard", !.batch = b]
    <3>1. req' = [req EXCEPT ![c] = r] BY <2>2 DEF StartsDiscard
    <3>2. /\ r.pc = "discard" /\ r.batch = b /\ r.kind = None /\ r.writes = Nothing /\ r.fresh = {}
      BY DEF Idle
    <3> HIDE DEF r
    <3>3. Consistent(r)' BY <1>1, <1>3, <1>4, <3>2, NothingPending DEF Consistent, Steps
    <3> QED BY <1>2, <3>1, <3>3, RequestMoves
  <2> QED BY <2>1, <2>2
<1> QED BY <1>1, <1>2, <1>5, DataKept DEF Sound, Bounds
LEMMA BeginsSound ==
  ASSUME Sound, Shape, NEW c \in Callers, Begins(c)
  PROVE  Sound'
<1> DEFINE w == Writes(req[c].kind, cell, req[c].rows)
           fresh == {k \in DOMAIN w \cap Keys : cell[k] = None}
           r == [req[c] EXCEPT !.pc = "write", !.writes = w, !.fresh = fresh]
<1>1. /\ req[c].pc = "begin" /\ req' = [req EXCEPT ![c] = r]
      /\ UNCHANGED <<cell, batch, applied, review, byPrefix, edits, faults>>
  BY DEF Begins
<1>2. KeepsBatches /\ BatchesOK' BY <1>1 DEF KeepsBatches, Sound, BatchesOK
<1>3. /\ InRows(req[c].kind, req[c].rows) /\ DOMAIN cell = Cells
      /\ req[c].batch \in Batches /\ batch[req[c].batch].status # "none" /\ req[c].batch # None
  BY <1>1, ImportsAssumption DEF Sound, Consistent, Bounds
<1>4. PICK x : x = r OBVIOUS
<1>5. x.pc = "write" /\ x.batch = req[c].batch /\ x.kind = req[c].kind /\ x.rows = req[c].rows /\ x.writes = w /\ x.fresh = fresh
  BY <1>4 DEF Shape, ReqFields
<1>6. Patch(req[c].kind, cell, w) BY <1>3, WritesPatch DEF InRows
<1>7. req' = [req EXCEPT ![c] = x] BY <1>1, <1>4
<1>8. \A s \in Students : ClassCell(s) \in Keys BY DEF Keys, ClassCell
<1> HIDE DEF w, r
<1>9. Pending(req[c].kind, w, fresh) BY <1>6, <1>8 DEF Patch, Pending
<1>10. Consistent(x)'
  <2>1. Pending(x.kind, x.writes, x.fresh) BY <1>5, <1>9
  <2>2. (x.pc \in Steps /\ x.pc # "idle" /\ x.pc # "stage") /\ InRows(x.kind, x.rows) BY <1>3, <1>5 DEF Steps
  <2>3. x.batch \in Batches /\ batch'[x.batch].status # "none" /\ x.batch # None BY <1>1, <1>3, <1>5
  <2> QED BY <2>1, <2>2, <2>3 DEF Consistent
<1> QED BY <1>1, <1>2, <1>7, <1>10, RequestMoves, DataKept DEF Sound, Bounds

LEMMA EndingsSound ==
  ASSUME Sound, Shape, NEW c \in Callers, RollsBack(c) \/ Reviews(c) \/ Records(c) \/ Fails(c)
  PROVE  Sound'
<1>1. Ends(c) /\ UNCHANGED <<cell, batch, applied, byPrefix, edits>> BY DEF RollsBack, Reviews, Records, Fails
<1>2. KeepsBatches /\ BatchesOK' BY <1>1 DEF KeepsBatches, Sound, BatchesOK
<1>3. review' \in [Batches -> {"none", "due", "done", "failed", "lost"}]
  BY DEF RollsBack, Reviews, Records, Fails, Sound, Bounds
<1>4. faults' \in 0..MaxFaults BY ImportsAssumption DEF RollsBack, Reviews, Records, Fails, Sound, Bounds
<1>5. Bounds' BY <1>1, <1>3, <1>4 DEF Sound, Bounds
<1> QED BY <1>1, <1>2, <1>5, EndsSound, DataKept DEF Sound

LEMMA MovesSound ==
  ASSUME Sound, Shape, NEW c \in Callers, Audits(c) \/ ReviewThrows(c)
  PROVE  Sound'
<1>1. /\ req[c].pc \in {"audit", "review"}
      /\ \E pc \in {"review", "record"} : req' = [req EXCEPT ![c].pc = pc]
      /\ UNCHANGED <<cell, batch, applied, review, byPrefix, edits, faults>>
  BY DEF Audits, ReviewThrows
<1>2. KeepsBatches /\ BatchesOK' BY <1>1 DEF KeepsBatches, Sound, BatchesOK
<1>3. PICK pc \in {"review", "record"} : req' = [req EXCEPT ![c].pc = pc] BY <1>1
<1>4. PICK x : x = [req[c] EXCEPT !.pc = pc] OBVIOUS
<1>5. x.pc = pc /\ x.batch = req[c].batch /\ x.kind = req[c].kind /\ x.writes = req[c].writes /\ x.fresh = req[c].fresh
  BY <1>4 DEF Shape, ReqFields
<1>6. req' = [req EXCEPT ![c] = x] BY <1>3, <1>4
<1>7. req[c].batch \in Batches /\ batch[req[c].batch].status # "none" /\ req[c].batch # None
      /\ Pending(req[c].kind, req[c].writes, req[c].fresh)
  BY <1>1 DEF Sound, Consistent
<1>8. Consistent(x)' BY <1>1, <1>5, <1>7 DEF Consistent, Steps
<1> QED BY <1>1, <1>2, <1>6, <1>8, RequestMoves, DataKept DEF Sound, Bounds

LEMMA CrashSound ==
  ASSUME Sound, Shape, Crash
  PROVE  Sound'
<1>1. UNCHANGED <<cell, batch, applied, byPrefix, edits>> BY DEF Crash
<1>2. BatchesOK' BY <1>1 DEF Sound, BatchesOK
<1>3. review' \in [Batches -> {"none", "due", "done", "failed", "lost"}] BY DEF Crash, Sound, Bounds
<1>4. faults' \in 0..MaxFaults BY ImportsAssumption DEF Crash, Sound, Bounds
<1>5. \A i \in Callers : Consistent(req[i])'
  <2>1. \A i \in Callers : req'[i] = Idle BY DEF Crash
  <2> QED BY <2>1, IdleLater
<1> QED BY <1>1, <1>2, <1>3, <1>4, <1>5, DataKept DEF Sound, Bounds

\* What a commit writes of a student, if anything, is what a pending transaction may; if
\* it writes a class, the student has no class yet or the class is administrative.
LEMMA CommitsData ==
  ASSUME Sound, Shape, NEW c \in Callers, Commits(c)
  PROVE  /\ DOMAIN cell' = Cells /\ byPrefix' \subseteq Students /\ DepartmentFollowsMajor'
         /\ \A s \in Students : cell'[ClassCell(s)] \in {cell[ClassCell(s)]} \cup AdminClasses \/ cell[ClassCell(s)] = None
<1> DEFINE w == req[c].writes
           fresh == req[c].fresh
<1>1. /\ cell' = Overwrite(cell, w) /\ byPrefix' = ByPrefixAfter(c) /\ ~KeyTaken(c)
  BY DEF Commits
<1>2. Pending(req[c].kind, w, fresh) /\ DOMAIN cell = Cells /\ byPrefix \subseteq Students BY DEF Sound, Consistent, Bounds
<1>3. cell' = [x \in Cells |-> IF x \in DOMAIN w THEN w[x] ELSE cell[x]] BY <1>1, <1>2 DEF Overwrite
<1>4. \A k \in fresh : cell[k] = None BY <1>1 DEF KeyTaken
<1>5. \A s \in Students : ClassCell(s) \in Cells /\ MajorCell(s) \in Cells /\ DeptCell(s) \in Cells BY CellsOK
<1>6. byPrefix' \subseteq Students BY <1>1, <1>2 DEF ByPrefixAfter, Filled
<1>7. \A s \in Students : s \in Filled(c) <=> MajorCell(s) \in DOMAIN w /\ w[MajorCell(s)] # None
  BY DEF Filled, MajorCell
<1> HIDE DEF w, fresh
<1>8. ASSUME NEW s \in Students, s \notin byPrefix', cell'[MajorCell(s)] # None
      PROVE  cell'[DeptCell(s)] = MajorDept[cell'[MajorCell(s)]]
  <2>1. CASE MajorCell(s) \in DOMAIN w
    <3>1. cell'[MajorCell(s)] = w[MajorCell(s)] BY <1>3, <1>5, <2>1
    <3>2. s \in Filled(c) BY <1>7, <1>8, <2>1, <3>1
    <3>3. req[c].kind # "GRADEBOOK" BY <1>1, <1>8, <3>2 DEF ByPrefixAfter
    <3>4. DeptCell(s) \in DOMAIN w /\ w[DeptCell(s)] = MajorDept[w[MajorCell(s)]]
      BY <1>2, <1>8, <2>1, <3>1, <3>3 DEF Pending
    <3> QED BY <1>3, <1>5, <3>1, <3>4
  <2>2. CASE MajorCell(s) \notin DOMAIN w
    <3>1. DeptCell(s) \notin DOMAIN w BY <1>2, <2>2 DEF Pending
    <3>2. cell'[MajorCell(s)] = cell[MajorCell(s)] /\ cell'[DeptCell(s)] = cell[DeptCell(s)]
      BY <1>3, <1>5, <2>2, <3>1
    <3>3. s \notin Filled(c) BY <1>7, <2>2
    <3>4. s \notin byPrefix BY <1>1, <1>8, <3>3 DEF ByPrefixAfter
    <3>5. cell[MajorCell(s)] # None => cell[DeptCell(s)] = MajorDept[cell[MajorCell(s)]]
      BY <3>4 DEF Sound, DepartmentFollowsMajor, MajorCell, DeptCell
    <3> QED BY <1>8, <3>2, <3>5
  <2> QED BY <2>1, <2>2
<1>9. DepartmentFollowsMajor' BY <1>8 DEF DepartmentFollowsMajor, MajorCell, DeptCell
<1>10. ASSUME NEW s \in Students
       PROVE  cell'[ClassCell(s)] \in {cell[ClassCell(s)]} \cup AdminClasses \/ cell[ClassCell(s)] = None
  <2>1. CASE ClassCell(s) \in DOMAIN w
    <3>1. w[ClassCell(s)] \in AdminClasses \/ ClassCell(s) \in fresh BY <1>2, <2>1 DEF Pending
    <3> QED BY <1>3, <1>4, <1>5, <2>1, <3>1
  <2>2. CASE ClassCell(s) \notin DOMAIN w BY <1>3, <1>5, <2>2
  <2> QED BY <2>1, <2>2
<1> QED BY <1>3, <1>6, <1>9, <1>10

LEMMA CommitsSound ==
  ASSUME Sound, Shape, NEW c \in Callers, Commits(c)
  PROVE  Sound'
<1> DEFINE b == req[c].batch
           reviews == req[c].kind = "GRADE_ATTENDANCE"
           r == IF reviews THEN [req[c] EXCEPT !.pc = "audit", !.writes = Nothing, !.fresh = {}] ELSE Idle
<1>1. /\ req[c].pc = "write" /\ batch' = [batch EXCEPT ![b].status = "COMMITTED"]
      /\ review' = IF reviews THEN [review EXCEPT ![b] = "due"] ELSE review
      /\ UNCHANGED <<edits, faults>>
  BY DEF Commits
<1>2. req' = [req EXCEPT ![c] = r] BY DEF Commits
<1>3. b \in Batches /\ batch[b].status # "none" /\ b # None BY <1>1, ImportsAssumption DEF Sound, Consistent
<1>4. /\ \A i \in Batches : i # b => batch'[i] = batch[i]
      /\ batch'[b].status = "COMMITTED" /\ batch'[b].kind = batch[b].kind /\ batch'[b].rows = batch[b].rows
  BY <1>1, <1>3 DEF Shape, BatchFields
<1>5. KeepsBatches BY <1>4 DEF KeepsBatches
<1>6. BatchesOK' BY <1>3, <1>4 DEF Sound, BatchesOK, Statuses
<1>7. review' \in [Batches -> {"none", "due", "done", "failed", "lost"}] BY <1>1 DEF Sound, Bounds
<1>8. PICK x : x = r OBVIOUS
<1>9. req' = [req EXCEPT ![c] = x] BY <1>2, <1>8
<1>10. x = Idle \/ (x.pc = "audit" /\ x.batch = b /\ x.writes = Nothing /\ x.fresh = {})
  BY <1>8 DEF Shape, ReqFields
<1> HIDE DEF r
<1>11. Consistent(x)'
  <2>1. CASE x = Idle BY <2>1, IdleLater
  <2>2. CASE x.pc = "audit" /\ x.batch = b /\ x.writes = Nothing /\ x.fresh = {}
    <3>1. Pending(x.kind, x.writes, x.fresh) BY <2>2, NothingPending
    <3>2. batch'[b].status # "none" BY <1>4
    <3> QED BY <1>3, <2>2, <3>1, <3>2 DEF Consistent, Steps
  <2> QED BY <1>10, <2>1, <2>2
<1>12. \A i \in Callers : Consistent(req[i])' BY <1>5, <1>9, <1>11, RequestMoves
<1>13. DOMAIN cell' = Cells /\ byPrefix' \subseteq Students /\ DepartmentFollowsMajor' BY CommitsData
<1> QED BY <1>1, <1>6, <1>7, <1>12, <1>13 DEF Sound, Bounds

\* A form gives a major together with its department, or neither.
Gives(f, w) ==
  /\ DOMAIN w \subseteq {ClassCell(f.student), MajorCell(f.student), DeptCell(f.student), <<"status", f.student>>}
  /\ f.major = None => MajorCell(f.student) \notin DOMAIN w /\ DeptCell(f.student) \notin DOMAIN w
  /\ f.major # None =>
       /\ MajorCell(f.student) \in DOMAIN w /\ w[MajorCell(f.student)] = f.major
       /\ DeptCell(f.student) \in DOMAIN w /\ w[DeptCell(f.student)] = MajorDept[f.major]

LEMMA ProfileGives ==
  ASSUME NEW f
  PROVE  Gives(f, Profile(f))
<1> DEFINE s == f.student
           m == When(f.major # None, (<<"major", s>> := f.major) ++ (<<"dept", s>> := MajorDept[f.major]))
           k == When(f.class # None, <<"class", s>> := f.class)
           t == When(f.status # None, <<"status", s>> := f.status)
<1>1. /\ f.major = None => DOMAIN m = {}
      /\ f.major # None => /\ DOMAIN m = {MajorCell(s), DeptCell(s)}
                           /\ m[MajorCell(s)] = f.major /\ m[DeptCell(s)] = MajorDept[f.major]
  BY NothingIs DEF When, ++, :=, MajorCell, DeptCell
<1>2. DOMAIN k \subseteq {ClassCell(s)} BY NothingIs DEF When, :=, ClassCell
<1>3. DOMAIN t \subseteq {<<"status", s>>} BY NothingIs DEF When, :=
<1>4. Profile(f) = m ++ k ++ t BY DEF Profile
<1>5. MajorCell(s) # ClassCell(s) /\ DeptCell(s) # ClassCell(s) /\ MajorCell(s) # <<"status", s>>
      /\ DeptCell(s) # <<"status", s>>
  BY DEF MajorCell, DeptCell, ClassCell
<1> HIDE DEF m, k, t, s
<1>6. /\ DOMAIN (m ++ k) = DOMAIN m \cup DOMAIN k
      /\ DOMAIN (m ++ k ++ t) = DOMAIN (m ++ k) \cup DOMAIN t
      /\ \A x \in DOMAIN m : (m ++ k ++ t)[x] = m[x]
  <2>1. DOMAIN (m ++ k) = DOMAIN m \cup DOMAIN k /\ \A x \in DOMAIN m : (m ++ k)[x] = m[x] BY MergeIs
  <2>2. PICK y : y = m ++ k OBVIOUS
  <2>3. DOMAIN (y ++ t) = DOMAIN y \cup DOMAIN t /\ \A x \in DOMAIN y : (y ++ t)[x] = y[x] BY MergeIs
  <2> QED BY <2>1, <2>2, <2>3
<1>7. Gives(f, m ++ k ++ t)
  <2>1. PICK w : w = m ++ k ++ t OBVIOUS
  <2>2. DOMAIN w = (DOMAIN m \cup DOMAIN k) \cup DOMAIN t /\ \A x \in DOMAIN m : w[x] = m[x] BY <1>6, <2>1
  <2>3. Gives(f, w) BY <1>1, <1>2, <1>3, <1>5, <2>2 DEF Gives, s
  <2> QED BY <2>1, <2>3
<1> QED BY <1>4, <1>7

\* What a form writes leaves its student in the department of the major.
LEMMA FormData ==
  ASSUME Sound, NEW f \in Forms, NEW w, Gives(f, w), cell' = Overwrite(cell, w),
         byPrefix' = byPrefix \/ (f.major # None /\ byPrefix' = byPrefix \ {f.student})
  PROVE  DOMAIN cell' = Cells /\ byPrefix' \subseteq Students /\ DepartmentFollowsMajor'
<1>1. DOMAIN cell = Cells /\ byPrefix \subseteq Students BY DEF Sound, Bounds
<1>2. PICK s \in Students : s = f.student BY ImportsAssumption
<1>3. cell' = [x \in Cells |-> IF x \in DOMAIN w THEN w[x] ELSE cell[x]] BY <1>1 DEF Overwrite
<1>4. \A t \in Students : MajorCell(t) \in Cells /\ DeptCell(t) \in Cells BY CellsOK
<1>5. \A t \in Students : t # s => MajorCell(t) \notin DOMAIN w /\ DeptCell(t) \notin DOMAIN w
  BY <1>2 DEF Gives, MajorCell, DeptCell, ClassCell
<1>6. \A t \in Students \ byPrefix : cell[MajorCell(t)] # None => cell[DeptCell(t)] = MajorDept[cell[MajorCell(t)]]
  BY DEF Sound, DepartmentFollowsMajor, MajorCell, DeptCell
<1>7. ASSUME NEW t \in Students, t \notin byPrefix'
      PROVE  cell'[MajorCell(t)] # None => cell'[DeptCell(t)] = MajorDept[cell'[MajorCell(t)]]
  <2>1. CASE t = s /\ f.major # None BY <1>2, <1>3, <1>4, <2>1 DEF Gives
  <2>2. CASE ~(t = s /\ f.major # None)
    <3>1. MajorCell(t) \notin DOMAIN w /\ DeptCell(t) \notin DOMAIN w BY <1>2, <1>5, <2>2 DEF Gives
    <3>2. t \notin byPrefix BY <1>2, <1>7, <2>2
    <3> QED BY <1>3, <1>4, <1>6, <3>1, <3>2
  <2> QED BY <2>1, <2>2
<1>8. DepartmentFollowsMajor' BY <1>7 DEF DepartmentFollowsMajor, MajorCell, DeptCell
<1> QED BY <1>1, <1>3, <1>8

\* An edit by hand leaves a student in the department of the major.
LEMMA EditsData ==
  ASSUME Sound, ByHand
  PROVE  DOMAIN cell' = Cells /\ byPrefix' \subseteq Students /\ DepartmentFollowsMajor'
<1>1. DOMAIN cell = Cells /\ byPrefix \subseteq Students BY DEF Sound, Bounds
<1>2. /\ \A t \in Students : ClassCell(t) \in Cells /\ MajorCell(t) \in Cells /\ DeptCell(t) \in Cells
      /\ \A t \in Students : /\ ClassCell(t) \in Personal /\ MajorCell(t) \in Personal /\ DeptCell(t) \in Personal
                             /\ ClassCell(t) # MajorCell(t) /\ ClassCell(t) # DeptCell(t) /\ MajorCell(t) # DeptCell(t)
  BY CellsOK
<1>3. \A t \in Students \ byPrefix : cell[MajorCell(t)] # None => cell[DeptCell(t)] = MajorDept[cell[MajorCell(t)]]
  BY DEF Sound, DepartmentFollowsMajor, MajorCell, DeptCell
<1>4. ASSUME NEW f \in Forms, UpdatesStudent(f)
      PROVE  DOMAIN cell' = Cells /\ byPrefix' \subseteq Students /\ DepartmentFollowsMajor'
  <2>1. cell' = Overwrite(cell, Profile(f)) BY <1>4 DEF UpdatesStudent, Edits
  <2>2. byPrefix' = byPrefix \/ (f.major # None /\ byPrefix' = byPrefix \ {f.student})
    BY <1>4 DEF UpdatesStudent
  <2> QED BY <2>1, <2>2, ProfileGives, FormData
<1>5. ASSUME NEW f \in Forms, SavesStudent(f)
      PROVE  DOMAIN cell' = Cells /\ byPrefix' \subseteq Students /\ DepartmentFollowsMajor'
  <2> DEFINE p == Profile(f)
             t == When(cell[<<"class", f.student>>] = None, <<"status", f.student>> := "STUDYING")
  <2>1. cell' = Overwrite(cell, p ++ t) BY <1>5 DEF SavesStudent, Edits
  <2>2. f.major # None /\ byPrefix' = byPrefix \ {f.student} BY <1>5 DEF SavesStudent
  <2>3. DOMAIN t \subseteq {<<"status", f.student>>} BY NothingIs DEF When, :=
  <2>4. Gives(f, p) BY ProfileGives
  <2> HIDE DEF p, t
  <2>5. PICK w : w = p ++ t OBVIOUS
  <2>6. DOMAIN w = DOMAIN p \cup DOMAIN t /\ \A x \in DOMAIN p : w[x] = p[x] BY <2>5, MergeIs
  <2>7. Gives(f, w)  BY <2>2, <2>3, <2>4, <2>6 DEF Gives
  <2> QED BY <2>1, <2>2, <2>5, <2>7, FormData
<1>6. ASSUME NEW w, DOMAIN w \cap Personal = {}, cell' = Overwrite(cell, w), UNCHANGED byPrefix
      PROVE  DOMAIN cell' = Cells /\ byPrefix' \subseteq Students /\ DepartmentFollowsMajor'
  <2>1. cell' = [x \in Cells |-> IF x \in DOMAIN w THEN w[x] ELSE cell[x]] BY <1>1, <1>6 DEF Overwrite
  <2>2. \A x \in Personal : x \in Cells => cell'[x] = cell[x] BY <1>6, <2>1
  <2>3. \A t \in Students : /\ cell'[ClassCell(t)] = cell[ClassCell(t)] /\ cell'[MajorCell(t)] = cell[MajorCell(t)]
                            /\ cell'[DeptCell(t)] = cell[DeptCell(t)]
    BY <1>2, <2>2
  <2>4. DepartmentFollowsMajor' BY <1>3, <1>6, <2>3 DEF DepartmentFollowsMajor, MajorCell, DeptCell
  <2> QED BY <1>1, <1>6, <2>1, <2>3, <2>4
<1>7. ASSUME NEW s \in Students, NEW k \in Sections, NEW result \in {"PASS", "FAIL"}, EditsGrade(s, k, result)
      PROVE  DOMAIN cell' = Cells /\ byPrefix' \subseteq Students /\ DepartmentFollowsMajor'
  <2> DEFINE w == (<<"score", s, k>> := None) ++ (<<"result", s, k>> := result)
  <2>1. cell' = Overwrite(cell, w) /\ UNCHANGED byPrefix BY <1>7 DEF EditsGrade, Edits
  <2>2. DOMAIN w \subseteq Quiet BY EnrollmentQuiet, QuietOne, QuietMerge
  <2>3. DOMAIN w \cap Personal = {} BY <2>2 DEF Quiet
  <2> HIDE DEF w
  <2> QED BY <1>6, <2>1, <2>3
<1>8. ASSUME NEW s \in Students, NEW k \in Sections, NEW class \in Classes, AddsStudent(s, k, class)
      PROVE  DOMAIN cell' = Cells /\ byPrefix' \subseteq Students /\ DepartmentFollowsMajor'
  <2> DEFINE dept == cell[<<"subject", cell[<<"section", k>>]>>]
             new == (<<"class", s>> := class) ++ (<<"major", s>> := None) ++ (<<"status", s>> := "STUDYING")
                      ++ (<<"dept", s>> := dept)
             q == Enrolls(s, k, None, "IN_PROGRESS", FALSE, None)
             w == When(cell[<<"class", s>>] = None, new) ++ q
  <2>1. cell' = Overwrite(cell, w) /\ UNCHANGED byPrefix BY <1>8 DEF AddsStudent, Edits
  <2>2. DOMAIN q \subseteq Quiet BY EnrollsQuiet
  <2>3. DOMAIN new = {ClassCell(s), MajorCell(s), <<"status", s>>, DeptCell(s)} /\ new[MajorCell(s)] = None
    BY DEF ++, :=, ClassCell, MajorCell, DeptCell
  <2> HIDE DEF q, new
  <2>4. CASE cell[<<"class", s>>] # None
    <3>1. w = Nothing ++ q BY <2>4 DEF When
    <3>2. DOMAIN w = DOMAIN q
      <4>1. DOMAIN (Nothing ++ q) = DOMAIN Nothing \cup DOMAIN q BY MergeIs
      <4> HIDE DEF w
      <4> QED BY <3>1, <4>1, NothingIs
    <3>3. DOMAIN w \cap Personal = {} BY <2>2, <3>2 DEF Quiet
    <3> HIDE DEF w
    <3> QED BY <1>6, <2>1, <3>3
  <2>5. CASE cell[<<"class", s>>] = None
    <3>1. w = new ++ q BY <2>5 DEF When
    <3> HIDE DEF w
    <3>2. DOMAIN w = DOMAIN new \cup DOMAIN q /\ \A x \in DOMAIN new : w[x] = new[x] BY <3>1, MergeIs
    <3>3. w[MajorCell(s)] = None /\ MajorCell(s) \in DOMAIN w BY <2>3, <3>2
    <3>4. cell' = [x \in Cells |-> IF x \in DOMAIN w THEN w[x] ELSE cell[x]] BY <1>1, <2>1 DEF Overwrite
    <3>5. \A t \in Students : t # s => /\ ClassCell(t) \notin DOMAIN new /\ MajorCell(t) \notin DOMAIN new
                                       /\ DeptCell(t) \notin DOMAIN new
      BY <2>3 DEF ClassCell, MajorCell, DeptCell
    <3>6. \A x \in Personal : x \notin DOMAIN q BY <2>2 DEF Quiet
    <3>7. \A t \in Students : t # s => /\ cell'[ClassCell(t)] = cell[ClassCell(t)] /\ cell'[MajorCell(t)] = cell[MajorCell(t)]
                                       /\ cell'[DeptCell(t)] = cell[DeptCell(t)]
      BY <1>2, <3>2, <3>4, <3>5, <3>6
    <3>8. cell'[MajorCell(s)] = None BY <1>2, <3>3, <3>4
    <3>9. ASSUME NEW t \in Students, t \notin byPrefix
          PROVE  cell'[MajorCell(t)] # None => cell'[DeptCell(t)] = MajorDept[cell'[MajorCell(t)]]
      <4>1. CASE t = s BY <3>8, <4>1
      <4>2. CASE t # s BY <1>3, <3>7, <3>9, <4>2
      <4> QED BY <4>1, <4>2
    <3>10. DepartmentFollowsMajor' BY <2>1, <3>9 DEF DepartmentFollowsMajor, MajorCell, DeptCell
    <3> QED BY <1>1, <2>1, <3>4, <3>10
  <2> QED BY <2>4, <2>5
<1> QED BY <1>4, <1>5, <1>7, <1>8 DEF ByHand

LEMMA EditsSound ==
  ASSUME Sound, ByHand
  PROVE  Sound'
<1>1. UNCHANGED <<batch, applied, review, req, faults>> /\ edits < MaxEdits /\ edits' = edits + 1
  BY ByHandIsEdits DEF Edits
<1>2. edits' \in 0..MaxEdits BY <1>1, ImportsAssumption DEF Sound, Bounds
<1>3. BatchesOK' BY <1>1 DEF Sound, BatchesOK
<1>4. \A c \in Callers : Consistent(req[c])'
  <2>1. KeepsBatches BY <1>1 DEF KeepsBatches
  <2> QED BY <1>1, <2>1, RequestKept
<1>5. DOMAIN cell' = Cells /\ byPrefix' \subseteq Students /\ DepartmentFollowsMajor' BY EditsData
<1> QED BY <1>1, <1>2, <1>3, <1>4, <1>5 DEF Sound, Bounds

LEMMA StepSound ==
  ASSUME Inv, Sound, [Next]_vars
  PROVE  Sound'
<1>1. Shape BY DEF Inv
<1>2. ASSUME NEW c \in Callers, NEW b \in Batches, NEW f \in Files, Uploads(c, b, f)
      PROVE  Sound'
  BY <1>1, <1>2, UploadsSound
<1>3. ASSUME NEW c \in Callers, NEW b \in Batches, ReadsBatch(c, b) \/ StartsDiscard(c, b)
      PROVE  Sound'
  BY <1>1, <1>3, ReadsSound
<1>4. ASSUME NEW c \in Callers, Handles(c) \/ Fails(c)
      PROVE  Sound'
  BY <1>1, <1>4, StagesSound, DiscardsSound, BeginsSound, CommitsSound, EndingsSound, MovesSound
     DEF Handles
<1>5. CASE UNCHANGED vars
  <2>1. UNCHANGED <<cell, batch, applied, review, req, byPrefix, edits, faults>> BY <1>5 DEF vars
  <2>2. KeepsBatches /\ BatchesOK' BY <2>1 DEF KeepsBatches, Sound, BatchesOK
  <2>3. \A c \in Callers : Consistent(req[c])' BY <2>1, <2>2, RequestKept
  <2> QED BY <2>1, <2>2, <2>3, DataKept DEF Sound, Bounds
<1> QED BY <1>1, <1>2, <1>3, <1>4, <1>5, CrashSound, EditsSound DEF Next, ByHand

LEMMA Invariant == Spec => [](Inv /\ Sound)
<1>1. Init => Inv /\ Sound BY InitOK, InitSound
<1>2. Inv /\ Sound /\ [Next]_vars => (Inv /\ Sound)' BY StepOK, StepSound
<1> QED BY <1>1, <1>2, PTL DEF Spec

-----------------------------------------------------------------------------
\* Every request that is at work has its batch, and what its transaction is about to
\* create is among what it is about to write.
THEOREM TypeCorrect == Spec => []TypeOK
<1>1. Inv /\ Sound => TypeOK
  BY DEF Inv, Shape, Sound, Bounds, BatchesOK, Consistent, Pending, TypeOK
<1> QED BY <1>1, Invariant, PTL

\* Whatever imports and edits overlap, a student's department is that of the major,
\* unless the prefix of a gradebook's class gave the major.
THEOREM DepartmentFollows == Spec => []DepartmentFollowsMajor
<1>1. Sound => DepartmentFollowsMajor BY DEF Sound
<1> QED BY <1>1, Invariant, PTL

\* No step of an import takes an administrative class from a student, whatever it overlaps.
THEOREM AdminClassIsKept == Spec => AdminClassKept
<1> DEFINE Kept == \A s \in Students :
                     cell[<<"class", s>>] \in AdminClasses /\ edits' = edits => cell'[<<"class", s>>] \in AdminClasses
<1>1. ASSUME Inv, Sound, [Next]_vars PROVE Kept
  <2>1. None \notin AdminClasses BY RowsAssumption
  <2>2. ASSUME NEW c \in Callers, Commits(c) PROVE Kept
    <3>1. \A s \in Students : cell'[ClassCell(s)] \in {cell[ClassCell(s)]} \cup AdminClasses \/ cell[ClassCell(s)] = None
      BY <1>1, <2>2, CommitsData DEF Inv
    <3> QED BY <2>1, <3>1 DEF ClassCell
  <2>3. ASSUME ByHand PROVE Kept
    <3>1. edits' = edits + 1 /\ edits \in Int BY <1>1, <2>3, ByHandIsEdits DEF Edits, Sound, Bounds
    <3>2. edits' # edits BY <3>1
    <3> QED BY <3>2
  <2>4. CASE UNCHANGED cell BY <2>4
  <2>5. ASSUME NEW c \in Callers, NEW b \in Batches,
               (\E f \in Files : Uploads(c, b, f)) \/ ReadsBatch(c, b) \/ StartsDiscard(c, b)
        PROVE  UNCHANGED cell
    BY <2>5 DEF Uploads, ReadsBatch, StartsDiscard
  <2>6. ASSUME NEW c \in Callers,
               \/ Stages(c) \/ Begins(c) \/ RollsBack(c) \/ Discards(c) \/ Fails(c)
               \/ Audits(c) \/ Reviews(c) \/ ReviewThrows(c) \/ Records(c)
        PROVE  UNCHANGED cell
    BY <2>6 DEF Stages, Begins, RollsBack, Discards, Fails, Audits, Reviews, ReviewThrows, Records
  <2>7. Crash \/ UNCHANGED vars => UNCHANGED cell BY DEF Crash, vars
  <2> HIDE DEF Kept
  <2> QED BY <1>1, <2>2, <2>3, <2>4, <2>5, <2>6, <2>7 DEF Next, Handles, ByHand
<1>2. Inv /\ Sound /\ [Next]_vars => [Kept]_vars BY <1>1
<1> QED BY <1>2, Invariant, PTL DEF Spec, AdminClassKept
=============================================================================
