-------------------------- MODULE EvaluationsProofs --------------------------
(***************************************************************************)
(* Proof about Evaluations for every staff, sections, inputs, criteria and *)
(* number of updates at the same time.                                     *)
(***************************************************************************)
EXTENDS Evaluations, FiniteSetTheorems, WellFoundedInduction, TLAPS

USE EvaluationsAssumption

-----------------------------------------------------------------------------
(* The type invariant, with the whole record of an update.                 *)

Update == [key : Keys, input : Input, ticked : SUBSET Criteria, seen : SUBSET Criteria]

Shape ==
  /\ row \in [Keys -> Input \cup {None}]
  /\ marks \in [Keys -> SUBSET Criteria]
  /\ known \in [Sections -> Nat \cup {None}]
  /\ teacher \in [Sections -> Staff]
  /\ edit \in [Editors -> Update \cup {Idle}]
  /\ changes \in 0..MaxChanges

\* A deleted evaluation leaves no marks.
NoOrphans == \A k \in Keys : row[k] = None => marks[k] = {}

\* An update replaces marks that are there.
SeenThere == \A e \in Editors : edit[e] # Idle => edit[e].seen \subseteq marks[edit[e].key]

Inv == Shape /\ NoOrphans /\ SeenThere

LEMMA InitOK ==
  ASSUME Init
  PROVE  Inv
  BY DEF Init, Inv, Shape, NoOrphans, SeenThere

LEMMA ChangeOK ==
  ASSUME Inv, Change
  PROVE  changes' \in 0..MaxChanges
  BY DEF Inv, Shape, Change

LEMMA CreateOK ==
  ASSUME Inv, NEW u \in Staff, NEW s \in Sections, NEW input \in Inputs, NEW ticked \in Ticked,
         Create(u, s, input, ticked)
  PROVE  Inv'
<1> DEFINE k == <<s, u>>
<1>1. k \in Keys BY DEF Keys
<1>2. /\ row[k] = None /\ row' = [row EXCEPT ![k] = input] /\ marks' = [marks EXCEPT ![k] = ticked]
      /\ UNCHANGED <<known, teacher, edit>> /\ changes' \in 0..MaxChanges
  BY ChangeOK DEF Create
<1> HIDE DEF k
<1>3. input \in Input /\ ticked \subseteq Criteria OBVIOUS
<1>4. Shape' BY <1>1, <1>2, <1>3 DEF Inv, Shape
<1>5. input # None BY <1>3
<1>6. NoOrphans' BY <1>1, <1>2, <1>5 DEF Inv, Shape, NoOrphans
<1>7. \A e \in Editors : edit[e] # Idle => edit[e].key \in Keys BY DEF Inv, Shape, Update
<1>8. SeenThere' BY <1>1, <1>2, <1>7 DEF Inv, Shape, NoOrphans, SeenThere
<1> QED BY <1>4, <1>6, <1>8 DEF Inv

LEMMA AmendsOK ==
  ASSUME Inv, NEW u \in Staff, NEW k \in Keys, NEW input \in Inputs, Amends(u, k, input)
  PROVE  Inv'
<1>1. /\ row' = [row EXCEPT ![k] = input] /\ UNCHANGED <<marks, known, teacher, edit>>
      /\ changes' \in 0..MaxChanges /\ row[k] # None
  BY ChangeOK DEF Amends, MayChange
<1>2. input \in Input OBVIOUS
<1>3. Shape' BY <1>1, <1>2 DEF Inv, Shape
<1>4. NoOrphans' BY <1>1, <1>2 DEF Inv, Shape, NoOrphans
<1>5. SeenThere' BY <1>1 DEF Inv, SeenThere
<1> QED BY <1>3, <1>4, <1>5 DEF Inv

LEMMA BeginUpdateOK ==
  ASSUME Inv, NEW e \in Editors, NEW u \in Staff, NEW k \in Keys, NEW input \in Inputs, NEW ticked \in Ticked,
         BeginUpdate(e, u, k, input, ticked)
  PROVE  Inv'
<1> DEFINE r == [key |-> k, input |-> input, ticked |-> ticked, seen |-> marks[k]]
<1>1. /\ edit' = [edit EXCEPT ![e] = r] /\ UNCHANGED <<row, marks, known, teacher>>
      /\ changes' \in 0..MaxChanges
  BY ChangeOK DEF BeginUpdate
<1>2. r \in Update BY DEF Inv, Shape, Update
<1>3. r.key = k /\ r.seen = marks[k] OBVIOUS
<1> HIDE DEF r
<1>4. Shape' BY <1>1, <1>2 DEF Inv, Shape
<1>5. NoOrphans' BY <1>1 DEF Inv, NoOrphans
<1>6. \A f \in Editors : edit'[f] = IF f = e THEN r ELSE edit[f] BY <1>1 DEF Inv, Shape
<1>7. SeenThere' BY <1>1, <1>3, <1>6 DEF Inv, SeenThere
<1> QED BY <1>4, <1>5, <1>7 DEF Inv

\* Forgetting leaves a record Idle, an update that is not under way, as it is.
LEMMA EndUpdateOK ==
  ASSUME Inv, NEW e \in Editors, EndUpdate(e)
  PROVE  Inv'
<1> DEFINE k == edit[e].key
           gone == edit[e].seen
<1>1. edit[e] \in Update /\ row[k] # None BY DEF Inv, Shape, EndUpdate, Fits
<1>2. k \in Keys /\ edit[e].input \in Input /\ edit[e].ticked \subseteq Criteria
  BY <1>1 DEF Update
<1>3. /\ row' = [row EXCEPT ![k] = edit[e].input]
      /\ marks' = [marks EXCEPT ![k] = (marks[k] \ gone) \cup edit[e].ticked]
      /\ edit' = [Forget(k, gone) EXCEPT ![e] = Idle]
      /\ UNCHANGED <<known, teacher, changes>>
  BY DEF EndUpdate
<1>4. DOMAIN Forget(k, gone) = Editors BY DEF Forget
<1>5. \A f \in Editors : edit'[f] = IF f = e THEN Idle ELSE Forget(k, gone)[f]
  BY <1>3, <1>4 DEF Forget
<1>6. ASSUME NEW f \in Editors
       PROVE  /\ Forget(k, gone)[f] \in Update \cup {Idle}
              /\ Forget(k, gone)[f] # Idle => edit[f] # Idle
              /\ Forget(k, gone)[f].key = edit[f].key
              /\ Forget(k, gone)[f].seen = IF edit[f].key = k THEN edit[f].seen \ gone ELSE edit[f].seen
  <2> HIDE DEF k, gone
  <2>1. CASE edit[f] = Idle
    <3>1. Idle.key = None /\ Idle.seen = {} /\ [Idle EXCEPT !.seen = {}] = Idle
      <4> HIDE EvaluationsAssumption
      <4> QED BY DEF Idle
    <3>2. {} \ gone = {} OBVIOUS
    <3>3. Forget(k, gone)[f] = Idle
      <4> HIDE DEF Idle
      <4>1. Forget(k, gone)[f] = IF Idle.key = k THEN [Idle EXCEPT !.seen = Idle.seen \ gone] ELSE Idle
        BY <2>1 DEF Forget
      <4> QED BY <4>1, <3>1, <3>2
    <3> HIDE DEF Idle
    <3> QED BY <2>1, <3>1, <3>2, <3>3
  <2>2. CASE edit[f] # Idle
    <3>1. edit[f] \in Update BY <2>2 DEF Inv, Shape
    <3>2. Forget(k, gone)[f] = IF edit[f].key = k THEN [edit[f] EXCEPT !.seen = edit[f].seen \ gone] ELSE edit[f]
      BY DEF Forget
    <3> QED BY <2>2, <3>1, <3>2 DEF Update
  <2> QED BY <2>1, <2>2
<1>7. ASSUME NEW f \in Editors PROVE edit'[f] \in Update \cup {Idle}
  <2> HIDE DEF k, gone
  <2> QED BY <1>5, <1>6
<1>8. edit' \in [Editors -> Update \cup {Idle}]
  BY <1>3, <1>7 DEF Forget
<1>9. row' \in [Keys -> Input \cup {None}] /\ marks' \in [Keys -> SUBSET Criteria]
  BY <1>2, <1>3 DEF Inv, Shape
<1>10. Shape' BY <1>3, <1>8, <1>9 DEF Inv, Shape
<1>11. \A j \in Keys : marks'[j] = IF j = k THEN (marks[k] \ gone) \cup edit[e].ticked ELSE marks[j]
  BY <1>2, <1>3 DEF Inv, Shape
<1>12. \A j \in Keys : row'[j] = IF j = k THEN edit[e].input ELSE row[j]
  BY <1>2, <1>3 DEF Inv, Shape
<1>13. NoOrphans' BY <1>2, <1>11, <1>12 DEF Inv, NoOrphans
<1>14. ASSUME NEW f \in Editors, edit'[f] # Idle
       PROVE  edit'[f].seen \subseteq marks'[edit'[f].key]
  <2>1. f # e /\ edit'[f] = Forget(k, gone)[f] BY <1>5, <1>14
  <2>2. /\ edit[f] # Idle /\ edit'[f].key = edit[f].key
        /\ edit'[f].seen = IF edit[f].key = k THEN edit[f].seen \ gone ELSE edit[f].seen
    BY <2>1, <1>14, <1>6
  <2>3. edit[f].seen \subseteq marks[edit[f].key] /\ edit[f].key \in Keys
    BY <2>2 DEF Inv, Shape, SeenThere, Update
  <2> HIDE DEF k, gone
  <2> QED BY <2>2, <2>3, <1>11
<1>15. SeenThere' BY <1>14 DEF SeenThere
<1> QED BY <1>10, <1>13, <1>15 DEF Inv

LEMMA UpdateRefusedOK ==
  ASSUME Inv, NEW e \in Editors, UpdateRefused(e)
  PROVE  Inv'
<1>1. edit' = [edit EXCEPT ![e] = Idle] /\ UNCHANGED <<row, marks, known, teacher, changes>>
  BY DEF UpdateRefused
<1>2. Shape' BY <1>1 DEF Inv, Shape
<1>3. NoOrphans' BY <1>1 DEF Inv, NoOrphans
<1>4. SeenThere' BY <1>1 DEF Inv, Shape, SeenThere
<1> QED BY <1>2, <1>3, <1>4 DEF Inv

\* The cascade takes the marks of the rows and what updates saw of them.
LEMMA DeletesOK ==
  ASSUME Inv, NEW keys \in SUBSET Keys, Deletes(keys), UNCHANGED <<known, teacher>>, changes' \in 0..MaxChanges
  PROVE  Inv'
<1>1. row' \in [Keys -> Input \cup {None}] /\ marks' \in [Keys -> SUBSET Criteria]
  BY DEF Inv, Shape, Deletes
<1>2. \A e \in Editors : edit'[e] = IF edit[e].key \in keys THEN [edit[e] EXCEPT !.seen = {}] ELSE edit[e]
  BY DEF Deletes
<1>3. ASSUME NEW e \in Editors
      PROVE  /\ edit'[e] \in Update \cup {Idle}
             /\ edit'[e] # Idle => /\ edit[e] # Idle /\ edit'[e].key = edit[e].key
                                   /\ edit'[e].seen = IF edit[e].key \in keys THEN {} ELSE edit[e].seen
  <2>1. CASE edit[e] = Idle BY <1>2, <2>1 DEF Idle
  <2>2. CASE edit[e] # Idle
    <3>1. edit[e] \in Update BY <2>2 DEF Inv, Shape
    <3>2. edit'[e] = [edit[e] EXCEPT !.seen = {}] \/ (edit'[e] = edit[e] /\ edit[e].key \notin keys)
      BY <1>2
    <3>3. edit'[e] \in Update BY <3>1, <3>2 DEF Update
    <3>4. /\ edit'[e].key = edit[e].key
          /\ edit'[e].seen = IF edit[e].key \in keys THEN {} ELSE edit[e].seen
      BY <1>2, <3>1 DEF Update
    <3> QED BY <2>2, <3>3, <3>4
  <2> QED BY <2>1, <2>2
<1>4. edit' \in [Editors -> Update \cup {Idle}] BY <1>3 DEF Deletes
<1>5. Shape' BY <1>1, <1>4 DEF Inv, Shape
<1>6. \A k \in Keys : /\ row'[k] = IF k \in keys THEN None ELSE row[k]
                      /\ marks'[k] = IF k \in keys THEN {} ELSE marks[k]
  BY DEF Deletes
<1>7. NoOrphans' BY <1>6 DEF Inv, NoOrphans
<1>8. \A e \in Editors : edit[e] # Idle => edit[e].key \in Keys BY DEF Inv, Shape, Update
<1>9. SeenThere' BY <1>3, <1>6, <1>8 DEF Inv, SeenThere
<1> QED BY <1>5, <1>7, <1>9 DEF Inv

LEMMA StepOK ==
  ASSUME Inv, [Next]_vars
  PROVE  Inv'
<1>1. CASE \E u \in Staff, s \in Sections, input \in Inputs, ticked \in Ticked : Create(u, s, input, ticked)
  BY <1>1, CreateOK
<1>2. CASE \E e \in Editors, u \in Staff, k \in Keys, input \in Inputs, ticked \in Ticked :
             BeginUpdate(e, u, k, input, ticked)
  BY <1>2, BeginUpdateOK
<1>3. CASE \E e \in Editors : EndUpdate(e) \/ UpdateRefused(e)
  BY <1>3, EndUpdateOK, UpdateRefusedOK
<1>4. CASE \E u \in Staff, k \in Keys, input \in Inputs : Amends(u, k, input)
  BY <1>4, AmendsOK
<1>5. CASE \E u \in Staff, k \in Keys : Remove(u, k)
  <2>1. PICK u \in Staff, k \in Keys : Remove(u, k) BY <1>5
  <2>2. changes' \in 0..MaxChanges BY <2>1, ChangeOK DEF Remove
  <2> QED BY <2>1, <2>2, DeletesOK DEF Remove
<1>6. CASE AlertDeleted
  <2>1. changes' \in 0..MaxChanges BY <1>6, ChangeOK DEF AlertDeleted
  <2>2. Rows \in SUBSET Keys BY DEF Rows
  <2> QED BY <1>6, <2>1, <2>2, DeletesOK DEF AlertDeleted
<1>7. CASE \E s \in Sections, n \in Counts : AttendanceImported(s, n)
  <2>1. PICK s \in Sections, n \in Counts : AttendanceImported(s, n) BY <1>7
  <2>2. changes' \in 0..MaxChanges BY <2>1, ChangeOK DEF AttendanceImported
  <2>3. n \in Nat OBVIOUS
  <2>4. Shape' BY <2>1, <2>2, <2>3 DEF AttendanceImported, Inv, Shape
  <2> QED BY <2>1, <2>4 DEF AttendanceImported, Inv, NoOrphans, SeenThere
<1>8. CASE \E s \in Sections, u \in Staff : SectionReassigned(s, u)
  <2>1. PICK s \in Sections, u \in Staff : SectionReassigned(s, u) BY <1>8
  <2>2. changes' \in 0..MaxChanges BY <2>1, ChangeOK DEF SectionReassigned
  <2>3. Shape' BY <2>1, <2>2 DEF SectionReassigned, Inv, Shape
  <2> QED BY <2>1, <2>3 DEF SectionReassigned, Inv, NoOrphans, SeenThere
<1>9. CASE UNCHANGED vars
  BY <1>9 DEF vars, Inv, Shape, NoOrphans, SeenThere
<1> QED BY <1>1, <1>2, <1>3, <1>4, <1>5, <1>6, <1>7, <1>8, <1>9 DEF Next

\* Evaluations of evaluations.service.ts and the cascade of the schema: whichever updates,
\* removals and imports come between the two statements of an update, no criterion is left of
\* an evaluation that is gone, and an update replaces only marks that are still there.
THEOREM TypeCorrect == Spec => []TypeOK
<1>1. Init => Inv BY InitOK
<1>2. Inv /\ [Next]_vars => Inv' BY StepOK
<1>3. Inv => TypeOK
  BY DEF Inv, Shape, NoOrphans, SeenThere, TypeOK, Update
<1> QED BY <1>1, <1>2, <1>3, PTL DEF Spec

-----------------------------------------------------------------------------
(* Induction over the subsets of a finite set, and how many rows there are. *)

LEMMA SubsetInduction ==
  ASSUME NEW S, IsFiniteSet(S), NEW F,
         \A T \in SUBSET S : (\A U \in SUBSET T : U # T => U \in F) => T \in F
  PROVE  SUBSET S \subseteq F
<1> DEFINE bad == {T \in SUBSET S : T \notin F}
<1>1. ASSUME bad # {} PROVE FALSE
  <2>1. IsWellFoundedOn(StrictSubsetOrdering(S), SUBSET S)
    BY FS_StrictSubsetOrderingWellFounded, FS_FiniteSubsetsOfFinite
  <2>2. bad \subseteq SUBSET S OBVIOUS
  <2>3. \E T \in bad : \A U \in bad : ~(<<U, T>> \in StrictSubsetOrdering(S))
    <3> HIDE DEF bad
    <3> QED BY <2>1, <2>2, <1>1, WFMin
  <2>4. PICK T \in bad : \A U \in bad : ~(<<U, T>> \in StrictSubsetOrdering(S)) BY <2>3
  <2>5. ASSUME NEW U \in SUBSET T, U # T PROVE U \in F
    <3>1. <<U, T>> \in StrictSubsetOrdering(S) BY <2>4, <2>5 DEF StrictSubsetOrdering
    <3>2. U \in SUBSET S BY <2>4
    <3> QED BY <2>4, <3>1, <3>2
  <2> QED BY <2>4, <2>5
<1> QED BY <1>1

LEMMA Two ==
  ASSUME NEW x, NEW y
  PROVE  IsFiniteSet({x, y})
<1>1. IsFiniteSet({x} \cup {y}) BY FS_Singleton, FS_Union, Zenon
<1>2. {x} \cup {y} = {x, y} OBVIOUS
<1> QED BY <1>1, <1>2, Zenon

LEMMA RowsFinite == IsFiniteSet(Keys)
  BY FS_Product DEF Keys

LEMMA Counted ==
  ASSUME NEW R, IsFiniteSet(R), NEW A \in SUBSET R
  PROVE  /\ IsFiniteSet(A) /\ Cardinality(A) \in Nat /\ Cardinality(A) <= Cardinality(R)
         /\ Cardinality(R \ A) = Cardinality(R) - Cardinality(A)
<1>1. IsFiniteSet(A) /\ Cardinality(A) <= Cardinality(R) BY FS_Subset
<1>2. Cardinality(A) \in Nat BY <1>1, FS_CardinalityType
<1>3. R \cap A = A OBVIOUS
<1> QED BY <1>1, <1>2, <1>3, FS_Difference

-----------------------------------------------------------------------------
(* The i-th score of a finite set of rows.                                 *)

AtMost(g, v) == {k \in DOMAIN g : g[k] <= v}
Below(g, v) == {k \in DOMAIN g : g[k] < v}
NthOf(g, i) == CHOOSE v \in {g[k] : k \in DOMAIN g} : Cardinality(AtMost(g, v)) >= i /\ Cardinality(Below(g, v)) < i

LEMMA NthExists ==
  ASSUME NEW R, IsFiniteSet(R), NEW g \in [R -> 1..10], NEW i \in 1..Cardinality(R)
  PROVE  /\ NthOf(g, i) \in 1..10
         /\ Cardinality(AtMost(g, NthOf(g, i))) >= i
         /\ Cardinality(Below(g, NthOf(g, i))) < i
<1> DEFINE n(v) == Cardinality(AtMost(g, v))
<1>1. n(0) = 0
  <2>1. AtMost(g, 0) = {} BY DEF AtMost
  <2> QED BY <2>1, FS_EmptySet
<1>2. n(10) = Cardinality(R)
  <2>1. AtMost(g, 10) = R BY DEF AtMost
  <2> QED BY <2>1
<1>3. \A v \in 0..10 : n(v) \in Nat
  <2>1. \A v \in 0..10 : AtMost(g, v) \in SUBSET R BY DEF AtMost
  <2> QED BY <2>1, Counted
<1>4. Cardinality(R) \in Nat BY FS_CardinalityType
<1>5. \E v \in 1..10 : n(v) >= i /\ n(v - 1) < i
  <2> HIDE DEF n
  <2>1. SUFFICES ASSUME \A v \in 1..10 : n(v - 1) < i => n(v) < i PROVE FALSE BY <1>3
  <2>2. n(0) < i BY <1>1
  <2>3. n(1) < i BY <2>1, <2>2
  <2>4. n(2) < i BY <2>1, <2>3
  <2>5. n(3) < i BY <2>1, <2>4
  <2>6. n(4) < i BY <2>1, <2>5
  <2>7. n(5) < i BY <2>1, <2>6
  <2>8. n(6) < i BY <2>1, <2>7
  <2>9. n(7) < i BY <2>1, <2>8
  <2>10. n(8) < i BY <2>1, <2>9
  <2>11. n(9) < i BY <2>1, <2>10
  <2>12. n(10) < i BY <2>1, <2>11
  <2> QED BY <2>12, <1>2, <1>4
<1>6. PICK v \in 1..10 : n(v) >= i /\ n(v - 1) < i BY <1>5
<1>7. Below(g, v) = AtMost(g, v - 1) BY DEF Below, AtMost
<1>8. v \in {g[k] : k \in DOMAIN g}
  <2>1. ASSUME \A k \in R : g[k] # v PROVE FALSE
    <3>1. AtMost(g, v) = AtMost(g, v - 1) BY <2>1 DEF AtMost
    <3> QED BY <3>1, <1>3, <1>6
  <2> QED BY <2>1
<1>9. NthOf(g, i) \in {g[k] : k \in DOMAIN g} /\ Cardinality(AtMost(g, NthOf(g, i))) >= i
        /\ Cardinality(Below(g, NthOf(g, i))) < i
  BY <1>6, <1>7, <1>8 DEF NthOf
<1> QED BY <1>9

\* The i-th score does not rise when no score does.
LEMMA NthMonotone ==
  ASSUME NEW R, IsFiniteSet(R), NEW g \in [R -> 1..10], NEW h \in [R -> 1..10],
         \A k \in R : h[k] <= g[k], NEW i \in 1..Cardinality(R)
  PROVE  NthOf(h, i) <= NthOf(g, i)
<1> DEFINE v == NthOf(g, i)
           w == NthOf(h, i)
<1>1. v \in 1..10 /\ Cardinality(AtMost(g, v)) >= i BY NthExists
<1>2. w \in 1..10 /\ Cardinality(Below(h, w)) < i BY NthExists
<1> HIDE DEF v, w
<1>3. SUFFICES ASSUME w > v PROVE FALSE BY <1>1, <1>2 DEF v, w
<1>4. AtMost(g, v) \subseteq Below(h, w) BY <1>1, <1>2, <1>3 DEF AtMost, Below
<1>5. Below(h, w) \in SUBSET R BY DEF Below
<1>6. /\ Cardinality(AtMost(g, v)) <= Cardinality(Below(h, w))
      /\ Cardinality(Below(h, w)) \in Nat /\ Cardinality(AtMost(g, v)) \in Nat
  BY <1>4, <1>5, Counted
<1>7. Cardinality(R) \in Nat BY FS_CardinalityType
<1> QED BY <1>1, <1>2, <1>6, <1>7

\* An earlier one of the sorted scores is no greater than a later one.
LEMMA NthOrdered ==
  ASSUME NEW R, IsFiniteSet(R), NEW g \in [R -> 1..10],
         NEW i \in 1..Cardinality(R), NEW j \in 1..Cardinality(R), i <= j
  PROVE  NthOf(g, i) <= NthOf(g, j)
<1> DEFINE v == NthOf(g, j)
           w == NthOf(g, i)
<1>1. v \in 1..10 /\ Cardinality(AtMost(g, v)) >= j BY NthExists
<1>2. w \in 1..10 /\ Cardinality(Below(g, w)) < i BY NthExists
<1> HIDE DEF v, w
<1>3. SUFFICES ASSUME w > v PROVE FALSE BY <1>1, <1>2 DEF v, w
<1>4. AtMost(g, v) \subseteq Below(g, w) BY <1>1, <1>2, <1>3 DEF AtMost, Below
<1>5. Below(g, w) \in SUBSET R BY DEF Below
<1>6. /\ Cardinality(AtMost(g, v)) <= Cardinality(Below(g, w))
      /\ Cardinality(Below(g, w)) \in Nat /\ Cardinality(AtMost(g, v)) \in Nat
  BY <1>4, <1>5, Counted
<1>7. Cardinality(R) \in Nat BY FS_CardinalityType
<1> QED BY <1>1, <1>2, <1>6, <1>7
-----------------------------------------------------------------------------
(* Points of the scores.                                                   *)

Floors == {9, 7, 5, 3}

LEMMA FloorsFinite == IsFiniteSet(Floors) /\ Cardinality(Floors) \in Nat
<1>1. Floors = {9, 7} \cup {5, 3} BY DEF Floors
<1>2. IsFiniteSet({9, 7}) /\ IsFiniteSet({5, 3}) BY Two
<1>3. IsFiniteSet(Floors) BY <1>1, <1>2, FS_Union
<1> QED BY <1>3, FS_CardinalityType

\* BAND_POINTS: a lower score never has fewer points.
LEMMA BandPointsFall ==
  ASSUME NEW x \in Int, NEW y \in Int, x <= y
  PROVE  /\ BandPoints(x) \in Nat /\ BandPoints(y) \in Nat
         /\ BandPoints(y) <= BandPoints(x)
<1>1. /\ {f \in Floors : y < f} \in SUBSET {f \in Floors : x < f}
      /\ {f \in Floors : x < f} \in SUBSET Floors
  BY DEF Floors
<1>2. /\ IsFiniteSet({f \in Floors : x < f})
      /\ Cardinality({f \in Floors : x < f}) \in Nat
  BY <1>1, FloorsFinite, Counted
<1>3. /\ Cardinality({f \in Floors : y < f}) \in Nat
      /\ Cardinality({f \in Floors : y < f}) <= Cardinality({f \in Floors : x < f})
  BY <1>1, <1>2, Counted
<1> QED BY <1>2, <1>3 DEF BandPoints, Floors

Fields == {"academic", "attitude"}
Scores(field) == [k \in Rows |-> row[k][field]]

\* The scores of the rows there are.
LEMMA ScoresOK ==
  ASSUME Shape, NEW field \in Fields
  PROVE  /\ IsFiniteSet(Rows) /\ Rows \in SUBSET Keys /\ Cardinality(Rows) \in Nat
         /\ Rows # {} => Cardinality(Rows) \in Nat \ {0}
         /\ Scores(field) \in [Rows -> 1..10]
         /\ \A i : Nth(field, i) = NthOf(Scores(field), i)
<1>1. Rows \in SUBSET Keys BY DEF Rows
<1>2. IsFiniteSet(Rows) /\ Cardinality(Rows) \in Nat BY <1>1, RowsFinite, Counted
<1>3. Rows # {} => Cardinality(Rows) # 0 BY <1>2, FS_EmptySet
<1>4. \A k \in Rows : row[k] \in Input BY <1>1 DEF Shape, Rows
<1>5. \A k \in Rows : row[k][field] \in 1..10 BY <1>4 DEF Input, Fields
<1>6. Scores(field) \in [Rows -> 1..10] BY <1>5 DEF Scores
<1>7. ASSUME NEW i PROVE Nth(field, i) = NthOf(Scores(field), i)
  <2>1. Given(field) = {Scores(field)[k] : k \in DOMAIN Scores(field)} BY DEF Given, Scores
  <2>2. ASSUME NEW v
        PROVE  /\ {k \in Rows : row[k][field] <= v} = AtMost(Scores(field), v)
               /\ {k \in Rows : row[k][field] < v} = Below(Scores(field), v)
    BY DEF AtMost, Below, Scores
  <2> QED BY <2>1, <2>2 DEF Nth, NthOf
<1> QED BY <1>1, <1>2, <1>3, <1>6, <1>7

\* The two scores in the middle: the one the median is not below and the one it is
\* not above.
Low(g) == LET n == Cardinality(DOMAIN g) IN IF n % 2 = 1 THEN NthOf(g, n \div 2 + 1) ELSE NthOf(g, n \div 2)
High(g) == NthOf(g, Cardinality(DOMAIN g) \div 2 + 1)

LEMMA MiddleOK ==
  ASSUME NEW R, IsFiniteSet(R), R # {}, NEW g \in [R -> 1..10]
  PROVE  /\ Low(g) \in 1..10 /\ High(g) \in 1..10 /\ Low(g) <= High(g)
         /\ 2 * Cardinality(AtMost(g, Low(g))) >= Cardinality(R)
         /\ 2 * Cardinality(R \ Below(g, High(g))) >= Cardinality(R)
<1> DEFINE n == Cardinality(R)
           middle == n \div 2
           lower == IF n % 2 = 1 THEN middle + 1 ELSE middle
<1>1. n \in Nat \ {0} BY FS_CardinalityType, FS_EmptySet
<1>2. middle + 1 \in 1..n /\ lower \in 1..n /\ lower <= middle + 1 /\ 2 * lower >= n /\ 2 * middle <= n
  <2> HIDE DEF n
  <2> QED BY <1>1
<1>3. Low(g) = NthOf(g, lower) /\ High(g) = NthOf(g, middle + 1) BY DEF Low, High
<1> HIDE DEF middle, lower
<1>4. Low(g) \in 1..10 /\ Cardinality(AtMost(g, Low(g))) >= lower BY <1>2, <1>3, NthExists
<1>5. High(g) \in 1..10 /\ Cardinality(Below(g, High(g))) < middle + 1 BY <1>2, <1>3, NthExists
<1>6. Low(g) <= High(g) BY <1>2, <1>3, NthOrdered
<1>7. AtMost(g, Low(g)) \in SUBSET R /\ Below(g, High(g)) \in SUBSET R BY DEF AtMost, Below
<1>8. /\ Cardinality(AtMost(g, Low(g))) \in Nat /\ Cardinality(Below(g, High(g))) \in Nat
      /\ Cardinality(R \ Below(g, High(g))) = n - Cardinality(Below(g, High(g)))
  BY <1>7, Counted
<1>9. 2 * Cardinality(AtMost(g, Low(g))) >= n
  <2> HIDE DEF n
  <2>1. middle \in Int /\ lower \in Int BY <1>1, <1>2 DEF middle, lower
  <2> QED BY <1>1, <1>2, <1>4, <1>8, <2>1
<1>10. 2 * Cardinality(R \ Below(g, High(g))) >= n
  <2> HIDE DEF n
  <2>1. middle \in Int /\ lower \in Int BY <1>1, <1>2 DEF middle, lower
  <2> QED BY <1>1, <1>2, <1>5, <1>8, <2>1
<1> QED BY <1>4, <1>5, <1>6, <1>9, <1>10

LEMMA MedianIs ==
  ASSUME Shape, NEW field \in Fields, Rows # {}
  PROVE  /\ TwiceMedian(field) = Low(Scores(field)) + High(Scores(field))
         /\ Low(Scores(field)) \in 1..10 /\ High(Scores(field)) \in 1..10
         /\ Low(Scores(field)) <= High(Scores(field))
<1> DEFINE g == Scores(field)
<1>1. /\ g \in [Rows -> 1..10] /\ DOMAIN g = Rows /\ IsFiniteSet(Rows) /\ Cardinality(Rows) \in Nat
      /\ \A i : Nth(field, i) = NthOf(g, i)
  BY ScoresOK DEF Scores
<1>2. Low(g) \in 1..10 /\ High(g) \in 1..10 /\ Low(g) <= High(g) BY <1>1, MiddleOK
<1>3. TwiceMedian(field) = Low(g) + High(g)
  <2> HIDE DEF g
  <2>1. CASE Cardinality(Rows) % 2 = 1 BY <1>1, <1>2, <2>1 DEF TwiceMedian, Low, High
  <2>2. CASE Cardinality(Rows) % 2 # 1 BY <1>1, <1>2, <2>2 DEF TwiceMedian, Low, High
  <2> QED BY <2>1, <2>2
<1> QED BY <1>2, <1>3

\* risk-score.ts median, scoreBand: whatever the number of lecturers and the scores they
\* give, half of them gave a score that is as urgent and half one that is no more urgent.
LEMMA MedianFair ==
  ASSUME Shape, NEW field \in Fields, Rows # {}
  PROVE  LET points == ScorePoints(field)
             n == Cardinality(Rows)
         IN  /\ 2 * Cardinality({k \in Rows : BandPoints(row[k][field]) >= points}) >= n
             /\ 2 * Cardinality({k \in Rows : BandPoints(row[k][field]) <= points}) >= n
<1> DEFINE g == Scores(field)
           rounded == (TwiceMedian(field) + 1) \div 2
           urgent == {k \in Rows : BandPoints(row[k][field]) >= ScorePoints(field)}
           calm == {k \in Rows : BandPoints(row[k][field]) <= ScorePoints(field)}
<1>1. /\ g \in [Rows -> 1..10] /\ DOMAIN g = Rows /\ IsFiniteSet(Rows) /\ Cardinality(Rows) \in Nat
      /\ \A k \in Rows : g[k] = row[k][field]
  BY ScoresOK DEF Scores
<1>2. /\ TwiceMedian(field) = Low(g) + High(g) /\ Low(g) \in 1..10 /\ High(g) \in 1..10 /\ Low(g) <= High(g)
  BY MedianIs
<1>3. /\ 2 * Cardinality(AtMost(g, Low(g))) >= Cardinality(Rows)
      /\ 2 * Cardinality(Rows \ Below(g, High(g))) >= Cardinality(Rows)
  BY <1>1, MiddleOK
<1>4. ScorePoints(field) = BandPoints(rounded) BY DEF ScorePoints
<1>5. rounded \in Int /\ Low(g) <= rounded /\ rounded <= High(g)
  <2> HIDE DEF g
  <2> QED BY <1>2
<1> HIDE DEF g, rounded
<1>6. AtMost(g, Low(g)) \subseteq urgent
  <2>1. ASSUME NEW k \in Rows, g[k] <= Low(g) PROVE BandPoints(row[k][field]) >= ScorePoints(field)
    <3>1. g[k] \in Int /\ g[k] <= rounded BY <1>1, <1>2, <1>5, <2>1
    <3>2. BandPoints(g[k]) \in Nat /\ BandPoints(rounded) \in Nat /\ BandPoints(rounded) <= BandPoints(g[k])
      BY <3>1, <1>5, BandPointsFall
    <3> QED BY <3>2, <1>1, <1>4
  <2> QED BY <2>1, <1>1 DEF AtMost
<1>7. Rows \ Below(g, High(g)) \subseteq calm
  <2>1. ASSUME NEW k \in Rows, ~(g[k] < High(g)) PROVE BandPoints(row[k][field]) <= ScorePoints(field)
    <3>1. g[k] \in Int /\ rounded <= g[k] BY <1>1, <1>2, <1>5, <2>1
    <3>2. BandPoints(g[k]) \in Nat /\ BandPoints(rounded) \in Nat /\ BandPoints(g[k]) <= BandPoints(rounded)
      BY <3>1, <1>5, BandPointsFall
    <3> QED BY <3>2, <1>1, <1>4
  <2> QED BY <2>1, <1>1 DEF Below
<1>8. urgent \in SUBSET Rows /\ calm \in SUBSET Rows OBVIOUS
<1> HIDE DEF urgent, calm
<1>9. /\ Cardinality(urgent) \in Nat /\ Cardinality(AtMost(g, Low(g))) \in Nat
      /\ Cardinality(AtMost(g, Low(g))) <= Cardinality(urgent)
  BY <1>1, <1>6, <1>8, Counted
<1>10. /\ Cardinality(calm) \in Nat /\ Cardinality(Rows \ Below(g, High(g))) \in Nat
       /\ Cardinality(Rows \ Below(g, High(g))) <= Cardinality(calm)
  BY <1>1, <1>7, <1>8, Counted
<1>11. 2 * Cardinality(urgent) >= Cardinality(Rows) /\ 2 * Cardinality(calm) >= Cardinality(Rows)
  BY <1>1, <1>3, <1>9, <1>10
<1> QED BY <1>11 DEF urgent, calm

\* risk-score.ts: the points of the median are fair to the lecturers, for every staff and
\* any order of evaluations, updates and removals.
THEOREM MedianIsFair == Spec => []MedianOfPoints
<1>1. Init => Inv BY InitOK
<1>2. Inv /\ [Next]_vars => Inv' BY StepOK
<1>3. Inv => MedianOfPoints BY MedianFair DEF Inv, MedianOfPoints, Fields
<1> QED BY <1>1, <1>2, <1>3, PTL DEF Spec
-----------------------------------------------------------------------------
(* The sum over the criteria.                                              *)

\* What FoldSet sums up, one criterion after the other.
Picked(s) == CHOOSE c \in s : TRUE
SumsUp(g, S) == g = [s \in SUBSET S |-> IF s = {} THEN 0 ELSE Points[Picked(s)] + g[s \ {Picked(s)}]]
Sum(S) == FoldSet(LAMBDA c, sum : Points[c] + sum, 0, S)

\* The points of the criteria laid out side by side.
Laid(s) == {p \in s \X (1..9) : p[2] <= Points[p[1]]}

LEMMA PointsOK == \A c \in Criteria : Points[c] \in 1..9
  BY DEF Criteria, Points

LEMMA LaidFinite ==
  ASSUME NEW S \in SUBSET Criteria, IsFiniteSet(S)
  PROVE  IsFiniteSet(Laid(S)) /\ Cardinality(Laid(S)) \in Nat
<1>1. IsFiniteSet(1..9)
  <2>1. 1 \in Int /\ 9 \in Int OBVIOUS
  <2> QED BY <2>1, FS_Interval, Zenon
<1>2. IsFiniteSet(S \X (1..9)) BY <1>1, FS_Product
<1>3. Laid(S) \in SUBSET (S \X (1..9)) BY DEF Laid
<1> QED BY <1>2, <1>3, Counted

LEMMA LaidOne ==
  ASSUME NEW S \in SUBSET Criteria, IsFiniteSet(S), NEW c \in S
  PROVE  Cardinality(Laid(S)) = Points[c] + Cardinality(Laid(S \ {c}))
<1> DEFINE own == {c} \X (1..Points[c])
<1>1. Points[c] \in 1..9 BY PointsOK
<1>2. IsFiniteSet(own) /\ Cardinality(own) = Points[c]
  <2>1. IsFiniteSet({c}) /\ Cardinality({c}) = 1 BY FS_Singleton
  <2>2. IsFiniteSet(1..Points[c]) /\ Cardinality(1..Points[c]) = Points[c]
    <3> DEFINE n == Points[c]
    <3>1. n \in 1..9 BY <1>1
    <3> HIDE DEF n
    <3>2. 1 \in Int /\ n \in Int BY <3>1
    <3>3. IsFiniteSet(1..n) /\ Cardinality(1..n) = IF 1 > n THEN 0 ELSE n - 1 + 1
      BY <3>2, FS_Interval, Zenon
    <3>4. (IF 1 > n THEN 0 ELSE n - 1 + 1) = n BY <3>1
    <3> QED BY <3>3, <3>4 DEF n
  <2>3. Cardinality(own) = 1 * Points[c] /\ IsFiniteSet(own) BY <2>1, <2>2, FS_Product
  <2> QED BY <2>3, <1>1
<1>3. S \ {c} \in SUBSET Criteria /\ IsFiniteSet(S \ {c}) BY FS_Subset
<1>4. IsFiniteSet(Laid(S \ {c})) /\ Cardinality(Laid(S \ {c})) \in Nat BY <1>3, LaidFinite
<1>5. Laid(S) = own \cup Laid(S \ {c})
  <2>1. ASSUME NEW p \in Laid(S) PROVE p \in own \cup Laid(S \ {c})
    <3>1. p \in S \X (1..9) /\ p[2] <= Points[p[1]] BY DEF Laid
    <3>2. CASE p[1] = c BY <3>1, <3>2, <1>1
    <3>3. CASE p[1] # c BY <3>1, <3>3 DEF Laid
    <3> QED BY <3>2, <3>3
  <2>2. own \subseteq Laid(S) BY <1>1 DEF Laid
  <2>3. Laid(S \ {c}) \subseteq Laid(S) BY DEF Laid
  <2> QED BY <2>1, <2>2, <2>3
<1>6. own \cap Laid(S \ {c}) = {} BY DEF Laid
<1>7. Cardinality({}) = 0 BY FS_EmptySet
<1> HIDE DEF own
<1>8. Cardinality(Laid(S)) = Cardinality(own) + Cardinality(Laid(S \ {c})) - Cardinality(own \cap Laid(S \ {c}))
  BY <1>2, <1>4, <1>5, FS_Union
<1>9. Cardinality(own \cap Laid(S \ {c})) = 0 BY <1>6, <1>7
<1> QED BY <1>1, <1>2, <1>4, <1>8, <1>9

\* The fold over a finite set is that number, in whatever order it picks.
LEMMA SumIs ==
  ASSUME NEW S \in SUBSET Criteria, IsFiniteSet(S)
  PROVE  Sum(S) = Cardinality(Laid(S))
<1> DEFINE laid == [s \in SUBSET S |-> Cardinality(Laid(s))]
           g == CHOOSE h : SumsUp(h, S)
<1>1. \A s \in SUBSET S : s # {} => Picked(s) \in s BY DEF Picked
<1>2. \A s \in SUBSET S : s \in SUBSET Criteria /\ IsFiniteSet(s) BY FS_Subset
<1>3. Cardinality(Laid({})) = 0
  <2>1. Laid({}) = {} BY DEF Laid
  <2> QED BY <2>1, FS_EmptySet
<1>4. ASSUME NEW s \in SUBSET S
      PROVE  laid[s] = IF s = {} THEN 0 ELSE Points[Picked(s)] + laid[s \ {Picked(s)}]
  <2>1. CASE s = {} BY <2>1, <1>3
  <2>2. CASE s # {}
    <3>1. Picked(s) \in s BY <2>2, <1>1
    <3>2. Cardinality(Laid(s)) = Points[Picked(s)] + Cardinality(Laid(s \ {Picked(s)}))
      BY <3>1, <1>2, LaidOne
    <3>3. s \ {Picked(s)} \in SUBSET S OBVIOUS
    <3> QED BY <2>2, <3>2, <3>3
  <2> QED BY <2>1, <2>2
<1>5. SumsUp(laid, S)
  <2> HIDE DEF laid
  <2>1. DOMAIN laid = SUBSET S /\ laid = [s \in SUBSET S |-> laid[s]] BY DEF laid
  <2> QED BY <2>1, <1>4 DEF SumsUp
<1>6. SumsUp(g, S)
  <2> HIDE DEF laid
  <2> QED BY <1>5
<1>7. \A T \in SUBSET S : (\A U \in SUBSET T : U # T => U \in {s \in SUBSET S : g[s] = laid[s]}) =>
                             T \in {s \in SUBSET S : g[s] = laid[s]}
  <2> HIDE DEF g, laid
  <2>1. ASSUME NEW T \in SUBSET S, \A U \in SUBSET T : U # T => g[U] = laid[U]
        PROVE  g[T] = laid[T]
    <3>1. g[T] = IF T = {} THEN 0 ELSE Points[Picked(T)] + g[T \ {Picked(T)}] BY <1>6 DEF SumsUp
    <3>2. laid[T] = IF T = {} THEN 0 ELSE Points[Picked(T)] + laid[T \ {Picked(T)}] BY <1>4
    <3>3. CASE T = {} BY <3>1, <3>2, <3>3
    <3>4. CASE T # {}
      <4>1. T \ {Picked(T)} \in SUBSET T /\ T \ {Picked(T)} # T BY <3>4, <1>1
      <4> QED BY <2>1, <3>1, <3>2, <4>1
    <3> QED BY <3>3, <3>4
  <2> QED BY <2>1
<1>8. SUBSET S \subseteq {s \in SUBSET S : g[s] = laid[s]}
  <2> DEFINE F == {s \in SUBSET S : g[s] = laid[s]}
  <2> HIDE DEF g, laid
  <2>1. \A T \in SUBSET S : (\A U \in SUBSET T : U # T => U \in F) => T \in F BY <1>7
  <2> HIDE DEF F
  <2>2. SUBSET S \subseteq F BY <2>1, SubsetInduction
  <2> QED BY <2>2 DEF F
<1>9. g[S] = Cardinality(Laid(S))
  <2> HIDE DEF g
  <2>1. S \in SUBSET S OBVIOUS
  <2>2. g[S] = laid[S] BY <1>8, <2>1
  <2> QED BY <2>1, <2>2
<1>10. Sum(S) = g[S] BY DEF Sum, FoldSet, MapThenFoldSet, SumsUp, Picked
<1> QED BY <1>9, <1>10

LEMMA CriteriaFinite == IsFiniteSet(Criteria)
<1> DEFINE a == {"P_NOT_FIT_MAJOR", "P_PART_TIME_JOB"}
           b == {"P_OTHER_ACTIVITIES", "P_FAMILY_HARDSHIP"}
           c == {"P_FINANCIAL_HARDSHIP", "P_PSYCHOLOGICAL"}
           d == {"P_DROPOUT_INTENT", "H_NO_QUIZ_CMS"}
           e == {"H_EXAM_BAN_RISK", "H_NO_RESPONSE"}
<1>1. Criteria = (((a \cup b) \cup c) \cup d) \cup e BY DEF Criteria, Points
<1>2. IsFiniteSet(a) /\ IsFiniteSet(b) /\ IsFiniteSet(c) /\ IsFiniteSet(d) /\ IsFiniteSet(e) BY Two
<1> HIDE DEF a, b, c, d, e
<1>3. IsFiniteSet(a \cup b) BY <1>2, FS_Union
<1>4. IsFiniteSet((a \cup b) \cup c) BY <1>2, <1>3, FS_Union
<1>5. IsFiniteSet(((a \cup b) \cup c) \cup d) BY <1>2, <1>4, FS_Union
<1>6. IsFiniteSet((((a \cup b) \cup c) \cup d) \cup e) BY <1>2, <1>5, FS_Union
<1> QED BY <1>1, <1>6

\* More criteria, more points.
LEMMA SumRises ==
  ASSUME NEW A \in SUBSET Criteria, NEW B \in SUBSET A
  PROVE  Sum(A) \in Nat /\ Sum(B) \in Nat /\ Sum(B) <= Sum(A)
<1>1. IsFiniteSet(A) /\ IsFiniteSet(B) /\ B \in SUBSET Criteria
  <2>1. IsFiniteSet(A) BY CriteriaFinite, FS_Subset
  <2> QED BY <2>1, FS_Subset
<1>2. Laid(B) \in SUBSET Laid(A) BY DEF Laid
<1>3. IsFiniteSet(Laid(A)) BY <1>1, LaidFinite
<1> QED BY <1>1, <1>2, <1>3, Counted, SumIs, FS_CardinalityType
-----------------------------------------------------------------------------
(* No part of the score gets better by a report that does not.             *)

LEMMA LowHighFall ==
  ASSUME NEW R, IsFiniteSet(R), R # {}, NEW g \in [R -> 1..10], NEW h \in [R -> 1..10],
         \A k \in R : h[k] <= g[k]
  PROVE  Low(h) <= Low(g) /\ High(h) <= High(g)
<1> DEFINE n == Cardinality(R)
           middle == n \div 2
<1>1. n \in Nat \ {0} BY FS_CardinalityType, FS_EmptySet
<1>2. middle + 1 \in 1..n /\ (n % 2 # 1 => middle \in 1..n)
  <2> HIDE DEF n
  <2> QED BY <1>1
<1>3. DOMAIN g = R /\ DOMAIN h = R OBVIOUS
<1>4. NthOf(h, middle + 1) <= NthOf(g, middle + 1)
  <2> HIDE DEF middle
  <2> QED BY <1>2, NthMonotone
<1>5. n % 2 # 1 => NthOf(h, middle) <= NthOf(g, middle)
  <2> HIDE DEF middle
  <2> QED BY <1>2, NthMonotone
<1> HIDE DEF middle
<1> QED BY <1>3, <1>4, <1>5 DEF Low, High, middle

LEMMA MedianLater ==
  Shape' => (\A field \in Fields : Rows # {} => TwiceMedian(field) = Low(Scores(field)) + High(Scores(field)))'
<1>1. Shape => \A field \in Fields : Rows # {} => TwiceMedian(field) = Low(Scores(field)) + High(Scores(field))
  BY MedianIs
<1> QED BY <1>1, PTL

LEMMA ScorePointsRise ==
  ASSUME Shape, Shape', Rows' = Rows, NEW field \in Fields,
         \A k \in Rows : row'[k][field] <= row[k][field]
  PROVE  /\ ScorePoints(field) \in Nat /\ ScorePoints(field)' \in Nat
         /\ ScorePoints(field) <= ScorePoints(field)'
<1>1. CASE Rows = {} BY <1>1 DEF ScorePoints
<1>2. CASE Rows # {}
  <2> DEFINE g == Scores(field)
             h == Scores(field)'
  <2>1. IsFiniteSet(Rows) /\ g \in [Rows -> 1..10] BY ScoresOK
  <2>2. h = [k \in Rows |-> row'[k][field]] BY DEF Scores
  <2>3. h \in [Rows -> 1..10]
    <3>1. \A k \in Rows : row'[k] \in Input BY DEF Shape, Rows
    <3> QED BY <2>2, <3>1 DEF Input, Fields
  <2>4. \A k \in Rows : h[k] <= g[k] BY <2>2 DEF Scores
  <2>5. /\ TwiceMedian(field) = Low(g) + High(g) /\ Low(g) \in 1..10 /\ High(g) \in 1..10
    BY <1>2, MedianIs
  <2>6. /\ TwiceMedian(field)' = Low(h) + High(h)
    <3>1. Low(Scores(field))' = Low(h) /\ High(Scores(field))' = High(h) BY DEF Low, High
    <3> QED BY <3>1, <1>2, MedianLater
  <2> HIDE DEF g, h
  <2>7. Low(h) \in 1..10 /\ High(h) \in 1..10 /\ Low(h) <= Low(g) /\ High(h) <= High(g)
    BY <1>2, <2>1, <2>3, <2>4, MiddleOK, LowHighFall
  <2>8. /\ (TwiceMedian(field) + 1) \div 2 \in Int /\ (TwiceMedian(field)' + 1) \div 2 \in Int
        /\ (TwiceMedian(field)' + 1) \div 2 <= (TwiceMedian(field) + 1) \div 2
    <3> DEFINE m == TwiceMedian(field)
               n == TwiceMedian(field)'
    <3>1. m \in Int /\ n \in Int /\ n <= m BY <2>5, <2>6, <2>7
    <3> HIDE DEF m, n
    <3>2. (m + 1) \div 2 \in Int /\ (n + 1) \div 2 \in Int /\ (n + 1) \div 2 <= (m + 1) \div 2 BY <3>1
    <3> QED BY <3>2 DEF m, n
  <2>9. /\ BandPoints((TwiceMedian(field) + 1) \div 2) \in Nat
        /\ BandPoints((TwiceMedian(field)' + 1) \div 2) \in Nat
        /\ BandPoints((TwiceMedian(field) + 1) \div 2) <= BandPoints((TwiceMedian(field)' + 1) \div 2)
    BY <2>8, BandPointsFall
  <2> QED BY <1>2, <2>9 DEF ScorePoints
<1> QED BY <1>1, <1>2

\* The largest of a few numbers.
LEMMA LargestIs ==
  ASSUME NEW S, S # {}, S \subseteq {0, 2, 3}
  PROVE  Max(S) \in S /\ \A x \in S : x <= Max(S)
<1>1. \E x \in S : \A y \in S : x >= y
  <2>1. CASE 3 \in S BY <2>1
  <2>2. CASE 3 \notin S /\ 2 \in S BY <2>2
  <2>3. CASE 3 \notin S /\ 2 \notin S
    <3>1. S = {0} BY <2>3
    <3> QED BY <3>1
  <2> QED BY <2>1, <2>2, <2>3
<1>2. Max(S) \in S /\ \A y \in S : Max(S) >= y BY <1>1 DEF Max
<1> QED BY <1>2

LEMMA LargerIs ==
  ASSUME NEW a \in Int, NEW b \in Int
  PROVE  Max({a, b}) \in Int /\ Max({a, b}) >= a /\ Max({a, b}) >= b /\ Max({a, b}) \in {a, b}
<1>1. \E x \in {a, b} : \A y \in {a, b} : x >= y OBVIOUS
<1>2. Max({a, b}) \in {a, b} /\ \A y \in {a, b} : Max({a, b}) >= y BY <1>1 DEF Max
<1> QED BY <1>2

LEMMA AbsencesOK ==
  ASSUME Shape, NEW k \in Rows
  PROVE  Absences(k) \in Nat \cup {None}
<1>1. k \in Keys /\ row[k] \in Input BY DEF Shape, Rows
<1>2. k[1] \in Sections BY <1>1 DEF Keys
<1> QED BY <1>1, <1>2 DEF Shape, Input, Absences

LEMMA ReportsOK ==
  ASSUME Shape
  PROVE  /\ Reports \in SUBSET Rows /\ \A k \in Reports : Absences(k) \in Nat
         /\ Cardinality(Reports) \in Nat
         /\ \A k \in Reports : AbsentPoint(Absences(k)) \in {0, 2, 3}
         /\ Reports # {} => /\ Worst \in {0, 2, 3}
                            /\ \E k \in Reports : Worst = AbsentPoint(Absences(k))
                            /\ \A k \in Reports : AbsentPoint(Absences(k)) <= Worst
<1>1. Reports \in SUBSET Rows /\ \A k \in Reports : Absences(k) \in Nat BY AbsencesOK DEF Reports
<1>2. IsFiniteSet(Rows) BY RowsFinite, Counted DEF Rows
<1>3. Cardinality(Reports) \in Nat BY <1>1, <1>2, Counted
<1>4. \A k \in Reports : AbsentPoint(Absences(k)) \in {0, 2, 3} BY <1>1 DEF AbsentPoint
<1>5. ASSUME Reports # {}
      PROVE  /\ Worst \in {0, 2, 3}
             /\ \E k \in Reports : Worst = AbsentPoint(Absences(k))
             /\ \A k \in Reports : AbsentPoint(Absences(k)) <= Worst
  <2> DEFINE all == {AbsentPoint(Absences(k)) : k \in Reports}
  <2>1. all # {} /\ all \subseteq {0, 2, 3} BY <1>4, <1>5
  <2>2. Worst = Max(all) BY DEF Worst
  <2>3. Max(all) \in all /\ \A x \in all : x <= Max(all)
    <3> HIDE DEF all
    <3> QED BY <2>1, LargestIs
  <2> QED BY <2>1, <2>2, <2>3
<1> QED BY <1>1, <1>3, <1>4, <1>5

LEMMA ReportsLater ==
  Shape' => /\ (\A k \in Reports : Absences(k) \in Nat)'
            /\ (Reports # {} => Worst \in {0, 2, 3} /\ \A k \in Reports : AbsentPoint(Absences(k)) <= Worst)'
<1>1. Shape => /\ \A k \in Reports : Absences(k) \in Nat
               /\ Reports # {} => Worst \in {0, 2, 3} /\ \A k \in Reports : AbsentPoint(Absences(k)) <= Worst
  BY ReportsOK
<1> QED BY <1>1, PTL

LEMMA AttendanceRises ==
  ASSUME Shape, Shape', Reports' = Reports,
         \A k \in Reports : Absences(k) <= Absences(k)'
  PROVE  AttendanceScore \in Nat /\ AttendanceScore' \in Nat /\ AttendanceScore <= AttendanceScore'
<1>1. /\ \A k \in Reports : Absences(k) \in Nat
      /\ Reports # {} => Worst \in {0, 2, 3} /\ \E k \in Reports : Worst = AbsentPoint(Absences(k))
  BY ReportsOK
<1>2. /\ \A k \in Reports : Absences(k)' \in Nat
      /\ Reports # {} => Worst' \in {0, 2, 3} /\ \A k \in Reports : AbsentPoint(Absences(k)') <= Worst'
  BY ReportsLater DEF AbsentPoint
<1>3. \A k \in Reports : AbsentPoint(Absences(k)) <= AbsentPoint(Absences(k)')
  BY <1>1, <1>2 DEF AbsentPoint
<1>4. Reports # {} => Worst <= Worst'
  <2>1. SUFFICES ASSUME Reports # {} PROVE Worst <= Worst' OBVIOUS
  <2>2. PICK k \in Reports : Worst = AbsentPoint(Absences(k)) BY <1>1, <2>1
  <2>3. AbsentPoint(Absences(k)) <= AbsentPoint(Absences(k)') /\ AbsentPoint(Absences(k)') <= Worst'
    BY <1>2, <1>3, <2>1
  <2>4. AbsentPoint(Absences(k)') \in Int BY <1>2 DEF AbsentPoint
  <2> QED BY <1>1, <1>2, <2>1, <2>2, <2>3, <2>4
<1>5. (\A k \in Reports : Absences(k) >= 3) => (\A k \in Reports : Absences(k)' >= 3) BY <1>1, <1>2
<1>6. (\A k \in Reports : Absences(k) >= 2) => (\A k \in Reports : Absences(k)' >= 2) BY <1>1, <1>2
<1>7. AttendanceScore' = IF Reports = {} THEN 0
                         ELSE IF Cardinality(Reports) < 2 THEN Worst'
                         ELSE IF \A k \in Reports : Absences(k)' >= 3 THEN 12
                         ELSE IF \A k \in Reports : Absences(k)' >= 2 THEN 9
                         ELSE Worst'
  BY DEF AttendanceScore
<1>8. CASE Reports = {} BY <1>7, <1>8 DEF AttendanceScore
<1>9. CASE Reports # {}
  <2> DEFINE one == Cardinality(Reports) < 2
             three == \A k \in Reports : Absences(k) >= 3
             two == \A k \in Reports : Absences(k) >= 2
             threeNow == \A k \in Reports : Absences(k)' >= 3
             twoNow == \A k \in Reports : Absences(k)' >= 2
  <2>1. AttendanceScore' = IF one THEN Worst' ELSE IF threeNow THEN 12 ELSE IF twoNow THEN 9 ELSE Worst'
    BY <1>7, <1>9
  <2>2. AttendanceScore = IF one THEN Worst ELSE IF three THEN 12 ELSE IF two THEN 9 ELSE Worst
    BY <1>9 DEF AttendanceScore
  <2>3. (three => threeNow) /\ (two => twoNow) BY <1>5, <1>6
  <2>4. Worst \in {0, 2, 3} /\ Worst' \in {0, 2, 3} /\ Worst <= Worst' BY <1>1, <1>2, <1>4, <1>9
  <2> HIDE DEF one, three, two, threeNow, twoNow
  <2> QED BY <2>1, <2>2, <2>3, <2>4
<1> QED BY <1>8, <1>9
LEMMA CriteriaRise ==
  ASSUME Shape, Shape', Rows' = Rows, \A k \in Rows : marks[k] \subseteq marks'[k]
  PROVE  CriteriaPoints \in Nat /\ CriteriaPoints' \in Nat /\ CriteriaPoints <= CriteriaPoints'
<1> DEFINE before == UNION {marks[k] : k \in Rows}
           after == UNION {marks'[k] : k \in Rows}
<1>1. Rows \in SUBSET Keys BY DEF Rows
<1>2. after \in SUBSET Criteria BY <1>1 DEF Shape
<1>3. before \in SUBSET after OBVIOUS
<1>4. CriteriaPoints = Sum(before) BY DEF CriteriaPoints, Sum
<1>5. CriteriaPoints' = Sum(after)
  <2>1. CriteriaPoints' = Sum(UNION {marks'[k] : k \in Rows'})
    BY DEF CriteriaPoints, Sum, FoldSet, MapThenFoldSet
  <2>2. after = UNION {marks'[k] : k \in Rows'} OBVIOUS
  <2> HIDE DEF after
  <2> QED BY <2>1, <2>2
<1> HIDE DEF before, after
<1> QED BY <1>2, <1>3, <1>4, <1>5, SumRises

\* A report that gets no better is there before and after.
LEMMA SameReports ==
  ASSUME Shape, Shape', NoBetter
  PROVE  Rows' = Rows /\ Reports' = Reports /\ \A k \in Reports : Absences(k) <= Absences(k)'
<1>1. Rows' = Rows BY DEF NoBetter
<1>2. \A k \in Rows : \/ Absences(k)' = Absences(k)
                      \/ None \notin {Absences(k), Absences(k)'} /\ Absences(k)' >= Absences(k)
  BY DEF NoBetter
<1>3. Reports' = Reports BY <1>1, <1>2 DEF Reports
<1>4. \A k \in Reports : Absences(k) \in Nat BY ReportsOK
<1> QED BY <1>1, <1>2, <1>3, <1>4, ReportsOK

LEMMA LevelRises ==
  ASSUME Shape, Shape', NoBetter
  PROVE  Level' >= Level
<1>1. Rows' = Rows /\ Reports' = Reports /\ \A k \in Reports : Absences(k) <= Absences(k)' BY SameReports
<1>2. /\ ScorePoints("academic") \in Nat /\ ScorePoints("academic")' \in Nat
      /\ ScorePoints("academic") <= ScorePoints("academic")'
  <2>1. \A k \in Rows : row'[k]["academic"] <= row[k]["academic"] BY DEF NoBetter
  <2> QED BY <1>1, <2>1, ScorePointsRise DEF Fields
<1>3. /\ ScorePoints("attitude") \in Nat /\ ScorePoints("attitude")' \in Nat
      /\ ScorePoints("attitude") <= ScorePoints("attitude")'
  <2>1. \A k \in Rows : row'[k]["attitude"] <= row[k]["attitude"] BY DEF NoBetter
  <2> QED BY <1>1, <2>1, ScorePointsRise DEF Fields
<1>4. AttendanceScore \in Nat /\ AttendanceScore' \in Nat /\ AttendanceScore <= AttendanceScore'
  BY <1>1, AttendanceRises
<1>5. CriteriaPoints \in Nat /\ CriteriaPoints' \in Nat /\ CriteriaPoints <= CriteriaPoints'
  BY CriteriaRise DEF NoBetter
<1>6. Drs \in Nat /\ Drs' \in Nat /\ Drs <= Drs' BY <1>2, <1>3, <1>4, <1>5 DEF Drs
<1>7. /\ LevelFromDrs(Drs) \in 1..4 /\ LevelFromDrs(Drs') \in 1..4
      /\ LevelFromDrs(Drs) <= LevelFromDrs(Drs')
  BY <1>6 DEF LevelFromDrs
<1>8. /\ DataForcedLevel \in 1..3 /\ DataForcedLevel' \in 1..3 /\ DataForcedLevel <= DataForcedLevel'
  <2>1. \A k \in Reports : Absences(k) \in Nat BY ReportsOK
  <2>2. \A k \in Reports : Absences(k)' \in Nat BY <1>1, ReportsLater
  <2>3. DataForcedLevel' = IF Cardinality(Reports) >= 2 /\ \A k \in Reports : Absences(k)' >= 3 THEN 3 ELSE 1
    BY <1>1 DEF DataForcedLevel
  <2>4. (\A k \in Reports : Absences(k) >= 3) => (\A k \in Reports : Absences(k)' >= 3) BY <1>1, <2>1, <2>2
  <2> QED BY <2>3, <2>4 DEF DataForcedLevel
<1>9. Level = Max({LevelFromDrs(Drs), DataForcedLevel}) BY DEF Level
<1>10. Level' = Max({LevelFromDrs(Drs'), DataForcedLevel'}) BY DEF Level
<1> DEFINE a == LevelFromDrs(Drs)
           b == DataForcedLevel
           x == LevelFromDrs(Drs')
           y == DataForcedLevel'
<1>11. a \in Int /\ b \in Int /\ x \in Int /\ y \in Int /\ a <= x /\ b <= y BY <1>7, <1>8
<1> HIDE DEF a, b, x, y
<1>12. Max({x, y}) \in Int /\ Max({x, y}) >= x /\ Max({x, y}) >= y /\ Max({a, b}) \in {a, b}
  BY <1>11, LargerIs
<1>13. Max({x, y}) >= Max({a, b}) BY <1>11, <1>12
<1> QED BY <1>9, <1>10, <1>13 DEF a, b, x, y

\* computeRiskScore: for every number of lecturers, sections, scores, absences and criteria,
\* a step by which no report gets better does not lower the level.
THEOREM WorseIsNeverCalmer == Spec => WorseNeverCalmer
<1>1. Init => Inv BY InitOK
<1>2. Inv /\ [Next]_vars => Inv' BY StepOK
<1>3. Inv /\ Inv' => (NoBetter => Level' >= Level) BY LevelRises DEF Inv
<1> QED BY <1>1, <1>2, <1>3, PTL DEF Spec, WorseNeverCalmer
=============================================================================
