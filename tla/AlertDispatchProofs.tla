------------------------ MODULE AlertDispatchProofs ------------------------
(***************************************************************************)
(* Proofs about AlertDispatch for every set of recipients, workers and     *)
(* levels and every number of calls, attempts, stalls and faults.          *)
(***************************************************************************)
EXTENDS AlertDispatch, TLAPS

USE DispatchAssumption DEF Calls, Procs

-----------------------------------------------------------------------------
(* The inductive invariant.                                                *)

JobsOK ==
  /\ job \in [Calls -> JobRecord]
  /\ \A n \in Calls :
       /\ job[n].st \in {"waiting", "active"} => job[n].tries > 0
       /\ job[n].st = "active" <=> job[n].owner # None

\* An execution works for a call, and has nobody's notification before it inserted.
RunsOK ==
  /\ run \in [Procs -> RunRecord]
  /\ \A p \in Procs :
       /\ run[p].pc # "idle" => run[p].call \in Calls
       /\ run[p].pc \in {"idle", "add", "insert"} => run[p].got = {}
       /\ run[p].pc = "refresh" => run[p].call # 1

\* Who holds r's new notification for the first call.
Holds(p, r) == run[p].call = 1 /\ r \in run[p].got

\* The row admits one execution, which is alone in having to tell.
OnceInv ==
  \A r \in Recipients :
    /\ row[r] = 0 => told[1][r] = 0 /\ \A p \in Procs : ~Holds(p, r)
    /\ \A p \in Procs : Holds(p, r) => told[1][r] = 0
    /\ \A p, q \in Procs : Holds(p, r) /\ Holds(q, r) => p = q
    /\ told[1][r] <= 1

Inv == TypeOK /\ RunsOK /\ OnceInv

-----------------------------------------------------------------------------
(* The typing of the parts a step changes.                                 *)

LEMMA AddedOK ==
  ASSUME JobsOK, NEW n \in Calls, job' = Added(n)
  PROVE  JobsOK'
  BY DEF JobsOK, Added, JobRecord

LEMMA StalledOK ==
  ASSUME JobsOK, NEW n \in Calls, job[n].st = "active", job' = Stalled(n)
  PROVE  JobsOK'
  BY DEF JobsOK, Stalled, JobRecord

LEMMA CompletesOK ==
  ASSUME JobsOK, NEW n \in Calls,
         job' = [job EXCEPT ![n].st = "done", ![n].owner = None]
  PROVE  JobsOK'
  BY DEF JobsOK, JobRecord

LEMMA FailsOK ==
  ASSUME JobsOK, NEW n \in Calls, job[n].owner # None,
         job' = [job EXCEPT ![n].st = IF job[n].tries > 1 THEN "waiting" ELSE "failed",
                            ![n].owner = None, ![n].tries = @ - 1]
  PROVE  JobsOK'
  BY DEF JobsOK, JobRecord

LEMMA EndsOK ==
  ASSUME RunsOK, NEW p \in Procs, Ends(p)
  PROVE  RunsOK' /\ run' \in [Procs -> RunRecord]
  BY DEF RunsOK, Ends, Idle, RunRecord

LEMMA FaultOK ==
  ASSUME faults \in 0..MaxFaults, NEW kind, Fault(kind)
  PROVE  faults' \in 0..MaxFaults
  BY DEF Fault

\* An execution that ends leaves what the others hold.
LEMMA EndsOnce ==
  ASSUME RunsOK, OnceInv, NEW p \in Procs, Ends(p), UNCHANGED <<row, told>>
  PROVE  OnceInv'
  BY DEF RunsOK, RunRecord, OnceInv, Holds, Ends, Idle

\* So does one that holds nothing after the step.
LEMMA EmptyOnce ==
  ASSUME RunsOK, OnceInv, NEW p \in Procs, NEW rec \in RunRecord, rec.got = {},
         run' = [run EXCEPT ![p] = rec], UNCHANGED <<row, told>>
  PROVE  OnceInv'
  BY DEF RunsOK, RunRecord, OnceInv, Holds

-----------------------------------------------------------------------------
LEMMA InitInv == Init => Inv
  <1> SUFFICES ASSUME Init PROVE Inv
    OBVIOUS
  <1>1. TypeOK
    BY DEF Init, TypeOK, JobRecord, NoJob, RunRecord, Idle
  <1>2. RunsOK
    BY DEF Init, RunsOK, RunRecord, Idle
  <1>3. OnceInv
    <2>1. 1 \in Calls
      OBVIOUS
    <2>2. ASSUME NEW r \in Recipients PROVE row[r] = 0 /\ told[1][r] = 0
      <3>1. told[1] = [s \in Recipients |-> 0]
        BY <2>1 DEF Init
      <3> QED
        BY <3>1 DEF Init
    <2>3. \A p \in Procs, r \in Recipients : ~Holds(p, r)
      BY DEF Init, Idle, Holds
    <2>4. ASSUME NEW r \in Recipients PROVE told[1][r] <= 1
      <3>1. told[1][r] = 0
        BY <2>2
      <3>2. 0 <= 1
        OBVIOUS
      <3> QED
        BY <3>1, <3>2, Zenon
    <2> QED
      BY <2>2, <2>3, <2>4, Zenon DEF OnceInv
  <1> QED
    BY <1>1, <1>2, <1>3 DEF Inv

-----------------------------------------------------------------------------
(* What each action keeps.                                                 *)

LEMMA AnnounceInv ==
  ASSUME Inv, NEW l \in Levels, NEW by \in Recipients \cup {None}, Announce(l, by)
  PROVE  Inv'
  <1> DEFINE n == made + 1
             rec == IF RecipientIds(l, by) = {} THEN Idle ELSE [pc |-> "add", call |-> n, got |-> {}]
  <1>1. n \in Calls /\ n \in Procs /\ RecipientIds(l, by) \subseteq Recipients
    BY DEF Announce, RecipientIds
  <1>2. /\ rec \in RunRecord /\ rec.got = {} /\ rec.pc \in {"idle", "add"}
        /\ rec.pc # "idle" => rec.call \in Calls
    BY <1>1 DEF RunRecord, Idle
  <1>3. run' = [run EXCEPT ![n] = rec]
    BY DEF Announce
  <1> HIDE DEF rec
  <1>4. RunsOK'
    BY <1>1, <1>2, <1>3 DEF Inv, RunsOK
  <1>5. JobsOK'
    BY DEF Inv, TypeOK, JobsOK, Announce
  <1>6. made' \in 0..MaxCalls /\ level' \in Levels /\ to' \in [Calls -> SUBSET Recipients]
    BY <1>1 DEF Inv, TypeOK, Announce
  <1>7. TypeOK'
    BY <1>4, <1>5, <1>6 DEF Inv, TypeOK, JobsOK, RunsOK, Announce
  <1>8. OnceInv'
    BY <1>1, <1>2, <1>3, EmptyOnce DEF Inv, Announce
  <1> QED
    BY <1>4, <1>7, <1>8 DEF Inv

LEMMA EnqueueStoresInv ==
  ASSUME Inv, NEW n \in Calls, EnqueueStores(n)
  PROVE  Inv'
  <1>1. JobsOK'
    BY AddedOK DEF Inv, TypeOK, JobsOK, EnqueueStores
  <1>2. RunsOK'
    BY EndsOK DEF Inv, EnqueueStores
  <1>3. OnceInv'
    BY EndsOnce DEF Inv, EnqueueStores
  <1> QED
    BY <1>1, <1>2, <1>3 DEF Inv, TypeOK, JobsOK, RunsOK, EnqueueStores

LEMMA EnqueueFailsInv ==
  ASSUME Inv, NEW n \in Calls, EnqueueFails(n)
  PROVE  Inv'
  <1>1. JobsOK' /\ late' \subseteq Calls
    BY AddedOK DEF Inv, TypeOK, JobsOK, EnqueueFails
  <1> DEFINE rec == [run[n] EXCEPT !.pc = "insert"]
  <1>2. rec \in RunRecord /\ rec.got = {} /\ rec.call \in Calls /\ rec.pc = "insert"
    BY DEF Inv, RunsOK, RunRecord, EnqueueFails
  <1>3. run' = [run EXCEPT ![n] = rec]
    BY DEF EnqueueFails, Goto
  <1> HIDE DEF rec
  <1>4. RunsOK'
    BY <1>2, <1>3 DEF Inv, RunsOK
  <1>5. OnceInv'
    BY <1>2, <1>3, EmptyOnce DEF Inv, EnqueueFails
  <1>6. faults' \in 0..MaxFaults
    BY FaultOK DEF Inv, TypeOK, EnqueueFails
  <1> QED
    BY <1>1, <1>4, <1>5, <1>6 DEF Inv, TypeOK, JobsOK, RunsOK, EnqueueFails

LEMMA EnqueueStoresLateInv ==
  ASSUME Inv, NEW n \in Calls, EnqueueStoresLate(n)
  PROVE  Inv'
  <1>1. JobsOK'
    BY AddedOK DEF Inv, TypeOK, JobsOK, EnqueueStoresLate
  <1>2. RunsOK'
    BY DEF Inv, RunsOK, EnqueueStoresLate
  <1>3. OnceInv'
    BY DEF Inv, OnceInv, Holds, EnqueueStoresLate
  <1> QED
    BY <1>1, <1>2, <1>3 DEF Inv, TypeOK, JobsOK, RunsOK, EnqueueStoresLate

LEMMA WorkerTakesInv ==
  ASSUME Inv, NEW w \in Workers, NEW n \in Calls, WorkerTakes(w, n)
  PROVE  Inv'
  <1>1. JobsOK'
    BY DEF Inv, TypeOK, JobsOK, JobRecord, WorkerTakes
  <1> DEFINE rec == [pc |-> "insert", call |-> n, got |-> {}]
  <1>2. rec \in RunRecord /\ rec.got = {} /\ rec.call \in Calls /\ rec.pc = "insert"
    BY DEF RunRecord
  <1>3. run' = [run EXCEPT ![w] = rec]
    BY DEF WorkerTakes
  <1> HIDE DEF rec
  <1>4. RunsOK'
    BY <1>2, <1>3 DEF Inv, RunsOK
  <1>5. OnceInv'
    BY <1>2, <1>3, EmptyOnce DEF Inv, WorkerTakes
  <1> QED
    BY <1>1, <1>4, <1>5 DEF Inv, TypeOK, JobsOK, RunsOK, WorkerTakes

LEMMA InsertsInv ==
  ASSUME Inv, NEW p \in Procs, Inserts(p)
  PROVE  Inv'
  <1> DEFINE n == run[p].call
             fresh == {r \in to[n] : row[r] = 0}
             rec == [pc |-> IF Replay(n) THEN "refresh" ELSE "tell", call |-> n, got |-> fresh]
  <1>1. n \in Calls /\ fresh \subseteq Recipients
    BY DEF Inv, RunsOK, TypeOK, Inserts
  <1>2. /\ rec \in RunRecord /\ rec.got = fresh /\ rec.call = n
        /\ rec.pc \in {"refresh", "tell"} /\ (rec.pc = "refresh" => n # 1)
    BY <1>1 DEF RunRecord, Replay
  <1>3. run' = [run EXCEPT ![p] = rec]
    BY DEF Inserts
  <1>4. row' = [r \in Recipients |-> IF r \in fresh THEN n ELSE row[r]] /\ UNCHANGED told
    BY DEF Inserts
  <1>5. \A r \in fresh : row[r] = 0
    OBVIOUS
  <1> HIDE DEF rec, fresh
  <1>6. RunsOK'
    BY <1>1, <1>2, <1>3 DEF Inv, RunsOK
  <1>7. row' \in [Recipients -> 0..MaxCalls]
    BY <1>1, <1>4 DEF Inv, TypeOK
  <1>8. JobsOK'
    BY DEF Inv, TypeOK, JobsOK, Inserts
  <1>9. TypeOK'
    BY <1>6, <1>7, <1>8 DEF Inv, TypeOK, JobsOK, RunsOK, Inserts
  <1>10. ASSUME NEW r \in Recipients, row'[r] = 0
         PROVE  row[r] = 0 /\ r \notin fresh
    BY <1>1, <1>4, <1>10
  <1>11. \A q \in Procs : run'[q] = IF q = p THEN rec ELSE run[q]
    BY <1>3 DEF Inv, RunsOK
  <1>12. OnceInv'
    BY <1>1, <1>2, <1>4, <1>5, <1>10, <1>11 DEF Inv, OnceInv, Holds
  <1> QED
    BY <1>6, <1>9, <1>12 DEF Inv

LEMMA RefreshesInv ==
  ASSUME Inv, NEW p \in Procs, Refreshes(p)
  PROVE  Inv'
  <1> DEFINE n == run[p].call
             rec == [pc |-> "tell", call |-> n, got |-> to[n]]
  <1>1. n \in Calls /\ n # 1 /\ to[n] \subseteq Recipients
    BY DEF Inv, RunsOK, TypeOK, Refreshes
  <1>2. rec \in RunRecord /\ rec.call = n /\ rec.pc = "tell"
    BY <1>1 DEF RunRecord
  <1>3. run' = [run EXCEPT ![p] = rec]
    BY DEF Refreshes
  <1>4. row' = [r \in Recipients |-> IF r \in to[n] \ run[p].got THEN n ELSE row[r]] /\ UNCHANGED told
    BY DEF Refreshes
  <1> HIDE DEF rec
  <1>5. RunsOK'
    BY <1>1, <1>2, <1>3 DEF Inv, RunsOK
  <1>6. row' \in [Recipients -> 0..MaxCalls]
    BY <1>1, <1>4 DEF Inv, TypeOK
  <1>7. JobsOK'
    BY DEF Inv, TypeOK, JobsOK, Refreshes
  <1>8. TypeOK'
    BY <1>5, <1>6, <1>7 DEF Inv, TypeOK, JobsOK, RunsOK, Refreshes
  <1>9. \A r \in Recipients : row'[r] = 0 => row[r] = 0
    BY <1>1, <1>4
  <1>10. \A q \in Procs : run'[q] = IF q = p THEN rec ELSE run[q]
    BY <1>3 DEF Inv, RunsOK
  <1>11. OnceInv'
    BY <1>1, <1>2, <1>4, <1>9, <1>10 DEF Inv, OnceInv, Holds
  <1> QED
    BY <1>5, <1>8, <1>11 DEF Inv

LEMMA TellsInv ==
  ASSUME Inv, NEW p \in Procs, Tells(p)
  PROVE  Inv'
  <1> DEFINE n == run[p].call
  <1>1. n \in Calls /\ 1 \in Calls
    BY DEF Inv, RunsOK, Tells
  <1>2. JobsOK'
    <2>1. JobsOK
      BY DEF Inv, TypeOK, JobsOK
    <2>2. CASE Owns(p)
      BY <1>1, <2>1, <2>2, CompletesOK DEF Tells
    <2>3. CASE ~Owns(p)
      BY <2>1, <2>3 DEF Tells, JobsOK
    <2> QED
      BY <2>2, <2>3
  <1>3. RunsOK' /\ run' \in [Procs -> RunRecord]
    BY EndsOK DEF Inv, Tells
  <1>4. told' \in [Calls -> [Recipients -> Nat]]
    BY <1>1 DEF Inv, TypeOK, Tells
  <1>5. TypeOK'
    BY <1>2, <1>3, <1>4 DEF Inv, TypeOK, JobsOK, Tells
  <1>6. ASSUME NEW r \in Recipients
        PROVE  told'[1][r] = IF Holds(p, r) THEN told[1][r] + 1 ELSE told[1][r]
    BY <1>1 DEF Inv, TypeOK, Tells, Holds
  <1>7. \A q \in Procs : run'[q] = IF q = p THEN Idle ELSE run[q]
    BY DEF Inv, RunsOK, Tells, Ends
  <1>8. \A r \in Recipients, q \in Procs : Holds(q, r)' => Holds(q, r) /\ q # p
    BY <1>7 DEF Holds, Idle
  <1>9. row' = row
    BY DEF Tells
  <1>10. \A r \in Recipients : told[1][r] \in Nat
    BY <1>1 DEF Inv, TypeOK
  <1>11. OnceInv'
    <2> SUFFICES ASSUME NEW r \in Recipients
                 PROVE  /\ row[r] = 0 => told'[1][r] = 0 /\ \A q \in Procs : ~Holds(q, r)'
                        /\ \A q \in Procs : Holds(q, r)' => told'[1][r] = 0
                        /\ \A q, s \in Procs : Holds(q, r)' /\ Holds(s, r)' => q = s
                        /\ told'[1][r] <= 1
      BY <1>9 DEF OnceInv
    <2>1. /\ row[r] = 0 => told[1][r] = 0 /\ \A q \in Procs : ~Holds(q, r)
          /\ \A q \in Procs : Holds(q, r) => told[1][r] = 0
          /\ \A q, s \in Procs : Holds(q, r) /\ Holds(s, r) => q = s
          /\ told[1][r] <= 1
      BY DEF Inv, OnceInv
    <2>2. told'[1][r] <= 1
      BY <1>6, <1>10, <2>1
    <2>3. row[r] = 0 => told'[1][r] = 0
      BY <1>6, <2>1
    <2>4. \A q \in Procs : Holds(q, r)' => told'[1][r] = 0
      BY <1>6, <1>8, <2>1
    <2> QED
      BY <1>8, <2>1, <2>2, <2>3, <2>4
  <1> QED
    BY <1>3, <1>5, <1>11 DEF Inv

LEMMA ThrowsInv ==
  ASSUME Inv, NEW p \in Procs, Throws(p)
  PROVE  Inv'
  <1> DEFINE n == run[p].call
  <1>1. n \in Calls
    BY DEF Inv, RunsOK, Throws
  <1>2. JobsOK'
    <2>1. JobsOK
      BY DEF Inv, TypeOK, JobsOK
    <2>2. CASE Owns(p)
      <3>1. job[n].owner # None
        BY <2>2 DEF Owns
      <3> QED
        BY <1>1, <2>1, <2>2, <3>1, FailsOK DEF Throws
    <2>3. CASE ~Owns(p)
      BY <2>1, <2>3 DEF Throws, JobsOK
    <2> QED
      BY <2>2, <2>3
  <1>3. RunsOK' /\ run' \in [Procs -> RunRecord]
    BY EndsOK DEF Inv, Throws
  <1>4. OnceInv'
    BY EndsOnce DEF Inv, Throws
  <1>5. faults' \in 0..MaxFaults
    BY FaultOK DEF Inv, TypeOK, Throws
  <1> QED
    BY <1>2, <1>3, <1>4, <1>5 DEF Inv, TypeOK, JobsOK, Throws

LEMMA JobStallsInv ==
  ASSUME Inv, NEW n \in Calls, JobStalls(n)
  PROVE  Inv'
  <1>1. JobsOK'
    BY StalledOK DEF Inv, TypeOK, JobsOK, JobStalls
  <1>2. RunsOK' /\ OnceInv'
    BY DEF Inv, RunsOK, OnceInv, Holds, JobStalls
  <1>3. faults' \in 0..MaxFaults
    BY FaultOK DEF Inv, TypeOK, JobStalls
  <1> QED
    BY <1>1, <1>2, <1>3 DEF Inv, TypeOK, JobsOK, JobStalls

LEMMA OrphanStallsInv ==
  ASSUME Inv, NEW n \in Calls, OrphanStalls(n)
  PROVE  Inv'
  <1>1. JobsOK'
    BY StalledOK DEF Inv, TypeOK, JobsOK, OrphanStalls
  <1>2. RunsOK' /\ OnceInv'
    BY DEF Inv, RunsOK, OnceInv, Holds, OrphanStalls
  <1> QED
    BY <1>1, <1>2 DEF Inv, TypeOK, JobsOK, OrphanStalls

LEMMA CrashInv ==
  ASSUME Inv, NEW p \in Procs, Crash(p)
  PROVE  Inv'
  <1>1. RunsOK' /\ run' \in [Procs -> RunRecord]
    BY EndsOK DEF Inv, Crash
  <1>2. OnceInv'
    BY EndsOnce DEF Inv, Crash
  <1>3. faults' \in 0..MaxFaults
    BY FaultOK DEF Inv, TypeOK, Crash
  <1>4. run[p].call \in Calls
    BY DEF Inv, RunsOK, Crash
  <1>5. cut' \subseteq Calls
    BY <1>4 DEF Inv, TypeOK, Crash
  <1>6. JobsOK'
    BY DEF Inv, TypeOK, JobsOK, Crash
  <1> QED
    BY <1>1, <1>2, <1>3, <1>5, <1>6 DEF Inv, TypeOK, JobsOK, Crash

-----------------------------------------------------------------------------
LEMMA NextInv == Inv /\ [Next]_vars => Inv'
  <1> SUFFICES ASSUME Inv, [Next]_vars PROVE Inv'
    OBVIOUS
  <1>1. CASE UNCHANGED vars
    <2>1. JobsOK'
      BY <1>1 DEF Inv, TypeOK, JobsOK, vars
    <2>2. RunsOK' /\ OnceInv'
      BY <1>1 DEF Inv, RunsOK, OnceInv, Holds, vars
    <2> QED
      BY <1>1, <2>1, <2>2 DEF Inv, TypeOK, JobsOK, vars
  <1>2. CASE Next
    <2>1. CASE \E l \in Levels, by \in Recipients \cup {None} : Announce(l, by)
      BY <2>1, AnnounceInv
    <2>2. ASSUME NEW n \in Calls,
                 \/ EnqueueStores(n) \/ EnqueueFails(n) \/ EnqueueStoresLate(n)
                 \/ JobStalls(n) \/ OrphanStalls(n)
          PROVE  Inv'
      BY <2>2, EnqueueStoresInv, EnqueueFailsInv, EnqueueStoresLateInv, JobStallsInv, OrphanStallsInv
    <2>3. CASE \E w \in Workers, n \in Calls : WorkerTakes(w, n)
      BY <2>3, WorkerTakesInv
    <2>4. ASSUME NEW p \in Procs, Deliver(p) \/ Throws(p) \/ Crash(p)
          PROVE  Inv'
      BY <2>4, InsertsInv, RefreshesInv, TellsInv, ThrowsInv, CrashInv DEF Deliver
    <2> QED
      BY <1>2, <2>1, <2>2, <2>3, <2>4, Zenon DEF Next
  <1> QED
    BY <1>1, <1>2

LEMMA SpecInv == Spec => []Inv
  BY InitInv, NextInv, PTL DEF Spec

-----------------------------------------------------------------------------
\* deliver: rows, jobs and executions are well-formed: a job that will run again
\* has an attempt left, and exactly the running jobs are locked.
THEOREM DispatchTypeCorrect == Spec => []TypeOK
  <1>1. Inv => TypeOK
    BY DEF Inv
  <1> QED
    BY <1>1, SpecInv, PTL

\* deliver, skipDuplicates: whatever jobs, retries, stalled executions, late
\* queue.add and fallback run, the first announcement mails each recipient once.
THEOREM FirstAnnouncementOnce == Spec => []AnnouncedOnce
  <1>1. Inv => AnnouncedOnce
    BY DEF Inv, OnceInv, AnnouncedOnce
  <1> QED
    BY <1>1, SpecInv, PTL
=============================================================================
