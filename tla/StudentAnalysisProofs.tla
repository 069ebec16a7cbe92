------------------------ MODULE StudentAnalysisProofs ------------------------
(***************************************************************************)
(* Proofs about StudentAnalysis for every number of requests, workers,     *)
(* versions, keys, retries and faults.                                     *)
(***************************************************************************)
EXTENDS StudentAnalysis, TLAPS

USE BoundsAssumption, DataAssumption DEF faultVars

-----------------------------------------------------------------------------
(* What the helpers keep.                                                  *)

LEMMA IdleOK == Idle \in ProcRecord
  BY DEF Idle, At, ProcRecord, Pcs, Contexts

LEMMA AtOK ==
  ASSUME NEW pc \in Pcs, NEW ctx \in Contexts, NEW v \in 0..MaxVersions
  PROVE  /\ At(pc, ctx, v) \in ProcRecord
         /\ At(pc, ctx, v).pc = pc /\ At(pc, ctx, v).ver = v
  BY DEF At, ProcRecord, Pcs, Contexts

LEMMA AtVersion ==
  ASSUME NEW pc \in Pcs, NEW ctx \in Contexts, NEW v \in Versions
  PROVE  /\ At(pc, ctx, v) \in ProcRecord
         /\ At(pc, ctx, v).pc = pc /\ At(pc, ctx, v).ver = v
  BY AtOK DEF Versions

LEMMA NoJobOK == NoJob \in JobRecord /\ FreshJob \in JobRecord
                 /\ NoJob.owner = None /\ FreshJob.owner = None
                 /\ FreshJob.tries = 0 /\ NoJob.st = "none"
  BY DEF NoJob, FreshJob, JobRecord

\* Replacing the record of one process by a well-formed one.
LEMMA EnterOK ==
  ASSUME ProcsOK, NEW p \in Procs, NEW rec \in ProcRecord, Enter(p, rec),
         rec.pc \notin {"idle", "record"} => rec.ver \in Versions,
         rec.pc \in {"commit", "notify", "finish"} => rec.lvl \in Levels,
         rec.pc = "record" => rec.key \in Keys /\ rec.hash \in Sources
  PROVE  ProcsOK'
  BY DEF ProcsOK, Enter

LEMMA LeaveOK ==
  ASSUME ProcsOK, NEW p \in Procs, Leave(p)
  PROVE  ProcsOK'
  BY IdleOK, EnterOK DEF Leave, Idle, At

LEMMA AddedOK ==
  ASSUME JobsOK, NEW j \in Jobs, job' = Added(j)
  PROVE  JobsOK'
  BY NoJobOK DEF JobsOK, Added

LEMMA ReturnOK ==
  ASSUME ProcsOK, JobsOK, NEW p \in Procs, proc[p].pc \notin {"idle", "record"}, Return(p)
  PROVE  ProcsOK' /\ JobsOK'
  <1>1. proc[p] \in ProcRecord /\ proc[p].ver \in Versions
    BY DEF ProcsOK
  <1>2. At("note", "none", proc[p].ver) \in ProcRecord /\ At("note", "none", proc[p].ver).pc = "note"
        /\ At("note", "none", proc[p].ver).ver = proc[p].ver
    BY <1>1, AtVersion DEF Pcs, Contexts
  <1>3. ProcsOK'
    <2>1. CASE proc[p].ctx = "send"
      BY <1>1, <1>2, <2>1, EnterOK DEF Return
    <2>2. CASE proc[p].ctx # "send"
      BY <2>2, LeaveOK DEF Return
    <2>3. QED BY <2>1, <2>2
  <1>4. JobsOK'
    <2>1. CASE proc[p].ctx = "job" /\ HoldsLock(p)
      <3>1. MyJob(p) \in Jobs
        BY <1>1, <2>1 DEF MyJob, HoldsLock, Jobs, ProcRecord
      <3>2. [job[MyJob(p)] EXCEPT !.st = "done", !.owner = None] \in JobRecord
        BY <3>1 DEF JobsOK, JobRecord
      <3>3. job' = [job EXCEPT ![MyJob(p)] = [job[MyJob(p)] EXCEPT !.st = "done", !.owner = None]]
        BY <2>1, <3>1 DEF Return, JobsOK
      <3>4. QED BY <3>1, <3>2, <3>3 DEF JobsOK, JobRecord
    <2>2. CASE ~(proc[p].ctx = "job" /\ HoldsLock(p))
      BY <2>2 DEF Return, JobsOK
    <2>3. QED BY <2>1, <2>2
  <1>5. QED BY <1>3, <1>4

LEMMA ThrowOK ==
  ASSUME ProcsOK, JobsOK, NEW p \in Procs, proc[p].pc \notin {"idle", "record"}, Throw(p)
  PROVE  ProcsOK' /\ JobsOK'
  <1>1. proc[p] \in ProcRecord /\ proc[p].ver \in Versions
    BY DEF ProcsOK
  <1>2. CASE proc[p].ctx = "job" /\ HoldsLock(p)
    <2> DEFINE j == MyJob(p)
               tries == job[j].tries + 1
    <2>1. j \in Jobs /\ proc[p].kind \in JobKinds
      BY <1>1, <1>2 DEF MyJob, HoldsLock, Jobs, ProcRecord
    <2>2. job[j] \in JobRecord /\ job[j].st = "active" /\ job[j].tries < Attempts
      <3>1. job[j].owner = p /\ p # None
        BY <1>2 DEF HoldsLock, Procs
      <3>2. QED BY <2>1, <3>1 DEF JobsOK
    <2>3. tries \in 0..Attempts
      BY <2>2 DEF JobRecord
    <2> HIDE DEF j
    <2>4. CASE tries < Attempts
      <3>1. job' = [job EXCEPT ![j] = [job[j] EXCEPT !.st = "waiting", !.tries = tries, !.owner = None]]
            /\ Leave(p)
        BY <1>2, <2>1, <2>4 DEF Throw, JobsOK, j
      <3>2. [job[j] EXCEPT !.st = "waiting", !.tries = tries, !.owner = None] \in JobRecord
        BY <2>2, <2>3 DEF JobRecord
      <3>3. QED BY <2>1, <2>2, <2>4, <3>1, <3>2, LeaveOK DEF JobsOK, JobRecord
    <2>5. CASE ~(tries < Attempts)
      <3> DEFINE rec == [At("failed", "recovery", proc[p].ver) EXCEPT !.kind = proc[p].kind]
      <3>1. job' = [job EXCEPT ![j] = [job[j] EXCEPT !.st = "failed", !.tries = tries, !.owner = None]]
            /\ Enter(p, rec)
        BY <1>2, <2>1, <2>5 DEF Throw, JobsOK, j
      <3>2. [job[j] EXCEPT !.st = "failed", !.tries = tries, !.owner = None] \in JobRecord
        BY <2>2, <2>3 DEF JobRecord
      <3>3. rec \in ProcRecord /\ rec.pc = "failed" /\ rec.ver \in Versions
        BY <1>1, <2>1 DEF At, ProcRecord, Pcs, Contexts, Versions
      <3>4. ProcsOK'
        BY <3>1, <3>3, EnterOK
      <3>5. JobsOK'
        BY <2>1, <2>2, <3>1, <3>2 DEF JobsOK, JobRecord
      <3>6. QED BY <3>4, <3>5
    <2>6. QED BY <2>4, <2>5
  <1>3. CASE ~(proc[p].ctx = "job" /\ HoldsLock(p)) /\ proc[p].ctx = "recovery"
    <2>1. UNCHANGED job /\ Enter(p, At("requeue", "recovery", proc[p].ver))
      BY <1>3 DEF Throw
    <2>2. ProcsOK'
      BY <1>1, <2>1, AtVersion, EnterOK DEF Pcs, Contexts
    <2>3. QED BY <2>1, <2>2 DEF JobsOK
  <1>4. CASE ~(proc[p].ctx = "job" /\ HoldsLock(p)) /\ proc[p].ctx # "recovery"
    <2>1. UNCHANGED job /\ Leave(p)
      BY <1>4 DEF Throw
    <2>2. QED BY <2>1, LeaveOK DEF JobsOK
  <1>5. QED BY <1>2, <1>3, <1>4

-----------------------------------------------------------------------------
(* Type correctness.                                                       *)

LEMMA InitTypeOK == Init => TypeOK
  <1> SUFFICES ASSUME Init PROVE TypeOK
    OBVIOUS
  <1>1. VersionsOK
    BY DEF Init, VersionsOK, Versions
  <1>2. JobsOK
    BY NoJobOK DEF Init, JobsOK
  <1>3. ProcsOK
    BY IdleOK DEF Init, ProcsOK, Idle, At
  <1>4. QED BY <1>1, <1>2, <1>3 DEF TypeOK

LEMMA StepTypeOK ==
  ASSUME TypeOK, NEW p \in Procs, Step(p) \/ Throws(p)
  PROVE  TypeOK'
  <1> USE DEF TypeOK
  <1>1. proc[p] \in ProcRecord
        /\ (proc[p].pc \notin {"idle", "record"} => proc[p].ver \in Versions)
    BY DEF ProcsOK
  <1>2. CASE GenerationStarts(p)
    <2> DEFINE v == proc[p].ver
    <2>1. v \in Versions
      BY <1>1, <1>2 DEF GenerationStarts
    <2>2. VersionsOK'
      BY <1>2, <2>1 DEF GenerationStarts, VersionsOK, Statuses, Active
    <2>3. ProcsOK' /\ JobsOK'
      <3>1. CASE status[v] \in {"QUEUED", "GENERATING"}
        <4>1. [proc[p] EXCEPT !.pc = "ai"] \in ProcRecord
          BY <1>1 DEF ProcRecord, Pcs
        <4>2. QED BY <1>1, <1>2, <2>1, <3>1, <4>1, EnterOK DEF GenerationStarts, ProcRecord, JobsOK
      <3>2. CASE status[v] \notin {"QUEUED", "GENERATING"}
        BY <1>2, <3>2, ReturnOK DEF GenerationStarts
      <3>3. QED BY <3>1, <3>2
    <2>4. QED BY <2>2, <2>3
  <1>3. CASE \E o \in AiOutputs : GenerationEnds(p, o)
    <2>1. PICK o \in AiOutputs : GenerationEnds(p, o)
      BY <1>3
    <2>2. VersionsOK'
      BY <1>1, <2>1 DEF GenerationEnds, VersionsOK, Statuses, Active, Outputs
    <2>3. ProcsOK' /\ JobsOK'
      BY <2>1, ReturnOK DEF GenerationEnds
    <2>4. QED BY <2>2, <2>3
  <1>4. CASE DeliveryReads(p)
    <2> DEFINE v == proc[p].ver
    <2>1. v \in Versions
      BY <1>1, <1>4 DEF DeliveryReads
    <2>2. VersionsOK'
      BY <1>4 DEF DeliveryReads, versionVars, VersionsOK
    <2>3. ProcsOK' /\ JobsOK'
      <3>1. CASE status[v] = "SEND_QUEUED"
        <4> DEFINE rec == [proc[p] EXCEPT !.pc = "notify", !.epoch = epoch[v], !.lvl = alert[v]]
        <4>1. alert[v] \in Levels /\ epoch[v] \in 0..MaxSends
          BY <2>1, <3>1 DEF VersionsOK
        <4>2. rec \in ProcRecord /\ rec.pc = "notify" /\ rec.ver = v /\ rec.lvl = alert[v]
          BY <1>1, <4>1 DEF ProcRecord, Pcs
        <4>3. Enter(p, rec) /\ UNCHANGED job
          BY <1>4, <3>1 DEF DeliveryReads
        <4> HIDE DEF rec
        <4>4. QED BY <2>1, <4>1, <4>2, <4>3, EnterOK DEF JobsOK
      <3>2. CASE status[v] # "SEND_QUEUED"
        BY <1>4, <3>2, ReturnOK DEF DeliveryReads
      <3>3. QED BY <3>1, <3>2
    <2>4. QED BY <2>2, <2>3
  <1>5. CASE DeliveryNotifies(p)
    <2>1. proc[p].ver \in Versions /\ proc[p].lvl \in Levels
      BY <1>1, <1>5 DEF DeliveryNotifies, ProcsOK
    <2>2. Matrix[proc[p].lvl] \subseteq Staff
      BY <2>1 DEF Staff
    <2>3. VersionsOK'
      BY <1>5, <2>1, <2>2 DEF DeliveryNotifies, versionVars, VersionsOK
    <2>4. [proc[p] EXCEPT !.pc = "finish"] \in ProcRecord
      BY <1>1 DEF ProcRecord, Pcs
    <2>5. ProcsOK' /\ JobsOK'
      BY <1>1, <1>5, <2>1, <2>4, EnterOK DEF DeliveryNotifies, ProcRecord, JobsOK
    <2>6. QED BY <2>3, <2>5
  <1>6. CASE DeliveryFinishes(p)
    <2>1. VersionsOK'
      BY <1>1, <1>6 DEF DeliveryFinishes, VersionsOK, Statuses
    <2>2. ProcsOK' /\ JobsOK'
      BY <1>6, ReturnOK, ThrowOK DEF DeliveryFinishes
    <2>3. QED BY <2>1, <2>2
  <1>7. CASE Throws(p)
    <2>1. VersionsOK'
      BY <1>7 DEF Throws, Fault, versionVars, VersionsOK
    <2>2. ProcsOK' /\ JobsOK'
      BY <1>7, ThrowOK DEF Throws
    <2>3. QED BY <2>1, <2>2
  <1>8. QED
    BY <1>2, <1>3, <1>4, <1>5, <1>6, <1>7 DEF Step

LEMMA ArrivesTypeOK ==
  ASSUME TypeOK, NEW r \in Requests, Arrives(r)
  PROVE  TypeOK'
  <1> USE DEF TypeOK
  <1>1. r \in Procs
    BY DEF Procs
  <1>2. VersionsOK' /\ JobsOK'
    BY DEF Arrives, RepeatCreate, BeginCreate, BeginUpdate, BeginDismiss, BeginSend, versionVars,
           VersionsOK, JobsOK
  <1>3. ProcsOK'
    <2>1. CASE \E k \in Keys : RepeatCreate(r, k)
      <3>1. PICK v \in Versions : Enter(r, At("enqueue", "manual", v))
        BY <2>1 DEF RepeatCreate, SameKey, VersionsOK, Versions
      <3>2. QED BY <1>1, <3>1, AtVersion, EnterOK DEF Pcs, Contexts
    <2>2. CASE \E k \in Keys, mode \in {"manual", "auto"} : BeginCreate(r, k, mode)
      <3>1. PICK k \in Keys, mode \in {"manual", "auto"} : BeginCreate(r, k, mode)
        BY <2>2
      <3> DEFINE rec == [At("record", mode, 0) EXCEPT !.key = k, !.hash = source]
      <3>2. At("record", mode, 0) \in ProcRecord /\ At("record", mode, 0).pc = "record"
        BY AtOK, 0 \in 0..MaxVersions DEF Pcs, Contexts
      <3>3. rec \in ProcRecord /\ rec.pc = "record" /\ rec.key = k /\ rec.hash = source
        BY <3>2 DEF ProcRecord, VersionsOK
      <3> HIDE DEF rec
      <3>4. Enter(r, rec)
        BY <3>1 DEF BeginCreate, rec
      <3>5. QED BY <1>1, <3>3, <3>4, EnterOK DEF VersionsOK
    <2>3. CASE \E v \in Versions, o \in Edits : BeginUpdate(r, v, o)
      <3>1. PICK v \in Versions, o \in Edits : BeginUpdate(r, v, o)
        BY <2>3
      <3> DEFINE rec == [At("apply", "none", v) EXCEPT !.out = o]
      <3>2. rec \in ProcRecord /\ rec.pc = "apply" /\ rec.ver = v
        BY DEF At, ProcRecord, Pcs, Contexts, Versions, Outputs
      <3>3. QED BY <1>1, <3>1, <3>2, EnterOK DEF BeginUpdate
    <2>4. CASE \E v \in Versions : BeginDismiss(r, v)
      <3>1. PICK v \in Versions : BeginDismiss(r, v)
        BY <2>4
      <3>2. QED BY <1>1, <3>1, AtVersion, EnterOK DEF BeginDismiss, Pcs, Contexts
    <2>5. CASE \E v \in Versions, l \in Levels : BeginSend(r, v, l)
      <3>1. PICK v \in Versions, l \in Levels : BeginSend(r, v, l)
        BY <2>5
      <3> DEFINE rec == [At("commit", "none", v) EXCEPT !.lvl = l]
      <3>2. rec \in ProcRecord /\ rec.pc = "commit" /\ rec.ver = v /\ rec.lvl = l
        BY DEF At, ProcRecord, Pcs, Contexts, Versions
      <3>3. QED BY <1>1, <3>1, <3>2, EnterOK DEF BeginSend
    <2>6. QED BY <2>1, <2>2, <2>3, <2>4, <2>5 DEF Arrives
  <1>4. QED BY <1>2, <1>3

LEMMA RequestTypeOK ==
  ASSUME TypeOK, NEW r \in Requests, RequestStep(r) \/ EnqueueFails(r) \/ PushFails(r)
  PROVE  TypeOK'
  <1> USE DEF TypeOK
  <1>1. r \in Procs /\ proc[r] \in ProcRecord
        /\ (proc[r].pc \notin {"idle", "record"} => proc[r].ver \in Versions)
    BY DEF Procs, ProcsOK
  <1>2. CASE RecordVersion(r)
    <2>1. latest + 1 \in Versions /\ proc[r].key \in Keys /\ proc[r].hash \in Sources
      BY <1>1, <1>2 DEF RecordVersion, VersionsOK, Versions, ProcsOK
    <2>2. VersionsOK'
      BY <1>2, <2>1 DEF RecordVersion, VersionsOK, Versions, Statuses, Active
    <2>3. ProcsOK'
      <3>1. Enter(r, At("enqueue", proc[r].ctx, latest + 1))
        BY <1>2 DEF RecordVersion
      <3>2. proc[r].ctx \in Contexts /\ "enqueue" \in Pcs
        BY <1>1 DEF ProcRecord, Pcs
      <3>3. QED BY <1>1, <2>1, <3>1, <3>2, AtVersion, EnterOK
    <2>4. QED BY <1>2, <2>2, <2>3 DEF RecordVersion, JobsOK
  <1>3. CASE RecordExists(r)
    <2>1. PICK v \in Versions : Enter(r, At("enqueue", proc[r].ctx, v)) \/ Leave(r)
      BY <1>3 DEF RecordExists, SameKey, VersionsOK, Versions
    <2>2. ProcsOK'
      <3>1. proc[r].ctx \in Contexts /\ "enqueue" \in Pcs
        BY <1>1 DEF ProcRecord, Pcs
      <3>2. QED BY <1>1, <2>1, <3>1, AtVersion, EnterOK, LeaveOK
    <2>3. QED BY <1>3, <2>2 DEF RecordExists, versionVars, VersionsOK, JobsOK
  <1>4. CASE RecordRefused(r) \/ CommitRefused(r)
    BY <1>1, <1>4, LeaveOK DEF RecordRefused, CommitRefused, versionVars, VersionsOK, JobsOK
  <1>5. CASE EnqueueGenerate(r)
    <2>1. <<"generate", proc[r].ver>> \in Jobs
      BY <1>1, <1>5 DEF EnqueueGenerate, Jobs, JobKinds
    <2>2. QED
      BY <1>1, <1>5, <2>1, AddedOK, LeaveOK DEF EnqueueGenerate, versionVars, VersionsOK
  <1>6. CASE ApplyUpdate(r)
    <2>1. ProcsOK'
      BY <1>1, <1>6, LeaveOK DEF ApplyUpdate
    <2>2. QED
      BY <1>1, <1>6, <2>1 DEF ApplyUpdate, VersionsOK, JobsOK, ProcRecord
  <1>7. CASE ApplyDismiss(r)
    <2>1. ProcsOK'
      BY <1>1, <1>7, LeaveOK DEF ApplyDismiss
    <2>2. needs' \in [Versions -> BOOLEAN]
      BY <1>7 DEF ApplyDismiss, VersionsOK
    <2>3. QED
      BY <1>7, <2>1, <2>2 DEF ApplyDismiss, VersionsOK, JobsOK
  <1>8. CASE CommitSend(r)
    <2>1. proc[r].ver \in Versions /\ proc[r].lvl \in Levels
      BY <1>1, <1>8 DEF CommitSend, ProcsOK
    <2>2. VersionsOK'
      BY <1>8, <2>1 DEF CommitSend, VersionsOK, Statuses, Active
    <2>3. ProcsOK'
      BY <1>1, <1>8, <2>1, AtVersion, EnterOK DEF CommitSend, Pcs, Contexts
    <2>4. QED BY <1>8, <2>2, <2>3 DEF CommitSend, JobsOK
  <1>9. CASE PushDelivery(r)
    <2>1. <<"deliver", proc[r].ver>> \in Jobs
      BY <1>1, <1>9 DEF PushDelivery, Jobs, JobKinds
    <2>2. ProcsOK'
      BY <1>1, <1>9, AtVersion, EnterOK DEF PushDelivery, Pcs, Contexts
    <2>3. QED
      BY <1>9, <2>1, <2>2, AddedOK DEF PushDelivery, versionVars, VersionsOK
  <1>10. CASE NoteSent(r)
    <2>1. ProcsOK'
      BY <1>1, <1>10, LeaveOK DEF NoteSent
    <2>2. QED
      BY <1>10, <2>1 DEF NoteSent, VersionsOK, JobsOK
  <1>11. CASE EnqueueFails(r)
    <2>1. <<"generate", proc[r].ver>> \in Jobs
      BY <1>1, <1>11 DEF EnqueueFails, Jobs, JobKinds
    <2>2. JobsOK'
      BY <1>11, <2>1, AddedOK DEF EnqueueFails, JobsOK
    <2>3. ProcsOK'
      BY <1>1, <1>11, AtVersion, EnterOK, LeaveOK DEF EnqueueFails, Pcs, Contexts
    <2>4. QED
      BY <1>11, <2>2, <2>3 DEF EnqueueFails, Fault, versionVars, VersionsOK
  <1>12. CASE PushFails(r)
    <2>1. <<"deliver", proc[r].ver>> \in Jobs
      BY <1>1, <1>12 DEF PushFails, Jobs, JobKinds
    <2>2. JobsOK'
      BY <1>12, <2>1, AddedOK DEF PushFails, JobsOK
    <2>3. ProcsOK'
      BY <1>1, <1>12, AtVersion, EnterOK DEF PushFails, Pcs, Contexts
    <2>4. QED
      BY <1>12, <2>2, <2>3 DEF PushFails, Fault, versionVars, VersionsOK
  <1>13. QED
    BY <1>2, <1>3, <1>4, <1>5, <1>6, <1>7, <1>8, <1>9, <1>10, <1>11, <1>12 DEF RequestStep

LEMMA WorkerTypeOK ==
  ASSUME TypeOK, NEW w \in Workers, WorkerStep(w)
  PROVE  TypeOK'
  <1> USE DEF TypeOK
  <1>1. w \in Procs /\ w # None /\ proc[w] \in ProcRecord
        /\ (proc[w].pc \notin {"idle", "record"} => proc[w].ver \in Versions)
    BY DEF Procs, ProcsOK
  <1>2. CASE GenerationFailed(w)
    BY <1>1, <1>2, LeaveOK DEF GenerationFailed, VersionsOK, JobsOK, Statuses
  <1>3. CASE DeliveryFailed(w)
    <2>1. PICK pc \in {"read", "undo"} : Enter(w, At(pc, "recovery", proc[w].ver))
      BY <1>3 DEF DeliveryFailed
    <2>2. proc[w].ver \in Versions /\ pc \in Pcs /\ "recovery" \in Contexts
      BY <1>1, <1>3 DEF DeliveryFailed, Pcs, Contexts
    <2>3. ProcsOK'
      BY <1>1, <2>1, <2>2, AtVersion, EnterOK
    <2>4. QED BY <1>3, <2>3 DEF DeliveryFailed, versionVars, VersionsOK, JobsOK
  <1>4. CASE DeliveryUndone(w)
    BY <1>1, <1>4, LeaveOK DEF DeliveryUndone, VersionsOK, JobsOK, Statuses
  <1>5. CASE \E j \in Jobs : WorkerTakes(w, j)
    <2>1. PICK j \in Jobs : WorkerTakes(w, j)
      BY <1>5
    <2>2. j[1] \in JobKinds /\ j[2] \in Versions
      BY DEF Jobs
    <2> DEFINE rec == [At(IF j[1] = "generate" THEN "gen" ELSE "read", "job", j[2]) EXCEPT !.kind = j[1]]
    <2>3. rec \in ProcRecord /\ rec.pc \in {"gen", "read"} /\ rec.ver = j[2]
      BY <2>2 DEF At, ProcRecord, Pcs, Contexts, Versions
    <2>4. ProcsOK'
      BY <1>1, <2>1, <2>2, <2>3, EnterOK DEF WorkerTakes
    <2>5. JobsOK'
      <3>1. job' = [job EXCEPT ![j] = [job[j] EXCEPT !.st = "active", !.owner = w]]
            /\ job[j].tries < Attempts
        BY <2>1 DEF WorkerTakes, JobsOK
      <3>2. [job[j] EXCEPT !.st = "active", !.owner = w] \in JobRecord
        BY DEF JobsOK, JobRecord
      <3>3. QED BY <3>1, <3>2 DEF JobsOK, JobRecord
    <2>6. QED BY <2>1, <2>4, <2>5 DEF WorkerTakes, versionVars, VersionsOK
  <1>6. CASE RequeueDelivery(w)
    <2>1. <<"reconcile", proc[w].ver>> \in Jobs
      BY <1>1, <1>6 DEF RequeueDelivery, Jobs, JobKinds
    <2>2. QED
      BY <1>1, <1>6, <2>1, AddedOK, LeaveOK DEF RequeueDelivery, versionVars, VersionsOK
  <1>7. QED BY <1>2, <1>3, <1>4, <1>5, <1>6 DEF WorkerStep

\* When the API dies, processes become idle and nothing else that counts happens.
Idled(out) == proc' = [p \in Procs |-> IF p \in out THEN Idle ELSE proc[p]]

LEMMA DyingIdles ==
  ASSUME NEW gone \in SUBSET Mortal, Dying(gone)
  PROVE  /\ UNCHANGED <<source, versionVars, notified>>
         /\ \E out \in SUBSET Procs : Idled(out)
  <1>1. CASE Crash(gone)
    BY <1>1 DEF Crash, Dies, Mortal, Idled
  <1>2. CASE \E w \in Workers : RequeueFails(w, gone) \/ HandlerThrows(w, gone)
    <2>1. PICK w \in Workers : RequeueFails(w, gone) \/ HandlerThrows(w, gone)
      BY <1>2
    <2>2. gone \cup {w} \in SUBSET Procs
      BY DEF Mortal, Procs
    <2>3. UNCHANGED <<source, versionVars, notified>> /\ Dies(gone \cup {w})
      BY <2>1 DEF RequeueFails, HandlerThrows
    <2>4. Idled(gone \cup {w})
      BY <2>3 DEF Dies, Idled
    <2>5. QED BY <2>2, <2>3, <2>4
  <1>3. QED BY <1>1, <1>2 DEF Dying

LEMMA DyingTypeOK ==
  ASSUME TypeOK, NEW gone \in SUBSET Mortal, Dying(gone)
  PROVE  TypeOK'
  <1>1. ProcsOK'
    BY DyingIdles, IdleOK DEF TypeOK, ProcsOK, Idled, Idle, At
  <1>2. UNCHANGED job \/ \E w \in Workers : proc[w].pc = "requeue" /\ job' = Added(<<"reconcile", proc[w].ver>>)
    BY DEF Dying, Crash, RequeueFails, HandlerThrows
  <1>3. JobsOK'
    <2>1. CASE UNCHANGED job
      BY <2>1 DEF TypeOK, JobsOK
    <2>2. CASE ~UNCHANGED job
      <3>1. PICK w \in Workers : proc[w].pc = "requeue" /\ job' = Added(<<"reconcile", proc[w].ver>>)
        BY <1>2, <2>2
      <3>2. <<"reconcile", proc[w].ver>> \in Jobs
        BY <3>1 DEF TypeOK, ProcsOK, Procs, Jobs, JobKinds
      <3>3. QED BY <3>1, <3>2, AddedOK DEF TypeOK
    <2>3. QED BY <2>1, <2>2
  <1>4. faults' \in 0..MaxFaults /\ dropped' \subseteq Versions
    <2>1. faults \in 0..MaxFaults /\ dropped \subseteq Versions
      BY DEF TypeOK, VersionsOK
    <2>2. (\E kind \in Disturbances : Fault(kind)) /\ \E out : Dies(out)
      BY DEF Dying, Crash, RequeueFails, HandlerThrows, Fault
    <2>3. faults < MaxFaults /\ faults' = faults + 1
      BY <2>2 DEF Fault
    <2>4. dropped' \subseteq Versions
      BY <2>1, <2>2 DEF Dies
    <2>5. QED BY <2>1, <2>3, <2>4
  <1>5. VersionsOK'
    BY DyingIdles, <1>4 DEF TypeOK, VersionsOK, versionVars
  <1>6. QED BY <1>1, <1>3, <1>5 DEF TypeOK

LEMMA JobTypeOK ==
  ASSUME TypeOK, NEW j \in Jobs, JobStalls(j) \/ JobEvicted(j)
  PROVE  TypeOK'
  <1> USE DEF TypeOK
  <1>1. VersionsOK' /\ ProcsOK'
    BY DEF JobStalls, JobEvicted, Fault, versionVars, VersionsOK, ProcsOK
  <1>2. JobsOK'
    <2>1. CASE JobStalls(j)
      <3>1. job[j] \in JobRecord /\ job[j].tries < Attempts
        BY <2>1 DEF JobStalls, JobsOK
      <3>2. PICK rec \in JobRecord : /\ job' = [job EXCEPT ![j] = rec]
                                     /\ rec.owner = None /\ rec.tries = job[j].tries
        <4>1. CASE job[j].stalls < StallLimit
          <5> DEFINE rec == [job[j] EXCEPT !.st = "waiting", !.stalls = job[j].stalls + 1, !.owner = None]
          <5>0. job[j].stalls + 1 \in 0..StallLimit
            BY <3>1, <4>1 DEF JobRecord
          <5>1. rec \in JobRecord /\ rec.owner = None /\ rec.tries = job[j].tries
            BY <3>1, <5>0 DEF JobRecord
          <5>2. job' = [job EXCEPT ![j] = rec]
            BY <2>1, <4>1 DEF JobStalls, JobsOK
          <5>3. QED BY <5>1, <5>2
        <4>2. CASE ~(job[j].stalls < StallLimit)
          <5> DEFINE rec == [job[j] EXCEPT !.st = "failed", !.owner = None]
          <5>1. rec \in JobRecord /\ rec.owner = None /\ rec.tries = job[j].tries
            BY <3>1 DEF JobRecord
          <5>2. job' = [job EXCEPT ![j] = rec]
            BY <2>1, <4>2 DEF JobStalls, JobsOK
          <5>3. QED BY <5>1, <5>2
        <4>3. QED BY <4>1, <4>2
      <3>3. QED BY <3>1, <3>2 DEF JobsOK
    <2>2. CASE JobEvicted(j)
      BY <2>2, NoJobOK DEF JobEvicted, JobsOK
    <2>3. QED BY <2>1, <2>2
  <1>3. QED BY <1>1, <1>2

\* No interleaving of requests, workers, retries and faults leaves a version, a
\* job or a process in a shape the code does not know.
THEOREM TypeCorrect == Spec => []TypeOK
  <1>1. TypeOK /\ [Next]_vars => TypeOK'
    <2> SUFFICES ASSUME TypeOK, [Next]_vars PROVE TypeOK'
      OBVIOUS
    <2>1. CASE SourceChanges
      BY <2>1 DEF SourceChanges, TypeOK, versionVars, VersionsOK, JobsOK, ProcsOK
    <2>2. CASE UNCHANGED vars
      BY <2>2 DEF vars, TypeOK, versionVars, VersionsOK, JobsOK, ProcsOK
    <2>3. QED
      BY <2>1, <2>2, StepTypeOK, ArrivesTypeOK, RequestTypeOK, WorkerTypeOK, DyingTypeOK, JobTypeOK DEF Next
  <1>2. QED BY InitTypeOK, <1>1, PTL DEF Spec

-----------------------------------------------------------------------------
(* The history of the versions.                                            *)

Numbered == \A v \in Versions : status[v] = "NONE" <=> v > latest

\* Stronger than ResendNeedsNewSource: whatever becomes of the newer version.
NewerDiffers == \A v \in 1..(latest - 1) : status[v] = "SENT" => hash[v] # hash[v + 1]

HistoryInv == Numbered /\ OnlyNewestUnfinished /\ OneVersionPerKey /\ NewerDiffers

\* All a step other than RecordVersion can do to the versions' history.
Move(v, s) == /\ status[v] \in Unfinished /\ s \in Statuses
              /\ status' = [status EXCEPT ![v] = s]
History == <<latest, key, hash>>

LEMMA StatusMoves ==
  ASSUME TypeOK, Next, \A r \in Requests : ~RecordVersion(r)
  PROVE  UNCHANGED History /\ (UNCHANGED status \/ \E v \in Versions, s \in Statuses : Move(v, s))
  <1> USE DEF History, versionVars, Active, Unfinished, Statuses
  <1>1. \A p \in Procs : proc[p].pc \notin {"idle", "record"} => proc[p].ver \in Versions
    BY DEF TypeOK, ProcsOK
  <1>2. ASSUME NEW p \in Procs, Step(p) \/ Throws(p)
        PROVE  UNCHANGED History /\ (UNCHANGED status \/ \E v \in Versions, s \in Statuses : Move(v, s))
    <2>1. CASE GenerationStarts(p)
      BY <1>1, <2>1 DEF GenerationStarts, Move
    <2>2. CASE \E o \in AiOutputs : GenerationEnds(p, o)
      BY <1>1, <2>2 DEF GenerationEnds, Move
    <2>3. CASE DeliveryReads(p) \/ DeliveryNotifies(p) \/ Throws(p)
      BY <2>3 DEF DeliveryReads, DeliveryNotifies, Throws
    <2>4. CASE DeliveryFinishes(p)
      BY <1>1, <2>4 DEF DeliveryFinishes, Move
    <2>5. QED BY <1>2, <2>1, <2>2, <2>3, <2>4 DEF Step
  <1>3. ASSUME NEW r \in Requests, Arrives(r) \/ RequestStep(r) \/ EnqueueFails(r) \/ PushFails(r)
        PROVE  UNCHANGED History /\ (UNCHANGED status \/ \E v \in Versions, s \in Statuses : Move(v, s))
    <2>1. r \in Procs
      BY DEF Procs
    <2>2. CASE Arrives(r)
      BY <2>2 DEF Arrives, RepeatCreate, BeginCreate, BeginUpdate, BeginDismiss, BeginSend
    <2>3. CASE CommitSend(r)
      BY <1>1, <2>1, <2>3 DEF CommitSend, MayCommit, Move
    <2>4. CASE RequestStep(r) /\ ~CommitSend(r)
      BY <2>4 DEF RequestStep, RecordExists, RecordRefused, EnqueueGenerate, ApplyUpdate, ApplyDismiss,
                  CommitRefused, PushDelivery, NoteSent
    <2>5. CASE EnqueueFails(r) \/ PushFails(r)
      BY <2>5 DEF EnqueueFails, PushFails
    <2>6. QED BY <1>3, <2>2, <2>3, <2>4, <2>5
  <1>4. ASSUME NEW w \in Workers, WorkerStep(w)
        PROVE  UNCHANGED History /\ (UNCHANGED status \/ \E v \in Versions, s \in Statuses : Move(v, s))
    <2>1. w \in Procs
      BY DEF Procs
    <2>2. CASE GenerationFailed(w) \/ DeliveryUndone(w)
      BY <1>1, <2>1, <2>2 DEF GenerationFailed, DeliveryUndone, Move
    <2>3. CASE DeliveryFailed(w) \/ RequeueDelivery(w) \/ \E j \in Jobs : WorkerTakes(w, j)
      BY <2>3 DEF DeliveryFailed, RequeueDelivery, WorkerTakes
    <2>4. QED BY <1>4, <2>2, <2>3 DEF WorkerStep
  <1>5. CASE \/ SourceChanges
             \/ \E j \in Jobs : JobStalls(j) \/ JobEvicted(j)
             \/ \E gone \in SUBSET Mortal : Dying(gone)
    BY <1>5, DyingIdles DEF SourceChanges, JobStalls, JobEvicted
  <1>6. QED BY <1>2, <1>3, <1>4, <1>5 DEF Next

LEMMA HistoryStep ==
  ASSUME TypeOK, HistoryInv, [Next]_vars
  PROVE  HistoryInv'
  <1>1. latest \in 0..MaxVersions /\ status \in [Versions -> Statuses \cup {"NONE"}]
        /\ key \in [Versions -> Keys \cup {None}] /\ hash \in [Versions -> Sources \cup {None}]
    BY DEF TypeOK, VersionsOK
  <1>2. ASSUME UNCHANGED History, UNCHANGED status
        PROVE  HistoryInv'
    BY <1>2 DEF History, HistoryInv, Numbered, OnlyNewestUnfinished, OneVersionPerKey, NewerDiffers
  <1>3. ASSUME NEW v \in Versions, NEW s \in Statuses, UNCHANGED History, Move(v, s)
        PROVE  HistoryInv'
    <2>1. v = latest
      BY <1>3 DEF Move, HistoryInv, OnlyNewestUnfinished
    <2>2. \A u \in Versions : status'[u] = IF u = v THEN s ELSE status[u]
      BY <1>1, <1>3 DEF Move
    <2>3. Numbered' /\ OnlyNewestUnfinished'
      BY <1>1, <1>3, <2>1, <2>2 DEF History, HistoryInv, Numbered, OnlyNewestUnfinished, Versions, Statuses, Active
    <2>4. OneVersionPerKey'
      BY <1>3 DEF History, HistoryInv, OneVersionPerKey
    <2>5. NewerDiffers'
      \* v = latest has no successor yet, so no pair of neighbours is affected
      <3>1. \A u \in 1..(latest - 1) : u \in Versions /\ status'[u] = status[u]
        BY <1>1, <2>1, <2>2 DEF Versions
      <3>2. QED BY <1>3, <3>1 DEF History, HistoryInv, NewerDiffers
    <2>6. QED BY <2>3, <2>4, <2>5 DEF HistoryInv
  <1>4. ASSUME NEW r \in Requests, RecordVersion(r)
        PROVE  HistoryInv'
    <2> DEFINE n == latest + 1
    <2>1. n \in Versions /\ latest' = n
      BY <1>1, <1>4 DEF RecordVersion, Versions
    <2>2. \A u \in Versions : status'[u] = IF u = n THEN "QUEUED"
                                           ELSE IF u = latest /\ status[u] = "DRAFT" THEN "SUPERSEDED"
                                           ELSE status[u]
      BY <1>4 DEF RecordVersion
    <2>3. /\ \A u \in Versions : u # n => key'[u] = key[u] /\ hash'[u] = hash[u]
          /\ key'[n] = proc[r].key /\ hash'[n] = proc[r].hash
      BY <1>1, <1>4, <2>1 DEF RecordVersion
    <2>4. /\ \A u \in 1..latest : status[u] \notin Active /\ key[u] # proc[r].key
          /\ ~(latest > 0 /\ status[latest] = "SENT" /\ hash[latest] = proc[r].hash)
      BY <1>4 DEF RecordVersion, MayRecord, HasActive, SentUnchanged, SameKey
    <2>5. Numbered'
      BY <1>1, <2>1, <2>2 DEF HistoryInv, Numbered, Versions
    <2>6. OnlyNewestUnfinished'
      BY <1>1, <2>1, <2>2, <2>4 DEF HistoryInv, Numbered, OnlyNewestUnfinished, Unfinished, Active, Versions
    <2>7. OneVersionPerKey'
      BY <1>1, <2>1, <2>3, <2>4 DEF HistoryInv, OneVersionPerKey, Versions
    <2>8. NewerDiffers'
      <3> SUFFICES ASSUME NEW u \in 1..(n - 1), status'[u] = "SENT"
                   PROVE  hash'[u] # hash'[u + 1]
        BY <2>1 DEF NewerDiffers
      <3>1. u \in Versions /\ u + 1 \in Versions /\ u # n /\ status[u] = "SENT" /\ hash'[u] = hash[u]
        BY <1>1, <2>1, <2>2, <2>3 DEF Versions
      <3>2. CASE u = latest
        BY <1>1, <2>1, <2>3, <2>4, <3>1, <3>2
      <3>3. CASE u # latest
        BY <1>1, <2>1, <2>3, <3>1, <3>3 DEF HistoryInv, NewerDiffers
      <3>4. QED BY <3>2, <3>3
    <2>9. QED BY <2>5, <2>6, <2>7, <2>8 DEF HistoryInv
  <1>5. CASE UNCHANGED vars
    BY <1>2, <1>5 DEF vars, versionVars, History
  <1>6. QED
    BY <1>2, <1>3, <1>4, <1>5, StatusMoves

LEMMA HistoryAlways == Spec => []HistoryInv
  <1>1. Init => HistoryInv
    BY DEF Init, HistoryInv, Numbered, OnlyNewestUnfinished, OneVersionPerKey, NewerDiffers,
           Versions, Unfinished, Active
  <1>2. TypeOK /\ HistoryInv /\ [Next]_vars => HistoryInv'
    BY HistoryStep
  <1>3. QED BY <1>1, <1>2, TypeCorrect, PTL DEF Spec

\* createVersionRecord: at most one version is under way and it is the newest,
\* whatever requests, workers, retries and failed handlers overlap.
THEOREM NewestOnly == Spec => []OnlyNewestUnfinished
  <1>1. HistoryInv => OnlyNewestUnfinished
    BY DEF HistoryInv
  <1>2. QED BY <1>1, HistoryAlways, PTL

\* createVersionRecord: a repeated idempotency key never makes a second version.
THEOREM KeysUnique == Spec => []OneVersionPerKey
  <1>1. HistoryInv => OneVersionPerKey
    BY DEF HistoryInv
  <1>2. QED BY <1>1, HistoryAlways, PTL

\* ANALYSIS_SOURCE_UNCHANGED: neighbouring SENT versions describe different data.
THEOREM ResendDiffers == Spec => []ResendNeedsNewSource
  <1>1. HistoryInv => ResendNeedsNewSource
    BY DEF HistoryInv, NewerDiffers, ResendNeedsNewSource
  <1>2. QED BY <1>1, HistoryAlways, PTL

-----------------------------------------------------------------------------
(* A SENT version told everyone it addresses.                              *)

\* A delivery that still works on the current recipient rows knows their level,
\* and has told those recipients once it is about to finish.
RowsKnown(p) ==
  /\ proc[p].epoch <= epoch[proc[p].ver]
  /\ proc[p].epoch = epoch[proc[p].ver] => proc[p].lvl = alert[proc[p].ver]
RecipientsTold(p) == Matrix[proc[p].lvl] \subseteq notified[proc[p].ver]

DeliveryInv ==
  /\ \A p \in Procs : /\ proc[p].pc \in {"notify", "finish"} => RowsKnown(p)
                      /\ proc[p].pc = "finish" => RecipientsTold(p)
  /\ SentToAllRecipients

\* The step of a process that touches neither rows nor notifications and does
\* not go on delivering.
Enters(p, rec) == Enter(p, rec) /\ rec.pc \notin {"notify", "finish"}

LEMMA ReturnEnters ==
  ASSUME NEW p \in Procs, Return(p) \/ Throw(p)
  PROVE  \E rec : Enters(p, rec)
  BY DEF Return, Throw, Leave, Idle, At, Enters

LEMMA QuietKeeps ==
  ASSUME TypeOK, DeliveryInv, NEW p \in Procs, \E rec : Enters(p, rec),
         UNCHANGED <<alert, epoch, notified>>,
         \A v \in Versions : status'[v] = "SENT" => status[v] = "SENT"
  PROVE  DeliveryInv'
  BY DEF DeliveryInv, RowsKnown, RecipientsTold, SentToAllRecipients, Enters, Enter, TypeOK, ProcsOK

LEMMA StepDelivers ==
  ASSUME TypeOK, DeliveryInv, NEW p \in Procs, Step(p) \/ Throws(p)
  PROVE  DeliveryInv'
  <1> USE DEF versionVars
  <1>1. proc[p] \in ProcRecord
        /\ (proc[p].pc \notin {"idle", "record"} => proc[p].ver \in Versions)
    BY DEF TypeOK, ProcsOK
  <1>2. CASE GenerationStarts(p)
    <2>1. CASE status[proc[p].ver] \in {"QUEUED", "GENERATING"}
      <3> DEFINE rec == [proc[p] EXCEPT !.pc = "ai"]
      <3>1. rec.pc = "ai" /\ Enter(p, rec)
        BY <1>1, <1>2, <2>1 DEF GenerationStarts, ProcRecord
      <3> HIDE DEF rec
      <3>2. \E r : Enters(p, r)
        BY <3>1 DEF Enters
      <3>3. QED BY <1>2, <2>1, <3>2, QuietKeeps DEF GenerationStarts, TypeOK, VersionsOK
    <2>2. CASE status[proc[p].ver] \notin {"QUEUED", "GENERATING"}
      BY <1>2, <2>2, ReturnEnters, QuietKeeps DEF GenerationStarts
    <2>3. QED BY <2>1, <2>2
  <1>3. CASE \E o \in AiOutputs : GenerationEnds(p, o)
    BY <1>3, ReturnEnters, QuietKeeps DEF GenerationEnds, TypeOK, VersionsOK
  <1>4. CASE DeliveryReads(p)
    <2>1. CASE status[proc[p].ver] = "SEND_QUEUED"
      <3> DEFINE rec == [proc[p] EXCEPT !.pc = "notify", !.epoch = epoch[proc[p].ver],
                                        !.lvl = alert[proc[p].ver]]
      <3>1. rec.pc = "notify" /\ rec.ver = proc[p].ver /\ rec.epoch = epoch[proc[p].ver]
            /\ rec.lvl = alert[proc[p].ver] /\ epoch[proc[p].ver] \in Nat
        BY <1>1, <1>4 DEF ProcRecord, DeliveryReads, TypeOK, VersionsOK
      <3>2. Enter(p, rec) /\ UNCHANGED <<status, alert, epoch, notified>>
        BY <1>4, <2>1 DEF DeliveryReads
      <3> HIDE DEF rec
      <3>3. QED
        BY <3>1, <3>2 DEF Enter, DeliveryInv, RowsKnown, RecipientsTold, SentToAllRecipients, TypeOK, ProcsOK
    <2>2. CASE status[proc[p].ver] # "SEND_QUEUED"
      BY <1>4, <2>2, ReturnEnters, QuietKeeps DEF DeliveryReads
    <2>3. QED BY <2>1, <2>2
  <1>5. CASE DeliveryNotifies(p)
    <2> DEFINE rec == [proc[p] EXCEPT !.pc = "finish"]
               v == proc[p].ver
    <2>1. rec.pc = "finish" /\ rec.ver = v /\ rec.epoch = proc[p].epoch /\ rec.lvl = proc[p].lvl
      BY <1>1 DEF ProcRecord
    <2>2. Enter(p, rec) /\ UNCHANGED <<status, alert, epoch>> /\ RowsKnown(p) /\ v \in Versions
      BY <1>1, <1>5 DEF DeliveryNotifies, DeliveryInv
    <2>3. /\ \A u \in Versions : notified[u] \subseteq notified'[u]
          /\ Matrix[proc[p].lvl] \subseteq notified'[v]
      BY <1>5, <2>2 DEF DeliveryNotifies, TypeOK, VersionsOK
    <2> HIDE DEF rec, v
    <2>4. \A q \in Procs : proc'[q] = IF q = p THEN rec ELSE proc[q]
      BY <2>2 DEF Enter, TypeOK, ProcsOK
    <2>5. SentToAllRecipients'
      BY <2>2, <2>3 DEF DeliveryInv, SentToAllRecipients
    <2>6. ASSUME NEW q \in Procs
          PROVE  /\ proc'[q].pc \in {"notify", "finish"} => RowsKnown(q)'
                 /\ proc'[q].pc = "finish" => RecipientsTold(q)'
      <3>1. CASE q = p
        BY <2>1, <2>2, <2>3, <2>4, <3>1 DEF RowsKnown, RecipientsTold, v
      <3>2. CASE q # p
        <4>1. proc'[q] = proc[q] /\ (proc[q].pc = "finish" => proc[q].ver \in Versions)
          BY <2>4, <3>2 DEF TypeOK, ProcsOK
        <4>2. QED BY <2>2, <2>3, <4>1 DEF DeliveryInv, RowsKnown, RecipientsTold
      <3>3. QED BY <3>1, <3>2
    <2>7. QED BY <2>5, <2>6 DEF DeliveryInv
  <1>6. CASE DeliveryFinishes(p)
    <2> DEFINE v == proc[p].ver
    <2>1. \E rec : Enters(p, rec)
      BY <1>6, ReturnEnters DEF DeliveryFinishes
    <2>2. CASE status[v] = "SEND_QUEUED" /\ ~RowsGone(p)
      <3>1. v \in Versions /\ alert[v] \in Levels /\ status' = [status EXCEPT ![v] = "SENT"]
            /\ UNCHANGED <<alert, epoch, notified>>
        BY <1>1, <1>6, <2>2 DEF DeliveryFinishes, TypeOK, VersionsOK
      <3>2. Matrix[alert[v]] \subseteq notified[v]
        BY <1>6, <2>2 DEF DeliveryFinishes, RowsGone, DeliveryInv, RowsKnown, RecipientsTold
      <3>3. SentToAllRecipients'
        BY <3>1, <3>2 DEF DeliveryInv, SentToAllRecipients, TypeOK, VersionsOK
      <3>4. QED
        BY <2>1, <3>1, <3>3 DEF DeliveryInv, RowsKnown, RecipientsTold, Enters, Enter, TypeOK, ProcsOK
    <2>3. CASE ~(status[v] = "SEND_QUEUED" /\ ~RowsGone(p))
      BY <1>6, <2>1, <2>3, QuietKeeps DEF DeliveryFinishes
    <2>4. QED BY <2>2, <2>3
  <1>7. CASE Throws(p)
    BY <1>7, ReturnEnters, QuietKeeps DEF Throws
  <1>8. QED
    BY <1>2, <1>3, <1>4, <1>5, <1>6, <1>7 DEF Step

LEMMA OthersDeliver ==
  ASSUME TypeOK, DeliveryInv,
         \/ \E r \in Requests : Arrives(r) \/ RequestStep(r) \/ EnqueueFails(r) \/ PushFails(r)
         \/ \E w \in Workers : WorkerStep(w)
  PROVE  DeliveryInv'
  <1> USE DEF versionVars
  <1>1. CASE \E r \in Requests : CommitSend(r)
    <2>1. PICK r \in Requests : CommitSend(r)
      BY <1>1
    <2> DEFINE v == proc[r].ver
               rec == At("push", "none", v)
    <2>2. r \in Procs /\ v \in Versions /\ status[v] = "DRAFT" /\ epoch[v] \in Nat
      BY <2>1 DEF Procs, CommitSend, MayCommit, TypeOK, ProcsOK, VersionsOK
    <2>3. /\ status' = [status EXCEPT ![v] = "SEND_QUEUED"]
          /\ alert' = [alert EXCEPT ![v] = proc[r].lvl]
          /\ epoch' = [epoch EXCEPT ![v] = epoch[v] + 1]
          /\ Enter(r, rec) /\ rec.pc = "push" /\ UNCHANGED notified
      BY <2>1 DEF CommitSend, TypeOK, VersionsOK, At
    <2> HIDE DEF rec, v
    <2>4. SentToAllRecipients'
      BY <2>2, <2>3 DEF DeliveryInv, SentToAllRecipients, TypeOK, VersionsOK
    <2>5. ASSUME NEW q \in Procs, proc'[q].pc \in {"notify", "finish"}
          PROVE  RowsKnown(q)' /\ (proc'[q].pc = "finish" => RecipientsTold(q)')
      <3>1. proc'[q] = proc[q] /\ proc[q].ver \in Versions /\ proc[q].epoch \in Nat
        BY <2>2, <2>3, <2>5 DEF Enter, TypeOK, ProcsOK, ProcRecord
      <3>2. RowsKnown(q) /\ (proc[q].pc = "finish" => RecipientsTold(q))
        BY <2>5, <3>1 DEF DeliveryInv
      <3>3. CASE proc[q].ver = v
        \* the rows this delivery read are replaced
        BY <2>2, <2>3, <3>1, <3>2, <3>3 DEF RowsKnown, RecipientsTold, TypeOK, VersionsOK
      <3>4. CASE proc[q].ver # v
        BY <2>2, <2>3, <3>1, <3>2, <3>4 DEF RowsKnown, RecipientsTold, TypeOK, VersionsOK
      <3>5. QED BY <3>3, <3>4
    <2>6. QED BY <2>4, <2>5 DEF DeliveryInv
  <1>2. ASSUME NEW r \in Requests,
               Arrives(r) \/ (RequestStep(r) /\ ~CommitSend(r)) \/ EnqueueFails(r) \/ PushFails(r)
        PROVE  DeliveryInv'
    <2>1. r \in Procs
      BY DEF Procs
    <2>2. \E rec : Enters(r, rec)
      <3>1. CASE Arrives(r)
        <4>1. CASE \E k \in Keys : RepeatCreate(r, k)
          BY <4>1 DEF RepeatCreate, At, Enters
        <4>2. CASE \E k \in Keys, mode \in {"manual", "auto"} : BeginCreate(r, k, mode)
          <5>1. PICK k \in Keys, mode \in {"manual", "auto"} : BeginCreate(r, k, mode)
            BY <4>2
          <5> DEFINE rec == [At("record", mode, 0) EXCEPT !.key = k, !.hash = source]
          <5>2. rec.pc = "record" /\ Enter(r, rec)
            BY <5>1 DEF BeginCreate, At
          <5> HIDE DEF rec
          <5>3. QED BY <5>2 DEF Enters
        <4>3. CASE \E v \in Versions, o \in Edits : BeginUpdate(r, v, o)
          BY <4>3 DEF BeginUpdate, At, Enters
        <4>4. CASE \E v \in Versions : BeginDismiss(r, v)
          BY <4>4 DEF BeginDismiss, At, Enters
        <4>5. CASE \E v \in Versions, l \in Levels : BeginSend(r, v, l)
          BY <4>5 DEF BeginSend, At, Enters
        <4>6. QED BY <3>1, <4>1, <4>2, <4>3, <4>4, <4>5 DEF Arrives
      <3>2. CASE RequestStep(r) /\ ~CommitSend(r)
        <4>1. CASE RecordVersion(r)
          BY <4>1 DEF RecordVersion, At, Enters
        <4>2. CASE RecordExists(r)
          BY <4>2 DEF RecordExists, Leave, Idle, At, Enters
        <4>3. CASE RecordRefused(r) \/ EnqueueGenerate(r) \/ CommitRefused(r)
          BY <4>3 DEF RecordRefused, EnqueueGenerate, CommitRefused, Leave, Idle, At, Enters
        <4>4. CASE ApplyUpdate(r) \/ ApplyDismiss(r) \/ NoteSent(r)
          BY <4>4 DEF ApplyUpdate, ApplyDismiss, NoteSent, Leave, Idle, At, Enters
        <4>5. CASE PushDelivery(r)
          BY <4>5 DEF PushDelivery, At, Enters
        <4>6. QED BY <3>2, <4>1, <4>2, <4>3, <4>4, <4>5 DEF RequestStep
      <3>3. CASE EnqueueFails(r) \/ PushFails(r)
        BY <3>3 DEF EnqueueFails, PushFails, Leave, Idle, At, Enters
      <3>4. QED BY <1>2, <3>1, <3>2, <3>3
    <2>3. UNCHANGED <<alert, epoch, notified>>
      BY <1>2 DEF Arrives, RepeatCreate, BeginCreate, BeginUpdate, BeginDismiss, BeginSend,
                  RequestStep, RecordVersion, RecordExists, RecordRefused, EnqueueGenerate, ApplyUpdate,
                  ApplyDismiss, CommitRefused, PushDelivery, NoteSent, EnqueueFails, PushFails
    <2>4. \A v \in Versions : status'[v] = "SENT" => status[v] = "SENT"
      BY <1>2 DEF Arrives, RepeatCreate, BeginCreate, BeginUpdate, BeginDismiss, BeginSend,
                  RequestStep, RecordVersion, RecordExists, RecordRefused, EnqueueGenerate, ApplyUpdate,
                  ApplyDismiss, CommitRefused, PushDelivery, NoteSent, EnqueueFails, PushFails
    <2>5. QED BY <2>1, <2>2, <2>3, <2>4, QuietKeeps
  <1>3. ASSUME NEW w \in Workers, WorkerStep(w)
        PROVE  DeliveryInv'
    <2>1. w \in Procs
      BY DEF Procs
    <2>2. \E rec : Enters(w, rec)
      <3>1. CASE GenerationFailed(w) \/ DeliveryUndone(w)
        BY <3>1 DEF GenerationFailed, DeliveryUndone, Leave, Idle, At, Enters
      <3>2. CASE DeliveryFailed(w)
        BY <3>2 DEF DeliveryFailed, At, Enters
      <3>3. CASE \E j \in Jobs : WorkerTakes(w, j)
        BY <3>3 DEF WorkerTakes, At, Enters
      <3>4. CASE RequeueDelivery(w)
        BY <3>4 DEF RequeueDelivery, Leave, Idle, At, Enters
      <3>5. QED BY <1>3, <3>1, <3>2, <3>3, <3>4 DEF WorkerStep
    <2>3. UNCHANGED <<alert, epoch, notified>>
      BY <1>3 DEF WorkerStep, GenerationFailed, DeliveryFailed, DeliveryUndone, RequeueDelivery, WorkerTakes
    <2>4. \A v \in Versions : status'[v] = "SENT" => status[v] = "SENT"
      BY <1>3 DEF WorkerStep, GenerationFailed, DeliveryFailed, DeliveryUndone, RequeueDelivery, WorkerTakes, TypeOK, VersionsOK
    <2>5. QED BY <2>1, <2>2, <2>3, <2>4, QuietKeeps
  <1>4. QED
    BY <1>1, <1>2, <1>3

LEMMA DeliveryAlways == Spec => []DeliveryInv
  <1>1. Init => DeliveryInv
    BY DEF Init, DeliveryInv, SentToAllRecipients, Idle, At
  <1>2. TypeOK /\ DeliveryInv /\ [Next]_vars => DeliveryInv'
    <2> SUFFICES ASSUME TypeOK, DeliveryInv, [Next]_vars PROVE DeliveryInv'
      OBVIOUS
    <2>1. CASE UNCHANGED vars \/ SourceChanges \/ \E j \in Jobs : JobStalls(j) \/ JobEvicted(j)
      BY <2>1 DEF vars, versionVars, SourceChanges, JobStalls, JobEvicted, DeliveryInv, RowsKnown,
                  RecipientsTold, SentToAllRecipients
    <2>2. CASE \E gone \in SUBSET Mortal : Dying(gone)
      BY <2>2, DyingIdles DEF Idled, Idle, At, versionVars, DeliveryInv, RowsKnown, RecipientsTold,
                              SentToAllRecipients
    <2>3. QED
      BY <2>1, <2>2, StepDelivers, OthersDeliver DEF Next
  <1>3. QED BY <1>1, <1>2, TypeCorrect, PTL DEF Spec

\* processDelivery: whatever sends, retries, stalled executions and fallbacks
\* overlap, a SENT version has told everyone its last send addressed.
THEOREM SentTold == Spec => []SentToAllRecipients
  <1>1. DeliveryInv => SentToAllRecipients
    BY DEF DeliveryInv
  <1>2. QED BY <1>1, DeliveryAlways, PTL

-----------------------------------------------------------------------------
(* What a step does to the versions and their readers.                     *)

Open == {"QUEUED", "GENERATING"}

\* Nothing has been generated for or sent of a version that is not finished.
Fresh == \A v \in Versions : status[v] \in Open \cup {"NONE"} => alert[v] = 0 /\ output[v] = None

\* An update has the text of a lecturer.
EditsOK == \A p \in Procs : proc[p].pc = "apply" => proc[p].out \in Edits

Still == UNCHANGED <<status, alert, output, notified>>
Becomes(v, s) == status' = [status EXCEPT ![v] = s]

Generates(v) == status[v] \in Open /\ Becomes(v, "GENERATING") /\ UNCHANGED <<alert, output, notified>>
Drafts(v, o) == /\ status[v] = "GENERATING" /\ Becomes(v, "DRAFT")
                /\ output' = [output EXCEPT ![v] = o] /\ UNCHANGED <<alert, notified>>
GivesUp(v) == status[v] \in Open /\ Becomes(v, "FAILED") /\ UNCHANGED <<alert, output, notified>>
EditsDraft(v, o) == /\ status[v] = "DRAFT" /\ output' = [output EXCEPT ![v] = o]
                    /\ UNCHANGED <<status, alert, notified>>
Sends(v, l) == /\ status[v] = "DRAFT" /\ Becomes(v, "SEND_QUEUED")
               /\ alert' = [alert EXCEPT ![v] = l] /\ UNCHANGED <<output, notified>>
Notifies(v, staff) == notified' = [notified EXCEPT ![v] = @ \cup staff] /\ UNCHANGED <<status, alert, output>>
GoesBack(v) == status[v] = "SEND_QUEUED" /\ Becomes(v, "DRAFT") /\ UNCHANGED <<alert, output, notified>>
Delivers(v) == /\ status[v] = "SEND_QUEUED" /\ Told(v) /\ Becomes(v, "SENT")
               /\ UNCHANGED <<alert, output, notified>>

Changes ==
  \/ Still
  \/ \E v \in Versions :
       \/ Generates(v) \/ GivesUp(v) \/ GoesBack(v) \/ Delivers(v)
       \/ \E o \in AiOutputs : Drafts(v, o)
       \/ \E o \in Edits : EditsDraft(v, o)
       \/ \E l \in Levels : Sends(v, l)
       \/ \E staff \in SUBSET Staff : Notifies(v, staff)
  \/ \E r \in Requests : RecordVersion(r)

LEMMA StepChanges ==
  ASSUME TypeOK, DeliveryInv, EditsOK, [Next]_vars
  PROVE  Changes
  <1> USE DEF versionVars
  <1>1. \A p \in Procs : /\ proc[p].pc \notin {"idle", "record"} => proc[p].ver \in Versions
                         /\ proc[p].pc \in {"commit", "notify", "finish"} => proc[p].lvl \in Levels
    BY DEF TypeOK, ProcsOK
  <1>2. /\ status \in [Versions -> Statuses \cup {"NONE"}] /\ output \in [Versions -> Outputs \cup {None}]
        /\ \A v \in Versions : status[v] = "SEND_QUEUED" => alert[v] \in Levels
    BY DEF TypeOK, VersionsOK
  <1>3. ASSUME NEW p \in Procs, Step(p) \/ Throws(p)
        PROVE  Changes
    <2> DEFINE v == proc[p].ver
    <2>1. CASE GenerationStarts(p)
      <3>1. v \in Versions BY <1>1, <2>1 DEF GenerationStarts
      <3>2. Generates(v) \/ Still BY <1>2, <2>1 DEF GenerationStarts, Generates, Still, Open, Becomes
      <3> QED BY <3>1, <3>2 DEF Changes
    <2>2. CASE \E o \in AiOutputs : GenerationEnds(p, o)
      <3>1. PICK o \in AiOutputs : GenerationEnds(p, o) BY <2>2
      <3>2. v \in Versions BY <1>1, <3>1 DEF GenerationEnds
      <3>3. Drafts(v, o) \/ Still BY <3>1 DEF GenerationEnds, Drafts, Still, Becomes
      <3> QED BY <3>2, <3>3 DEF Changes
    <2>3. CASE DeliveryReads(p) \/ Throws(p)
      BY <2>3 DEF DeliveryReads, Throws, Still, Changes
    <2>4. CASE DeliveryNotifies(p)
      <3>1. v \in Versions /\ Matrix[proc[p].lvl] \subseteq Staff BY <1>1, <2>4 DEF DeliveryNotifies, Staff
      <3>2. Notifies(v, Matrix[proc[p].lvl]) BY <2>4 DEF DeliveryNotifies, Notifies
      <3> QED BY <3>1, <3>2 DEF Changes
    <2>5. CASE DeliveryFinishes(p)
      <3>1. v \in Versions BY <1>1, <2>5 DEF DeliveryFinishes
      <3>2. CASE status[v] = "SEND_QUEUED" /\ ~RowsGone(p)
        <4>1. Told(v)
          BY <1>2, <2>5, <3>1, <3>2 DEF DeliveryFinishes, RowsGone, DeliveryInv, RowsKnown, RecipientsTold, Told
        <4>2. Delivers(v) BY <2>5, <3>2, <4>1 DEF DeliveryFinishes, Delivers, Becomes
        <4> QED BY <3>1, <4>2 DEF Changes
      <3>3. CASE ~(status[v] = "SEND_QUEUED" /\ ~RowsGone(p))
        BY <2>5, <3>3 DEF DeliveryFinishes, Still, Changes
      <3> QED BY <3>2, <3>3
    <2> QED BY <1>3, <2>1, <2>2, <2>3, <2>4, <2>5 DEF Step
  <1>4. ASSUME NEW r \in Requests, Arrives(r) \/ RequestStep(r) \/ EnqueueFails(r) \/ PushFails(r)
        PROVE  Changes
    <2> DEFINE v == proc[r].ver
    <2>0. r \in Procs BY DEF Procs
    <2>1. CASE Arrives(r)
      BY <2>1 DEF Arrives, RepeatCreate, BeginCreate, BeginUpdate, BeginDismiss, BeginSend, Still, Changes
    <2>2. CASE RecordVersion(r) BY <2>2 DEF Changes
    <2>3. CASE ApplyUpdate(r)
      <3>1. v \in Versions /\ proc[r].out \in Edits BY <1>1, <2>0, <2>3 DEF ApplyUpdate, EditsOK
      <3>2. EditsDraft(v, proc[r].out) \/ Still BY <2>3 DEF ApplyUpdate, EditsDraft, Still
      <3> QED BY <3>1, <3>2 DEF Changes
    <2>4. CASE CommitSend(r)
      <3>1. v \in Versions /\ proc[r].lvl \in Levels BY <1>1, <2>0, <2>4 DEF CommitSend
      <3>2. Sends(v, proc[r].lvl) BY <2>4 DEF CommitSend, MayCommit, Sends, Becomes
      <3> QED BY <3>1, <3>2 DEF Changes
    <2>5. CASE \/ RecordExists(r) \/ RecordRefused(r) \/ EnqueueGenerate(r) \/ ApplyDismiss(r)
               \/ CommitRefused(r) \/ PushDelivery(r) \/ NoteSent(r) \/ EnqueueFails(r) \/ PushFails(r)
      BY <2>5 DEF RecordExists, RecordRefused, EnqueueGenerate, ApplyDismiss, CommitRefused, PushDelivery,
                  NoteSent, EnqueueFails, PushFails, Still, Changes
    <2> QED BY <1>4, <2>1, <2>2, <2>3, <2>4, <2>5 DEF RequestStep
  <1>5. ASSUME NEW w \in Workers, WorkerStep(w)
        PROVE  Changes
    <2> DEFINE v == proc[w].ver
    <2>0. w \in Procs BY DEF Procs
    <2>1. CASE GenerationFailed(w)
      <3>1. v \in Versions BY <1>1, <2>0, <2>1 DEF GenerationFailed
      <3>2. GivesUp(v) \/ Still BY <2>1 DEF GenerationFailed, GivesUp, Still, Open, Becomes
      <3> QED BY <3>1, <3>2 DEF Changes
    <2>2. CASE DeliveryUndone(w)
      <3>1. v \in Versions BY <1>1, <2>0, <2>2 DEF DeliveryUndone
      <3>2. GoesBack(v) \/ Still BY <2>2 DEF DeliveryUndone, GoesBack, Still, Becomes
      <3> QED BY <3>1, <3>2 DEF Changes
    <2>3. CASE DeliveryFailed(w) \/ RequeueDelivery(w) \/ \E j \in Jobs : WorkerTakes(w, j)
      BY <2>3 DEF DeliveryFailed, RequeueDelivery, WorkerTakes, Still, Changes
    <2> QED BY <1>5, <2>1, <2>2, <2>3 DEF WorkerStep
  <1>6. CASE UNCHANGED vars \/ SourceChanges \/ \E j \in Jobs : JobStalls(j) \/ JobEvicted(j)
    BY <1>6 DEF vars, SourceChanges, JobStalls, JobEvicted, Still, Changes
  <1>7. CASE \E gone \in SUBSET Mortal : Dying(gone)
    BY <1>7, DyingIdles DEF Still, Changes
  <1> QED BY <1>3, <1>4, <1>5, <1>6, <1>7 DEF Next

-----------------------------------------------------------------------------
(* The text of a version is written by the provider once, then by hand.    *)

\* The step of a process that does not take a lecturer's text with it.
Passes(p) == \E rec : Enter(p, rec) /\ rec.pc # "apply"

LEMMA EditsKept ==
  ASSUME TypeOK, EditsOK, [Next]_vars
  PROVE  EditsOK'
  <1>1. \A p \in Procs : proc[p] \in ProcRecord BY DEF TypeOK, ProcsOK
  <1>2. ASSUME NEW p \in Procs, Passes(p) PROVE EditsOK'
    BY <1>2 DEF Passes, Enter, EditsOK, TypeOK, ProcsOK
  <1>3. ASSUME NEW p \in Procs, Return(p) \/ Throw(p) \/ Leave(p) PROVE Passes(p)
    BY <1>3 DEF Return, Throw, Leave, Idle, At, Passes
  <1>8. ASSUME NEW p \in Procs, NEW pc, NEW ctx, NEW v, Enter(p, At(pc, ctx, v)), pc # "apply" PROVE Passes(p)
    <2>1. At(pc, ctx, v).pc = pc BY DEF At
    <2> QED BY <1>8, <2>1 DEF Passes
  <1>4. ASSUME NEW p \in Procs, Step(p) \/ Throws(p) PROVE EditsOK'
    <2>1. CASE Throws(p) \/ DeliveryFinishes(p) \/ \E o \in AiOutputs : GenerationEnds(p, o)
      <3>1. Passes(p) BY <1>3, <2>1 DEF Throws, DeliveryFinishes, GenerationEnds
      <3> QED BY <1>2, <3>1
    <2>2. CASE GenerationStarts(p)
      <3>1. [proc[p] EXCEPT !.pc = "ai"].pc = "ai" BY <1>1 DEF ProcRecord
      <3>2. Passes(p) BY <1>3, <2>2, <3>1 DEF GenerationStarts, Passes
      <3> QED BY <1>2, <3>2
    <2>3. CASE DeliveryReads(p)
      <3>1. CASE status[proc[p].ver] = "SEND_QUEUED"
        <4> DEFINE rec == [proc[p] EXCEPT !.pc = "notify", !.epoch = epoch[proc[p].ver], !.lvl = alert[proc[p].ver]]
        <4>1. rec.pc = "notify" BY <1>1 DEF ProcRecord
        <4>2. Enter(p, rec) BY <2>3, <3>1 DEF DeliveryReads
        <4> HIDE DEF rec
        <4>3. Passes(p) BY <4>1, <4>2 DEF Passes
        <4> QED BY <1>2, <4>3
      <3>2. CASE status[proc[p].ver] # "SEND_QUEUED" BY <1>2, <1>3, <2>3, <3>2 DEF DeliveryReads
      <3> QED BY <3>1, <3>2
    <2>4. CASE DeliveryNotifies(p)
      <3>1. [proc[p] EXCEPT !.pc = "finish"].pc = "finish" BY <1>1 DEF ProcRecord
      <3>2. Passes(p) BY <2>4, <3>1 DEF DeliveryNotifies, Passes
      <3> QED BY <1>2, <3>2
    <2> QED BY <1>4, <2>1, <2>2, <2>3, <2>4 DEF Step
  <1>5. ASSUME NEW r \in Requests, Arrives(r) \/ RequestStep(r) \/ EnqueueFails(r) \/ PushFails(r)
        PROVE  EditsOK'
    <2>0. r \in Procs BY DEF Procs
    <2>1. CASE \E v \in Versions, o \in Edits : BeginUpdate(r, v, o)
      <3>1. PICK v \in Versions, o \in Edits : BeginUpdate(r, v, o) BY <2>1
      <3> DEFINE rec == [At("apply", "none", v) EXCEPT !.out = o]
      <3>2. rec.out = o BY DEF At
      <3>3. Enter(r, rec) BY <3>1 DEF BeginUpdate
      <3> HIDE DEF rec
      <3> QED BY <2>0, <3>2, <3>3 DEF Enter, EditsOK, TypeOK, ProcsOK
    <2>2. CASE \E k \in Keys, mode \in {"manual", "auto"} : BeginCreate(r, k, mode)
      <3>1. PICK k \in Keys, mode \in {"manual", "auto"} : BeginCreate(r, k, mode) BY <2>2
      <3> DEFINE rec == [At("record", mode, 0) EXCEPT !.key = k, !.hash = source]
      <3>2. rec.pc = "record" BY DEF At
      <3>3. Enter(r, rec) BY <3>1 DEF BeginCreate
      <3> HIDE DEF rec
      <3>4. Passes(r) BY <3>2, <3>3 DEF Passes
      <3> QED BY <1>2, <2>0, <3>4
    <2>3. CASE \E v \in Versions, l \in Levels : BeginSend(r, v, l)
      <3>1. PICK v \in Versions, l \in Levels : BeginSend(r, v, l) BY <2>3
      <3> DEFINE rec == [At("commit", "none", v) EXCEPT !.lvl = l]
      <3>2. rec.pc = "commit" BY DEF At
      <3>3. Enter(r, rec) BY <3>1 DEF BeginSend
      <3> HIDE DEF rec
      <3>4. Passes(r) BY <3>2, <3>3 DEF Passes
      <3> QED BY <1>2, <2>0, <3>4
    <2>4. CASE \/ \E k \in Keys : RepeatCreate(r, k)
               \/ \E v \in Versions : BeginDismiss(r, v)
               \/ RecordVersion(r) \/ CommitSend(r) \/ PushDelivery(r) \/ PushFails(r)
      <3>1. Passes(r)
        BY <1>8, <2>0, <2>4 DEF RepeatCreate, BeginDismiss, RecordVersion, CommitSend, PushDelivery, PushFails
      <3> QED BY <1>2, <2>0, <3>1
    <2>5. CASE RecordExists(r) \/ EnqueueFails(r)
      <3>1. Passes(r) BY <1>3, <1>8, <2>0, <2>5 DEF RecordExists, EnqueueFails
      <3> QED BY <1>2, <2>0, <3>1
    <2>6. CASE \/ RecordRefused(r) \/ EnqueueGenerate(r) \/ ApplyUpdate(r) \/ ApplyDismiss(r)
               \/ CommitRefused(r) \/ NoteSent(r)
      BY <1>2, <1>3, <2>0, <2>6 DEF RecordRefused, EnqueueGenerate, ApplyUpdate, ApplyDismiss, CommitRefused, NoteSent
    <2> QED BY <1>5, <2>1, <2>2, <2>3, <2>4, <2>5, <2>6 DEF Arrives, RequestStep
  <1>6. ASSUME NEW w \in Workers, WorkerStep(w) PROVE EditsOK'
    <2>0. w \in Procs BY DEF Procs
    <2>1. CASE GenerationFailed(w) \/ DeliveryUndone(w) \/ RequeueDelivery(w)
      BY <1>2, <1>3, <2>0, <2>1 DEF GenerationFailed, DeliveryUndone, RequeueDelivery
    <2>2. CASE DeliveryFailed(w) BY <1>2, <1>8, <2>0, <2>2 DEF DeliveryFailed
    <2>3. CASE \E j \in Jobs : WorkerTakes(w, j)
      <3>1. PICK j \in Jobs : WorkerTakes(w, j) BY <2>3
      <3> DEFINE rec == [At(IF j[1] = "generate" THEN "gen" ELSE "read", "job", j[2]) EXCEPT !.kind = j[1]]
      <3>2. rec.pc \in {"gen", "read"} BY DEF At
      <3>3. Enter(w, rec) BY <3>1 DEF WorkerTakes
      <3> HIDE DEF rec
      <3>4. Passes(w) BY <3>2, <3>3 DEF Passes
      <3> QED BY <1>2, <2>0, <3>4
    <2> QED BY <1>6, <2>1, <2>2, <2>3 DEF WorkerStep
  <1>7. CASE UNCHANGED vars \/ SourceChanges \/ \E j \in Jobs : JobStalls(j) \/ JobEvicted(j)
    BY <1>7 DEF vars, SourceChanges, JobStalls, JobEvicted, EditsOK
  <1>9. CASE \E gone \in SUBSET Mortal : Dying(gone)
    BY <1>9, DyingIdles DEF Idled, Idle, At, EditsOK
  <1> QED BY <1>4, <1>5, <1>6, <1>7, <1>9 DEF Next

LEMMA FreshKept ==
  ASSUME TypeOK, HistoryInv, Fresh, Changes
  PROVE  Fresh'
  <1>1. /\ status \in [Versions -> Statuses \cup {"NONE"}] /\ latest \in 0..MaxVersions
        /\ output \in [Versions -> Outputs \cup {None}] /\ alert \in [Versions -> Levels \cup {0}]
    BY DEF TypeOK, VersionsOK
  <1>2. CASE Still BY <1>2 DEF Still, Fresh
  <1>3. CASE \E v \in Versions :
               \/ Generates(v) \/ GivesUp(v) \/ GoesBack(v) \/ Delivers(v)
               \/ \E o \in AiOutputs : Drafts(v, o)
               \/ \E o \in Edits : EditsDraft(v, o)
               \/ \E l \in Levels : Sends(v, l)
               \/ \E staff \in SUBSET Staff : Notifies(v, staff)
    BY <1>1, <1>3 DEF Generates, GivesUp, GoesBack, Delivers, Drafts, EditsDraft, Sends, Notifies, Becomes, Open, Fresh
  <1>4. ASSUME NEW r \in Requests, RecordVersion(r) PROVE Fresh'
    <2>1. /\ latest + 1 \in Versions /\ UNCHANGED <<output, alert>>
          /\ status' = [u \in Versions |->
                          IF u = latest + 1 THEN "QUEUED"
                          ELSE IF u = latest /\ status[u] = "DRAFT" THEN "SUPERSEDED" ELSE status[u]]
      BY <1>1, <1>4 DEF RecordVersion, Versions
    <2>2. status[latest + 1] = "NONE" BY <1>1, <2>1 DEF HistoryInv, Numbered
    <2> QED BY <2>1, <2>2 DEF Fresh, Open
  <1> QED BY <1>2, <1>3, <1>4 DEF Changes

\* Everything the columns of the versions obey.
Kept == TypeOK /\ HistoryInv /\ DeliveryInv /\ EditsOK /\ Fresh

LEMMA KeptAlways == Spec => []Kept
  <1>1. Init => EditsOK /\ Fresh BY DEF Init, EditsOK, Fresh, Idle, At
  <1>2. TypeOK /\ HistoryInv /\ DeliveryInv /\ EditsOK /\ Fresh /\ [Next]_vars => EditsOK' /\ Fresh'
    BY StepChanges, EditsKept, FreshKept
  <1>3. Kept <=> TypeOK /\ HistoryInv /\ DeliveryInv /\ EditsOK /\ Fresh BY DEF Kept
  <1> QED BY <1>1, <1>2, <1>3, TypeCorrect, HistoryAlways, DeliveryAlways, PTL DEF Spec

\* processGeneration, updateDraft: whatever overlaps and stalls, a late generation never
\* overwrites an edit, and a late edit never changes what is being sent.
THEOREM ContentIsStable == Spec => ContentOnlyChangesAsDraft
  <1>1. ASSUME Kept, [Next]_vars, NEW v \in Versions, output'[v] # output[v]
        PROVE  /\ status'[v] = "DRAFT"
               /\ output[v] = None \/ (status[v] = "DRAFT" /\ output'[v] \in Edits)
    <2>1. /\ status \in [Versions -> Statuses \cup {"NONE"}] /\ output \in [Versions -> Outputs \cup {None}]
      BY <1>1 DEF Kept, TypeOK, VersionsOK
    <2>2. Changes BY <1>1, StepChanges DEF Kept
    <2>3. \/ \E u \in Versions, o \in AiOutputs : Drafts(u, o)
          \/ \E u \in Versions, o \in Edits : EditsDraft(u, o)
      BY <1>1, <2>2 DEF Changes, Still, Generates, GivesUp, GoesBack, Delivers, Sends, Notifies, RecordVersion
    <2>4. CASE \E u \in Versions, o \in AiOutputs : Drafts(u, o)
      BY <1>1, <2>1, <2>4 DEF Drafts, Becomes, Kept, Fresh, Open
    <2>5. CASE \E u \in Versions, o \in Edits : EditsDraft(u, o)
      BY <1>1, <2>1, <2>5 DEF EditsDraft
    <2> QED BY <2>3, <2>4, <2>5
  <1>2. Kept /\ [Next]_vars =>
          [\A v \in Versions : output'[v] # output[v] =>
             /\ status'[v] = "DRAFT"
             /\ output[v] = None \/ (status[v] = "DRAFT" /\ output'[v] \in Edits)]_vars
    BY <1>1
  <1> QED BY <1>2, KeptAlways, PTL DEF Spec, ContentOnlyChangesAsDraft

-----------------------------------------------------------------------------
(* The refinement of the ledger.                                           *)

Phases == [v \in Versions |-> Phase(status[v])]
Tolds == [v \in Versions |-> Told(v)]

LEMMA PhaseIs ==
  /\ Phase("NONE") = "none" /\ Phase("QUEUED") = "open" /\ Phase("GENERATING") = "open"
  /\ Phase("DRAFT") = "draft" /\ Phase("SEND_QUEUED") = "sending" /\ Phase("SENT") = "sent"
  /\ Phase("FAILED") = "closed" /\ Phase("SUPERSEDED") = "closed"
  BY DEF Phase

\* The status of one version changes.
LEMMA PhaseMoves ==
  ASSUME status \in [Versions -> Statuses \cup {"NONE"}], NEW v \in Versions, NEW s, Becomes(v, s)
  PROVE  Phases' = [Phases EXCEPT ![v] = Phase(s)]
  BY DEF Becomes, Phases

LEMMA ToldStays ==
  ASSUME UNCHANGED <<alert, notified>>
  PROVE  Tolds' = Tolds
  BY DEF Tolds, Told

LEMMA LedgerStep ==
  ASSUME Kept, [Next]_vars
  PROVE  [Ledger!Next]_(Ledger!vars)
  <1>1. /\ status \in [Versions -> Statuses \cup {"NONE"}] /\ latest \in 0..MaxVersions
        /\ alert \in [Versions -> Levels \cup {0}] /\ notified \in [Versions -> SUBSET Staff]
    BY DEF Kept, TypeOK, VersionsOK
  <1>2. Changes BY StepChanges DEF Kept
  <1>3. \A v \in Versions : Phases[v] = Phase(status[v]) /\ Tolds[v] = Told(v) BY DEF Phases, Tolds
  <1>4. CASE Phases' = Phases /\ Tolds' = Tolds BY <1>4 DEF Ledger!vars, Phases, Tolds
  <1>5. CASE Still
    <2>1. Phases' = Phases /\ Tolds' = Tolds BY <1>5, ToldStays DEF Still, Phases
    <2> QED BY <1>4, <2>1
  <1>6. ASSUME NEW v \in Versions, Generates(v) PROVE [Ledger!Next]_(Ledger!vars)
    <2>1. Phases' = [Phases EXCEPT ![v] = "open"] BY <1>1, <1>6, PhaseMoves, PhaseIs DEF Generates
    <2>2. Phases[v] = "open" BY <1>3, <1>6, PhaseIs DEF Generates, Open
    <2>3. Phases' = Phases BY <2>1, <2>2 DEF Phases
    <2>4. Tolds' = Tolds BY <1>6, ToldStays DEF Generates
    <2> QED BY <1>4, <2>3, <2>4
  <1>7. ASSUME NEW v \in Versions, GivesUp(v) \/ \E o \in AiOutputs : Drafts(v, o)
        PROVE  Ledger!Next
    <2>1. Phases' = [Phases EXCEPT ![v] = "closed"] \/ Phases' = [Phases EXCEPT ![v] = "draft"]
      BY <1>1, <1>7, PhaseMoves, PhaseIs DEF GivesUp, Drafts
    <2>2. Phases[v] = "open" BY <1>3, <1>7, PhaseIs DEF GivesUp, Drafts, Open
    <2>3. Tolds' = Tolds BY <1>7, ToldStays DEF GivesUp, Drafts
    <2>4. Ledger!Finish(v) BY <2>1, <2>2, <2>3 DEF Ledger!Finish, Phases, Tolds
    <2> QED BY <2>4 DEF Ledger!Next
  <1>8. ASSUME NEW v \in Versions, NEW o \in Edits, EditsDraft(v, o) PROVE [Ledger!Next]_(Ledger!vars)
    <2>1. Phases' = Phases /\ Tolds' = Tolds BY <1>8, ToldStays DEF EditsDraft, Phases
    <2> QED BY <1>4, <2>1
  <1>9. ASSUME NEW v \in Versions, NEW l \in Levels, Sends(v, l) PROVE Ledger!Next
    <2>1. Phases' = [Phases EXCEPT ![v] = "sending"] BY <1>1, <1>9, PhaseMoves, PhaseIs DEF Sends
    <2>2. Phases[v] = "draft" BY <1>3, <1>9, PhaseIs DEF Sends
    <2>3. \A u \in Versions : u # v => Told(u)' = Told(u) BY <1>1, <1>9 DEF Sends, Told
    <2>4. Told(v)' \in BOOLEAN BY DEF Told
    <2>5. Tolds' = [Tolds EXCEPT ![v] = Told(v)'] BY <2>3 DEF Tolds
    <2>6. Ledger!Commit(v) BY <2>1, <2>2, <2>4, <2>5 DEF Ledger!Commit, Phases, Tolds
    <2> QED BY <2>6 DEF Ledger!Next
  <1>10. ASSUME NEW v \in Versions, NEW staff \in SUBSET Staff, Notifies(v, staff)
         PROVE  [Ledger!Next]_(Ledger!vars)
    <2>1. Phases' = Phases BY <1>10 DEF Notifies, Phases
    <2>2. \A u \in Versions : u # v => Told(u)' = Told(u) BY <1>1, <1>10 DEF Notifies, Told
    <2>3. CASE Told(v)' = Told(v)
      <3>1. Tolds' = Tolds BY <2>2, <2>3 DEF Tolds
      <3> QED BY <1>4, <2>1, <3>1
    <2>4. CASE Told(v)' # Told(v)
      <3>1. Told(v) => Told(v)' BY <1>1, <1>10 DEF Notifies, Told
      <3>2. Told(v)' = TRUE BY <2>4, <3>1 DEF Told
      <3>3. alert[v] \in Levels BY <1>10, <3>2 DEF Notifies, Told
      <3>4. status[v] \notin Open \cup {"NONE"} BY <3>3 DEF Kept, Fresh
      <3>5. Phases[v] \notin {"none", "open"} BY <1>1, <1>3, <3>4, PhaseIs DEF Open, Statuses, Active
      <3>6. Tolds' = [Tolds EXCEPT ![v] = TRUE] BY <2>2, <3>2 DEF Tolds
      <3>7. Ledger!Tell(v) BY <2>1, <3>5, <3>6 DEF Ledger!Tell, Phases, Tolds
      <3> QED BY <3>7 DEF Ledger!Next
    <2> QED BY <2>3, <2>4
  <1>11. ASSUME NEW v \in Versions, GoesBack(v) PROVE Ledger!Next
    <2>1. Phases' = [Phases EXCEPT ![v] = "draft"] BY <1>1, <1>11, PhaseMoves, PhaseIs DEF GoesBack
    <2>2. Phases[v] = "sending" BY <1>3, <1>11, PhaseIs DEF GoesBack
    <2>3. Tolds' = Tolds BY <1>11, ToldStays DEF GoesBack
    <2>4. Ledger!Undo(v) BY <2>1, <2>2, <2>3 DEF Ledger!Undo, Phases, Tolds
    <2> QED BY <2>4 DEF Ledger!Next
  <1>12. ASSUME NEW v \in Versions, Delivers(v) PROVE Ledger!Next
    <2>1. Phases' = [Phases EXCEPT ![v] = "sent"] BY <1>1, <1>12, PhaseMoves, PhaseIs DEF Delivers
    <2>2. Phases[v] = "sending" /\ Tolds[v] BY <1>3, <1>12, PhaseIs DEF Delivers
    <2>3. Tolds' = Tolds BY <1>12, ToldStays DEF Delivers
    <2>4. Ledger!Deliver(v) BY <2>1, <2>2, <2>3 DEF Ledger!Deliver, Phases, Tolds
    <2> QED BY <2>4 DEF Ledger!Next
  <1>13. ASSUME NEW r \in Requests, RecordVersion(r) PROVE Ledger!Next
    <2> DEFINE v == latest + 1
    <2>1. /\ v \in Versions /\ UNCHANGED <<alert, notified>>
          /\ status' = [u \in Versions |->
                          IF u = v THEN "QUEUED"
                          ELSE IF u = latest /\ status[u] = "DRAFT" THEN "SUPERSEDED" ELSE status[u]]
          /\ \A u \in 1..latest : status[u] \notin Active
      BY <1>1, <1>13 DEF RecordVersion, MayRecord, HasActive, Versions
    <2>2. \A u \in Versions : /\ status[u] = "NONE" <=> u > latest
                              /\ status[u] = "DRAFT" => u = latest
      BY DEF Kept, HistoryInv, Numbered, OnlyNewestUnfinished, Unfinished
    <2>3. \A u \in Versions : status[u] \notin Active
      BY <1>1, <2>1, <2>2 DEF Versions, Active
    <2> HIDE DEF v
    <2>4. Phases[v] = "none" BY <1>1, <1>3, <2>1, <2>2, PhaseIs DEF v
    <2>5. \A u \in Versions : u < v => Phases[u] # "none"
      BY <1>1, <1>3, <2>1, <2>2, PhaseIs DEF v, Statuses, Active, Versions
    <2>6. \A u \in Versions : Phases[u] \notin {"open", "sending"}
      BY <1>1, <1>3, <2>3, PhaseIs DEF Statuses, Active
    <2>7. \A u \in Versions : Phases[u] = "draft" <=> status[u] = "DRAFT"
      BY <1>1, <1>3, PhaseIs DEF Statuses, Active
    <2>8. Phases' = [u \in Versions |-> IF u = v THEN "open" ELSE IF Phases[u] = "draft" THEN "closed" ELSE Phases[u]]
      <3>1. Phases' = [u \in Versions |-> Phase(status'[u])] BY DEF Phases
      <3>2. \A u \in Versions : Phase(status'[u]) =
              IF u = v THEN "open" ELSE IF Phases[u] = "draft" THEN "closed" ELSE Phases[u]
        BY <1>3, <2>1, <2>2, <2>7, PhaseIs
      <3> QED BY <3>1, <3>2
    <2>9. Tolds' = Tolds BY <2>1, ToldStays
    <2>10. Ledger!Open(v) BY <2>4, <2>5, <2>6, <2>8, <2>9 DEF Ledger!Open, Phases, Tolds
    <2> QED BY <2>1, <2>10 DEF Ledger!Next
  <1> QED BY <1>2, <1>5, <1>6, <1>7, <1>8, <1>9, <1>10, <1>11, <1>12, <1>13 DEF Changes

\* The requests, jobs, retries and faults of the service add up to the abstract ledger:
\* versions are opened one after the other, and a version is sent only once everyone has
\* been told.
THEOREM ServiceImplementsLedger == Spec => ImplementsLedger
  <1>1. Init => Ledger!Init
    <2> SUFFICES ASSUME Init PROVE Ledger!Init OBVIOUS
    <2>1. \A v \in Versions : Phase(status[v]) = "none" /\ Told(v) = FALSE BY PhaseIs DEF Init, Told
    <2> QED BY <2>1 DEF Ledger!Init
  <1>2. Kept /\ [Next]_vars => [Ledger!Next]_(Ledger!vars)
    BY LedgerStep
  <1> QED BY <1>1, <1>2, KeptAlways, PTL DEF Spec, ImplementsLedger, Ledger!Spec
=============================================================================
