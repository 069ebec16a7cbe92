--------------------------- MODULE StudentAnalysis ---------------------------
(***************************************************************************)
(* The versions of the AI analysis of one student in one term              *)
(* (modules/student-analyses): the HTTP handlers of StudentAnalysesService *)
(* split at their database and queue calls, the BullMQ jobs that generate  *)
(* and deliver a version, the workers that run them and the synchronous    *)
(* fallbacks that run the same code inside a request.                      *)
(*                                                                         *)
(* A process is a request or a worker; proc[p] is its program counter and  *)
(* the values it read before its last await.  ctx says who awaits the      *)
(* generation or delivery it runs: "auto" and "send" are the synchronous   *)
(* fallbacks, "job" is a worker, "recovery" the worker's failed handler.   *)
(***************************************************************************)
EXTENDS Integers, FiniteSets

CONSTANTS
  Requests,      \* HTTP requests that can be in flight at once
  Workers,       \* executions of the queue processor that can be in flight
  MaxVersions,   \* bound on the versions created
  Keys,          \* idempotency keys of this analysis' clients
  ForeignKeys,   \* the keys among them that another analysis already used
  Sources,       \* contents the student's study data can have (their hashes)
  AiOutputs,     \* what the provider may generate
  Edits,         \* what a lecturer may turn a draft into
  RiskFloor,     \* level the risk score of a source demands (drs, data forced)
  ForcedFloor,   \* level the forced escalation in an output demands
  Levels,        \* urgency levels a sender may confirm
  Matrix,        \* who the escalation matrix addresses at each level
  Attempts,      \* QUEUE_ATTEMPTS
  StallLimit,    \* BullMQ's maxStalledCount
  MaxSends,      \* bound on the commits of one version
  Disturbances,  \* the kinds of faults that occur
  MaxFaults,     \* bound on exceptions, stalls, crashes and evictions
  None

ASSUME BoundsAssumption ==
  /\ MaxVersions \in Nat \ {0}
  /\ Attempts \in Nat \ {0}
  /\ StallLimit \in Nat /\ MaxSends \in Nat /\ MaxFaults \in Nat
ASSUME DataAssumption ==
  /\ Requests \cap Workers = {}
  /\ ForeignKeys \subseteq Keys
  /\ Levels \subseteq 1..4
  /\ AiOutputs \cap Edits = {}
  /\ Disturbances \subseteq {"throw", "redis", "stall", "evict", "crash"}
  /\ None \notin Keys \cup Sources \cup AiOutputs \cup Edits \cup Requests \cup Workers
  /\ RiskFloor \in [Sources -> 1..4]
  /\ ForcedFloor \in [AiOutputs \cup Edits -> 1..4]
  /\ Levels \subseteq DOMAIN Matrix

VARIABLES
  source,     \* the student's study data now
  latest,     \* number of versions created; version v is the v-th
  status, key, hash, output,  \* columns of each version
  alert,      \* level of the alert of the version's last send, 0 if none
  epoch,      \* how often the recipient rows of the version were written
  needs,      \* needsSendDecision
  notified,   \* staff with a notification row of the version
  job,        \* BullMQ's record of each job id
  proc,       \* the requests and the workers
  faults,     \* exceptions, stalls, crashes and evictions so far
  dropped     \* versions one of whose failed handlers threw or died

versionVars == <<latest, status, key, hash, output, alert, epoch, needs>>
faultVars == <<faults, dropped>>
vars == <<source, versionVars, notified, job, proc, faultVars>>

Versions == 1..MaxVersions
Procs == Requests \cup Workers
Outputs == AiOutputs \cup Edits
Staff == UNION {Matrix[l] : l \in Levels}

Active == {"QUEUED", "GENERATING", "SEND_QUEUED"}
Statuses == Active \cup {"DRAFT", "FAILED", "SUPERSEDED", "SENT"}

JobKinds == {"generate", "deliver", "reconcile"}
Jobs == JobKinds \X Versions
NoJob == [st |-> "none", tries |-> 0, stalls |-> 0, owner |-> None]
FreshJob == [NoJob EXCEPT !.st = "waiting"]
JobRecord == [st : {"none", "waiting", "active", "failed", "done"},
              tries : 0..Attempts, stalls : 0..StallLimit,
              owner : Workers \cup {None}]

At(pc, ctx, v) == [pc |-> pc, ctx |-> ctx, ver |-> v, key |-> None, hash |-> None,
                   out |-> None, lvl |-> 0, epoch |-> 0, kind |-> "none"]
Idle == At("idle", "none", 0)
Pcs == {"idle", "record", "enqueue", "gen", "ai", "commit", "push", "read",
        "notify", "finish", "note", "apply", "dismiss", "failed", "undo", "requeue"}
Contexts == {"none", "manual", "auto", "send", "job", "recovery"}
ProcRecord == [pc : Pcs, ctx : Contexts, ver : 0..MaxVersions,
               key : Keys \cup {None}, hash : Sources \cup {None},
               out : Outputs \cup {None}, lvl : Levels \cup {0},
               epoch : 0..MaxSends, kind : JobKinds \cup {"none"}]

VersionsOK ==
  /\ source \in Sources
  /\ latest \in 0..MaxVersions
  /\ status \in [Versions -> Statuses \cup {"NONE"}]
  /\ key \in [Versions -> Keys \cup {None}]
  /\ hash \in [Versions -> Sources \cup {None}]
  /\ output \in [Versions -> Outputs \cup {None}]
  /\ alert \in [Versions -> Levels \cup {0}]
  /\ epoch \in [Versions -> 0..MaxSends]
  /\ needs \in [Versions -> BOOLEAN]
  /\ notified \in [Versions -> SUBSET Staff]
  /\ \A v \in Versions : status[v] = "SEND_QUEUED" => alert[v] \in Levels
  /\ faults \in 0..MaxFaults
  /\ dropped \subseteq Versions

\* A job that will run again has an attempt left, and only a running one is locked.
JobsOK ==
  /\ job \in [Jobs -> JobRecord]
  /\ \A j \in Jobs : /\ job[j].st \in {"waiting", "active"} => job[j].tries < Attempts
                     /\ job[j].owner # None => job[j].st = "active"

ProcsOK ==
  /\ proc \in [Procs -> ProcRecord]
  /\ \A p \in Procs : /\ proc[p].pc \notin {"idle", "record"} => proc[p].ver \in Versions
                      /\ proc[p].pc \in {"commit", "notify", "finish"} => proc[p].lvl \in Levels
                      /\ proc[p].pc = "record" => proc[p].key \in Keys /\ proc[p].hash \in Sources

TypeOK == VersionsOK /\ JobsOK /\ ProcsOK

Init ==
  /\ source \in Sources
  /\ latest = 0
  /\ status = [v \in Versions |-> "NONE"]
  /\ key = [v \in Versions |-> None]
  /\ hash = [v \in Versions |-> None]
  /\ output = [v \in Versions |-> None]
  /\ alert = [v \in Versions |-> 0]
  /\ epoch = [v \in Versions |-> 0]
  /\ needs = [v \in Versions |-> FALSE]
  /\ notified = [v \in Versions |-> {}]
  /\ job = [j \in Jobs |-> NoJob]
  /\ proc = [p \in Procs |-> Idle]
  /\ faults = 0
  /\ dropped = {}

-----------------------------------------------------------------------------
(* Helpers.  An exception, stall, crash or eviction counts as a fault.     *)

Fault(kind) == /\ kind \in Disturbances
               /\ faults < MaxFaults
               /\ faults' = faults + 1

Enter(p, rec) == proc' = [proc EXCEPT ![p] = rec]
Leave(p) == Enter(p, Idle)

\* Queue.add ignores a job whose id it still knows, finished or not; the id of
\* a reconcile job carries a timestamp, so a finished one never hides the next.
Added(j) ==
  IF job[j].st = "none" \/ (j[1] = "reconcile" /\ job[j].st \in {"failed", "done"})
    THEN [job EXCEPT ![j] = FreshJob]
    ELSE job

MyJob(p) == <<proc[p].kind, proc[p].ver>>
HoldsLock(p) == proc[p].kind # "none" /\ job[MyJob(p)].owner = p

\* processGeneration / processDelivery returns to whoever awaits it.
Return(p) ==
  /\ job' = IF proc[p].ctx = "job" /\ HoldsLock(p)
              THEN [job EXCEPT ![MyJob(p)].st = "done", ![MyJob(p)].owner = None]
              ELSE job
  /\ IF proc[p].ctx = "send"
       THEN Enter(p, At("note", "none", proc[p].ver))
       ELSE Leave(p)

\* It throws: BullMQ retries the job or fails it for good and emits "failed";
\* the failed handler goes on to queue a reconcile job; a request ends with an error.
Throw(p) ==
  CASE proc[p].ctx = "job" /\ HoldsLock(p) ->
         LET j == MyJob(p) 
             tries == job[j].tries + 1
         IN IF tries < Attempts
              THEN /\ job' = [job EXCEPT ![j] = [@ EXCEPT !.st = "waiting", !.tries = tries, !.owner = None]]
                   /\ Leave(p)
              ELSE /\ job' = [job EXCEPT ![j] = [@ EXCEPT !.st = "failed", !.tries = tries, !.owner = None]]
                   /\ Enter(p, [At("failed", "recovery", proc[p].ver) EXCEPT !.kind = proc[p].kind])
    [] proc[p].ctx = "recovery" ->
         UNCHANGED job /\ Enter(p, At("requeue", "recovery", proc[p].ver))
    [] OTHER -> UNCHANGED job /\ Leave(p)

\* The processes in gone end with the API process that runs them.  Nothing takes up
\* a version whose failed handler was among them.
Dies(gone) ==
  /\ proc' = [p \in Procs |-> IF p \in gone THEN Idle ELSE proc[p]]
  /\ dropped' = dropped \cup {v \in Versions : \E p \in gone : proc[p].ctx = "recovery" /\ proc[p].ver = v}

\* The processes that can die without a job that BullMQ still counts as running.
Mortal == {p \in Procs : ~HoldsLock(p)}

SystemLevel(h, o) == IF RiskFloor[h] > ForcedFloor[o] THEN RiskFloor[h] ELSE ForcedFloor[o]

-----------------------------------------------------------------------------
(* createVersion and requestAutoAnalysis                                   *)

SameKey(k) == {v \in 1..latest : key[v] = k}

\* A repeated manual request finds its version; one still QUEUED is queued again.
RepeatCreate(r, k) ==
  /\ proc[r].pc = "idle"
  /\ \E v \in SameKey(k) :
       /\ status[v] = "QUEUED"
       /\ Enter(r, At("enqueue", "manual", v))
  /\ UNCHANGED <<source, versionVars, notified, job, faultVars>>

\* Otherwise the request snapshots the study data before its transaction.
BeginCreate(r, k, mode) ==
  /\ proc[r].pc = "idle"
  /\ mode = "manual" => SameKey(k) = {}
  /\ Enter(r, [At("record", mode, 0) EXCEPT !.key = k, !.hash = source])
  /\ UNCHANGED <<source, versionVars, notified, job, faultVars>>

\* Mutant: a version on its way does not count as active.
HasActiveForgetsSending == \E v \in 1..latest : status[v] \in {"QUEUED", "GENERATING"}

HasActive == \E v \in 1..latest : status[v] \in Active
\* Mutant: the first version is never compared.
SentUnchangedSkipsFirst(h) == latest > 1 /\ status[latest] = "SENT" /\ hash[latest] = h

SentUnchanged(h) == latest > 0 /\ status[latest] = "SENT" /\ hash[latest] = h

\* Mutant: the transaction does not look for the key again.
MayRecordAnyKey(r) == ~HasActive /\ ~SentUnchanged(proc[r].hash)

MayRecord(r) ==
  /\ proc[r].key \notin ForeignKeys /\ SameKey(proc[r].key) = {}
  /\ ~HasActive /\ ~SentUnchanged(proc[r].hash)

\* Mutant: the previous draft is not superseded.
RecordVersionKeepsDraft(r) ==
  /\ proc[r].pc = "record" /\ MayRecord(r) /\ latest < MaxVersions
  /\ latest' = latest + 1
  /\ status' = [status EXCEPT ![latest + 1] = "QUEUED"]
  /\ key' = [key EXCEPT ![latest + 1] = proc[r].key]
  /\ hash' = [hash EXCEPT ![latest + 1] = proc[r].hash]
  /\ needs' = [needs EXCEPT ![latest + 1] = (proc[r].ctx = "auto")]
  /\ Enter(r, At("enqueue", proc[r].ctx, latest + 1))
  /\ UNCHANGED <<source, output, alert, epoch, notified, job, faultVars>>

\* The serializable transaction of createVersionRecord.
RecordVersion(r) ==
  /\ proc[r].pc = "record"
  /\ MayRecord(r)
  /\ latest < MaxVersions
  /\ LET v == latest + 1 IN
       /\ latest' = v
       /\ status' = [u \in Versions |->
                       IF u = v THEN "QUEUED"
                       ELSE IF u = latest /\ status[u] = "DRAFT" THEN "SUPERSEDED" ELSE status[u]]
       /\ key' = [key EXCEPT ![v] = proc[r].key]
       /\ hash' = [hash EXCEPT ![v] = proc[r].hash]
       /\ needs' = [needs EXCEPT ![v] = (proc[r].ctx = "auto")]
       /\ Enter(r, At("enqueue", proc[r].ctx, v))
  /\ UNCHANGED <<source, output, alert, epoch, notified, job, faultVars>>

\* The key already made a version: the request goes on with that one.
RecordExists(r) ==
  /\ proc[r].pc = "record"
  /\ proc[r].key \notin ForeignKeys
  /\ \E v \in SameKey(proc[r].key) :
       IF proc[r].ctx = "manual" \/ status[v] = "QUEUED"
         THEN Enter(r, At("enqueue", proc[r].ctx, v))
         ELSE Leave(r)
  /\ UNCHANGED <<source, versionVars, notified, job, faultVars>>

\* IDEMPOTENCY_KEY_REUSED, ACTIVE_ANALYSIS_VERSION or ANALYSIS_SOURCE_UNCHANGED.
RecordRefused(r) ==
  /\ proc[r].pc = "record"
  /\ ~MayRecord(r)
  /\ proc[r].key \in ForeignKeys \/ SameKey(proc[r].key) = {}
  /\ Leave(r)
  /\ UNCHANGED <<source, versionVars, notified, job, faultVars>>

EnqueueGenerate(r) ==
  /\ proc[r].pc = "enqueue"
  /\ job' = Added(<<"generate", proc[r].ver>>)
  /\ Leave(r)
  /\ UNCHANGED <<source, versionVars, notified, faultVars>>

\* Redis fails, perhaps only after it stored the job.  A manual request answers
\* 503; an automatic one generates in the request.
EnqueueFails(r) ==
  /\ proc[r].pc = "enqueue"
  /\ Fault("redis")
  /\ \E stored \in BOOLEAN :
       job' = IF stored THEN Added(<<"generate", proc[r].ver>>) ELSE job
  /\ IF proc[r].ctx = "auto"
       THEN Enter(r, At("gen", "auto", proc[r].ver))
       ELSE Leave(r)
  /\ UNCHANGED <<source, versionVars, notified, dropped>>

-----------------------------------------------------------------------------
(* processGeneration                                                       *)

GenerationStarts(p) ==
  LET v == proc[p].ver IN
  /\ proc[p].pc = "gen"
  /\ IF status[v] \in {"QUEUED", "GENERATING"}
       THEN /\ status' = [status EXCEPT ![v] = "GENERATING"]
            /\ Enter(p, [proc[p] EXCEPT !.pc = "ai"])
            /\ UNCHANGED job
       ELSE Return(p) /\ UNCHANGED status
  /\ UNCHANGED <<source, latest, key, hash, output, alert, epoch, needs, notified, faultVars>>

GenerationEnds(p, o) ==
  LET v == proc[p].ver IN
  /\ proc[p].pc = "ai"
  /\ IF status[v] = "GENERATING"
       THEN status' = [status EXCEPT ![v] = "DRAFT"] /\ output' = [output EXCEPT ![v] = o]
       ELSE UNCHANGED <<status, output>>
  /\ Return(p)
  /\ UNCHANGED <<source, latest, key, hash, alert, epoch, needs, notified, faultVars>>

\* The provider or the database throws under a generation or a delivery.
Throws(p) ==
  /\ proc[p].pc \in {"gen", "ai", "read", "notify", "finish"}
  /\ Fault("throw")
  /\ Throw(p)
  /\ UNCHANGED <<source, versionVars, notified, dropped>>

-----------------------------------------------------------------------------
(* updateDraft, dismissVersion and sendVersion.  Each reads the version,   *)
(* requires a DRAFT and writes later under a condition on the status.      *)

BeginUpdate(r, v, o) ==
  /\ proc[r].pc = "idle" /\ status[v] = "DRAFT"
  /\ Enter(r, [At("apply", "none", v) EXCEPT !.out = o])
  /\ UNCHANGED <<source, versionVars, notified, job, faultVars>>

\* Mutant: the update is keyed by the id alone.
ApplyUpdateAlways(r) ==
  /\ proc[r].pc = "apply"
  /\ output' = [output EXCEPT ![proc[r].ver] = proc[r].out]
  /\ Leave(r)
  /\ UNCHANGED <<source, latest, status, key, hash, alert, epoch, needs, notified, job, faultVars>>

ApplyUpdate(r) ==
  LET v == proc[r].ver IN
  /\ proc[r].pc = "apply"
  /\ output' = IF status[v] = "DRAFT" THEN [output EXCEPT ![v] = proc[r].out] ELSE output
  /\ Leave(r)
  /\ UNCHANGED <<source, latest, status, key, hash, alert, epoch, needs, notified, job, faultVars>>

BeginDismiss(r, v) ==
  /\ proc[r].pc = "idle" /\ status[v] = "DRAFT"
  /\ Enter(r, At("dismiss", "none", v))
  /\ UNCHANGED <<source, versionVars, notified, job, faultVars>>

ApplyDismiss(r) ==
  LET v == proc[r].ver IN
  /\ proc[r].pc = "dismiss"
  /\ needs' = [needs EXCEPT ![v] = @ /\ status[v] # "DRAFT"]
  /\ Leave(r)
  /\ UNCHANGED <<source, latest, status, key, hash, output, alert, epoch, notified, job, faultVars>>

Sending(v) == {r \in Requests : proc[r].pc = "commit" /\ proc[r].ver = v}

\* sendVersion checks the confirmed level against the version it has read.
BeginSend(r, v, l) ==
  /\ proc[r].pc = "idle" /\ status[v] = "DRAFT"
  /\ l >= SystemLevel(hash[v], output[v])
  /\ epoch[v] + Cardinality(Sending(v)) < MaxSends     \* the bound
  /\ Enter(r, [At("commit", "none", v) EXCEPT !.lvl = l])
  /\ UNCHANGED <<source, versionVars, notified, job, faultVars>>

MayCommit(r) ==
  LET v == proc[r].ver IN
  /\ hash[v] = source             \* else STALE_ANALYSIS
  /\ Matrix[proc[r].lvl] # {}     \* else NO_RECIPIENTS
  /\ status[v] = "DRAFT"          \* else ANALYSIS_STATE_CHANGED

\* Mutant: commitSend without its alert.
CommitSendNoAlert(r) ==
  LET v == proc[r].ver IN
  /\ proc[r].pc = "commit"
  /\ MayCommit(r)
  /\ epoch[v] < MaxSends
  /\ status' = [status EXCEPT ![v] = "SEND_QUEUED"]
  /\ epoch' = [epoch EXCEPT ![v] = @ + 1]
  /\ Enter(r, At("push", "none", v))
  /\ UNCHANGED <<source, latest, key, hash, output, alert, needs, notified, job, faultVars>>

\* The serializable transaction of commitSend: alert, transition, recipient rows.
CommitSend(r) ==
  LET v == proc[r].ver IN
  /\ proc[r].pc = "commit"
  /\ MayCommit(r)
  /\ epoch[v] < MaxSends
  /\ status' = [status EXCEPT ![v] = "SEND_QUEUED"]
  /\ alert' = [alert EXCEPT ![v] = proc[r].lvl]
  /\ epoch' = [epoch EXCEPT ![v] = @ + 1]
  /\ Enter(r, At("push", "none", v))
  /\ UNCHANGED <<source, latest, key, hash, output, needs, notified, job, faultVars>>

CommitRefused(r) ==
  /\ proc[r].pc = "commit"
  /\ ~MayCommit(r)
  /\ Leave(r)
  /\ UNCHANGED <<source, versionVars, notified, job, faultVars>>

PushDelivery(r) ==
  /\ proc[r].pc = "push"
  /\ job' = Added(<<"deliver", proc[r].ver>>)
  /\ Enter(r, At("note", "none", proc[r].ver))
  /\ UNCHANGED <<source, versionVars, notified, faultVars>>

\* Redis fails, perhaps only after it stored the job: deliver in the request.
PushFails(r) ==
  /\ proc[r].pc = "push"
  /\ Fault("redis")
  /\ \E stored \in BOOLEAN :
       job' = IF stored THEN Added(<<"deliver", proc[r].ver>>) ELSE job
  /\ Enter(r, At("read", "send", proc[r].ver))
  /\ UNCHANGED <<source, versionVars, notified, dropped>>

\* The last, unconditional update of sendVersion.
NoteSent(r) ==
  /\ proc[r].pc = "note"
  /\ needs' = [needs EXCEPT ![proc[r].ver] = FALSE]
  /\ Leave(r)
  /\ UNCHANGED <<source, latest, status, key, hash, output, alert, epoch, notified, job, faultVars>>

-----------------------------------------------------------------------------
(* processDelivery                                                         *)

DeliveryReads(p) ==
  LET v == proc[p].ver IN
  /\ proc[p].pc = "read"
  /\ IF status[v] = "SEND_QUEUED"
       THEN /\ Enter(p, [proc[p] EXCEPT !.pc = "notify", !.epoch = epoch[v], !.lvl = alert[v]])
            /\ UNCHANGED job
       ELSE Return(p)
  /\ UNCHANGED <<source, versionVars, notified, faultVars>>

\* createMany with skipDuplicates for the recipients read.
DeliveryNotifies(p) ==
  /\ proc[p].pc = "notify"
  /\ notified' = [notified EXCEPT ![proc[p].ver] = @ \cup Matrix[proc[p].lvl]]
  /\ Enter(p, [proc[p] EXCEPT !.pc = "finish"])
  /\ UNCHANGED <<source, versionVars, job, faultVars>>

\* Mutant: rows are linked by recipient, so replaced rows go unnoticed.
RowsGoneUnnoticed(p) == FALSE

RowsGone(p) == epoch[proc[p].ver] # proc[p].epoch

\* The transaction that marks the version SENT and links the recipient rows read
\* before: it rolls back when a later send has replaced those rows.
DeliveryFinishes(p) ==
  LET v == proc[p].ver IN
  /\ proc[p].pc = "finish"
  /\ IF status[v] = "SEND_QUEUED" /\ RowsGone(p)
       THEN Throw(p) /\ UNCHANGED status
       ELSE /\ Return(p)
            /\ status' = IF status[v] = "SEND_QUEUED" THEN [status EXCEPT ![v] = "SENT"] ELSE status
  /\ UNCHANGED <<source, latest, key, hash, output, alert, epoch, needs, notified, faultVars>>

-----------------------------------------------------------------------------
(* The worker and its failed handler                                       *)

WorkerTakes(w, j) ==
  /\ proc[w].pc = "idle"
  /\ job[j].st = "waiting"
  /\ job' = [job EXCEPT ![j] = [@ EXCEPT !.st = "active", !.owner = w]]
  /\ Enter(w, [At(IF j[1] = "generate" THEN "gen" ELSE "read", "job", j[2]) EXCEPT !.kind = j[1]])
  /\ UNCHANGED <<source, versionVars, notified, faultVars>>

\* Mutant: a version that already generates is not marked.
GenerationFailedWhenQueued(w) ==
  LET v == proc[w].ver IN
  /\ proc[w].pc = "failed" /\ proc[w].kind = "generate"
  /\ status' = IF status[v] = "QUEUED" THEN [status EXCEPT ![v] = "FAILED"] ELSE status
  /\ Leave(w)
  /\ UNCHANGED <<source, latest, key, hash, output, alert, epoch, needs, notified, job, faultVars>>

\* onFailed -> markGenerationFailed
GenerationFailed(w) ==
  LET v == proc[w].ver IN
  /\ proc[w].pc = "failed" /\ proc[w].kind = "generate"
  /\ status' = IF status[v] \in {"QUEUED", "GENERATING"} THEN [status EXCEPT ![v] = "FAILED"] ELSE status
  /\ Leave(w)
  /\ UNCHANGED <<source, latest, key, hash, output, alert, epoch, needs, notified, job, faultVars>>

\* Mutant: a version that notified somebody is left to itself.
DeliveryFailedGivesUp(w) ==
  /\ proc[w].pc = "failed" /\ proc[w].kind # "generate"
  /\ Enter(w, IF notified[proc[w].ver] # {} THEN Idle
               ELSE At("undo", "recovery", proc[w].ver))
  /\ UNCHANGED <<source, versionVars, notified, job, faultVars>>

\* onFailed -> markDeliveryFailed counts the notifications: some exist, deliver
\* again; none, put the version back (in a later statement).
DeliveryFailed(w) ==
  LET v == proc[w].ver IN
  /\ proc[w].pc = "failed" /\ proc[w].kind # "generate"
  /\ Enter(w, At(IF notified[v] # {} THEN "read" ELSE "undo", "recovery", v))
  /\ UNCHANGED <<source, versionVars, notified, job, faultVars>>

DeliveryUndone(w) ==
  LET v == proc[w].ver IN
  /\ proc[w].pc = "undo"
  /\ status' = IF status[v] = "SEND_QUEUED" THEN [status EXCEPT ![v] = "DRAFT"] ELSE status
  /\ Leave(w)
  /\ UNCHANGED <<source, latest, key, hash, output, alert, epoch, needs, notified, job, faultVars>>

\* The delivery inside the failed handler threw: a reconcile job takes over.
RequeueDelivery(w) ==
  /\ proc[w].pc = "requeue"
  /\ job' = Added(<<"reconcile", proc[w].ver>>)
  /\ Leave(w)
  /\ UNCHANGED <<source, versionVars, notified, faultVars>>

\* Redis fails under that, perhaps only after it stored the job.  Nobody catches what
\* onFailed throws: the API ends, with whatever else it was running.
RequeueFails(w, gone) ==
  /\ proc[w].pc = "requeue"
  /\ Fault("redis")
  /\ \E stored \in BOOLEAN :
       job' = IF stored THEN Added(<<"reconcile", proc[w].ver>>) ELSE job
  /\ Dies(gone \cup {w})
  /\ UNCHANGED <<source, versionVars, notified>>

\* Likewise when the database fails under markGenerationFailed or markDeliveryFailed.
HandlerThrows(w, gone) ==
  /\ proc[w].pc \in {"failed", "undo"}
  /\ Fault("throw")
  /\ Dies(gone \cup {w})
  /\ UNCHANGED <<source, versionVars, notified, job>>

\* The worker's lock on the job expires: BullMQ hands the job out again, or fails
\* it when it stalled before; attemptsMade is then below attempts, so onFailed
\* returns at once.  The execution that lost the lock may still be running.
JobStalls(j) ==
  /\ job[j].st = "active"
  /\ Fault("stall")
  /\ job' = [job EXCEPT ![j] =
               IF @.stalls < StallLimit
                 THEN [@ EXCEPT !.st = "waiting", !.stalls = job[j].stalls + 1, !.owner = None]
                 ELSE [@ EXCEPT !.st = "failed", !.owner = None]]
  /\ UNCHANGED <<source, versionVars, notified, proc, dropped>>

\* removeOnComplete / removeOnFail: other students' jobs push a finished one out.
JobEvicted(j) ==
  /\ job[j].st \in {"done", "failed"}
  /\ Fault("evict")
  /\ job' = [job EXCEPT ![j] = NoJob]
  /\ UNCHANGED <<source, versionVars, notified, proc, dropped>>

\* The API process dies, or an unexpected exception ends a request; the job of a
\* dead worker stalls first.
Crash(gone) ==
  /\ gone # {} /\ \A p \in gone : proc[p].pc # "idle"
  /\ Fault("crash")
  /\ Dies(gone)
  /\ UNCHANGED <<source, versionVars, notified, job>>

\* Other modules change grades, attendance, evaluations or care logs.
SourceChanges ==
  /\ source' \in Sources \ {source}
  /\ UNCHANGED <<versionVars, notified, job, proc, faultVars>>

-----------------------------------------------------------------------------
Step(p) ==
  \/ GenerationStarts(p) \/ (\E o \in AiOutputs : GenerationEnds(p, o))
  \/ DeliveryReads(p) \/ DeliveryNotifies(p) \/ DeliveryFinishes(p)

RequestStep(r) ==
  \/ RecordVersion(r) \/ RecordExists(r) \/ RecordRefused(r) \/ EnqueueGenerate(r)
  \/ ApplyUpdate(r) \/ ApplyDismiss(r) \/ CommitSend(r) \/ CommitRefused(r)
  \/ PushDelivery(r) \/ NoteSent(r)

WorkerStep(w) ==
  \/ GenerationFailed(w) \/ DeliveryFailed(w) \/ DeliveryUndone(w) \/ RequeueDelivery(w)
  \/ \E j \in Jobs : WorkerTakes(w, j)

Dying(gone) ==
  Crash(gone) \/ \E w \in Workers : RequeueFails(w, gone) \/ HandlerThrows(w, gone)

Arrives(r) ==
  \/ \E k \in Keys : RepeatCreate(r, k) \/ \E mode \in {"manual", "auto"} : BeginCreate(r, k, mode)
  \/ \E v \in Versions :
       \/ \E o \in Edits : BeginUpdate(r, v, o)
       \/ BeginDismiss(r, v)
       \/ \E l \in Levels : BeginSend(r, v, l)

Next ==
  \/ \E p \in Procs : Step(p) \/ Throws(p)
  \/ \E r \in Requests : Arrives(r) \/ RequestStep(r) \/ EnqueueFails(r) \/ PushFails(r)
  \/ \E w \in Workers : WorkerStep(w)
  \/ \E gone \in SUBSET Mortal : Dying(gone)
  \/ \E j \in Jobs : JobStalls(j) \/ JobEvicted(j)
  \/ SourceChanges

Spec == Init /\ [][Next]_vars

\* Node runs every continuation and BullMQ every waiting job; clients, faults,
\* evictions and changes of the data are up to the environment.
Fairness == /\ \A p \in Procs : WF_vars(Step(p))
            /\ \A r \in Requests : WF_vars(RequestStep(r))
            /\ \A w \in Workers : WF_vars(WorkerStep(w))

FairSpec == Spec /\ Fairness

-----------------------------------------------------------------------------
(* Safety                                                                  *)

Unfinished == Active \cup {"DRAFT"}

\* createVersionRecord: whatever requests, jobs and fallbacks overlap, only the
\* newest version is ever queued, generating, a draft or on its way; a failed
\* delivery that falls back to DRAFT finds no successor in its place.
OnlyNewestUnfinished ==
  \A v \in Versions : status[v] \in Unfinished => v = latest

\* createVersionRecord: one idempotency key makes one version, even when the
\* same request arrives twice and both pass the first lookup.
OneVersionPerKey ==
  \A u, v \in 1..latest : key[u] = key[v] => u = v

\* ANALYSIS_SOURCE_UNCHANGED: a version is not sent twice in a row for the same
\* study data, although the snapshot is taken before the transaction.
ResendNeedsNewSource ==
  \A v \in 1..(latest - 1) :
     status[v] = "SENT" /\ status[v + 1] = "SENT" => hash[v] # hash[v + 1]

\* processDelivery: a SENT version has told everyone its last send addressed,
\* although a late execution may finish it with the recipients of an earlier send.
SentToAllRecipients ==
  \A v \in Versions : status[v] = "SENT" => alert[v] \in Levels /\ Matrix[alert[v]] \subseteq notified[v]

\* processGeneration, updateDraft: the content of a version is set once by the
\* provider and then only edited as a draft; a duplicate or late generation
\* never overwrites an edit, and a late edit never changes what is being sent.
ContentOnlyChangesAsDraft ==
  [][\A v \in Versions : output'[v] # output[v] =>
        /\ status'[v] = "DRAFT"
        /\ output[v] = None \/ (status[v] = "DRAFT" /\ output'[v] \in Edits)]_vars

\* The versions as the abstract ledger sees them.
Phase(s) == CASE s = "NONE" -> "none"
              [] s \in {"QUEUED", "GENERATING"} -> "open"
              [] s = "DRAFT" -> "draft"
              [] s = "SEND_QUEUED" -> "sending"
              [] s = "SENT" -> "sent"
              [] OTHER -> "closed"
Told(v) == alert[v] \in Levels /\ Matrix[alert[v]] \subseteq notified[v]

Ledger == INSTANCE AnalysisLedger WITH
            phase <- [v \in Versions |-> Phase(status[v])],
            told  <- [v \in Versions |-> Told(v)]
ImplementsLedger == Ledger!Spec

-----------------------------------------------------------------------------
(* Liveness, for a run with finitely many faults                           *)

\* BullMQ gave the job up for stalling; nobody is told.
StalledOut(j) == job[j].st = "failed" /\ job[j].tries < Attempts

\* The processor and its failed handler: once BullMQ has the generation job, the
\* version becomes a draft or FAILED and the term is free again, unless the job
\* stalls past the limit or the failed handler itself throws, which nothing retries.
GenerationSettles ==
  \A v \in Versions :
     (job[<<"generate", v>>].st = "waiting" /\ status[v] \in {"QUEUED", "GENERATING"})
        ~> (status[v] \notin {"QUEUED", "GENERATING"} \/ StalledOut(<<"generate", v>>)
            \/ v \in dropped)

\* Likewise a delivery whose job BullMQ has ends SENT or back in DRAFT, through
\* as many retries and reconcile jobs as it takes.
DeliverySettles ==
  \A v \in Versions :
     (job[<<"deliver", v>>].st = "waiting" /\ status[v] = "SEND_QUEUED")
        ~> (status[v] # "SEND_QUEUED" \/ (\E k \in JobKinds : StalledOut(<<k, v>>))
            \/ v \in dropped)

-----------------------------------------------------------------------------
(* What the comments and tests of the service say and the code does not do *)

\* commitSend: "every send goes through here" and pushes a delivery job.
EverySendSettles ==
  \A v \in Versions : status[v] = "SEND_QUEUED" ~> status[v] # "SEND_QUEUED"

\* sendVersion: the level of the alert is never below what the system computes
\* from the version that is sent.
AlertNotBelowSystemLevel ==
  \A v \in Versions : status[v] \in {"SEND_QUEUED", "SENT"} =>
     alert[v] >= SystemLevel(hash[v], output[v])

=============================================================================
