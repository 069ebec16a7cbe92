--------------------------- MODULE AlertDispatch ---------------------------
(***************************************************************************)
(* How the levels of one alert reach its recipients: each raise or         *)
(* escalation calls NotificationDispatchService.enqueueOrDeliver once,     *)
(* after its transaction; a BullMQ job, the synchronous fallback of the    *)
(* call, or both, execute deliver.                                         *)
(*                                                                         *)
(* Faults are counted, and only the kinds in FaultKinds happen.            *)
(***************************************************************************)
EXTENDS Integers

CONSTANTS
  Recipients,   \* staff
  MinLevel,     \* lowest level at which each is a recipient
  Workers,      \* BullMQ workers of the queue alert-escalation
  Levels,       \* levels the alert may take
  MaxCalls,     \* bound on the calls of enqueueOrDeliver
  Attempts,     \* the job option
  StallLimit,   \* BullMQ's maxStalledCount
  FaultKinds,   \* among "redis", "throw", "stall", "crash"
  MaxFaults,    \* bound on the faults
  None

Calls == 1..MaxCalls
Procs == Calls \cup Workers

ASSUME DispatchAssumption ==
  /\ MinLevel \in [Recipients -> 1..4] /\ Levels \subseteq 1..4
  /\ MaxCalls \in Nat \ {0} /\ Attempts \in Nat \ {0}
  /\ StallLimit \in Nat /\ MaxFaults \in Nat
  /\ None \notin Recipients \cup Workers /\ Workers \cap Calls = {}

VARIABLES
  level,    \* the alert's level, 0 before it is created
  made,     \* number of calls made
  to,       \* recipientIds of each call
  row,      \* the call whose text the notification of each recipient shows, 0 if none
  told,     \* how often each call sent each recipient the event and the mail
  job,      \* the job of each call
  late,     \* calls whose queue.add Redis may still store
  run,      \* executions of deliver: by the call itself and by the workers
  cut,      \* calls that the death of the API process cut short for good
  faults

vars == <<level, made, to, row, told, job, late, run, cut, faults>>

NoJob == [st |-> "none", tries |-> 0, stalls |-> 0, owner |-> None]
JobRecord == [st : {"none", "waiting", "active", "done", "failed"}, tries : 0..Attempts,
              stalls : 0..StallLimit, owner : Workers \cup {None}]

\* got are the recipients whose notification this execution made or refreshed.
Idle == [pc |-> "idle", call |-> 0, got |-> {}]
RunRecord == [pc : {"idle", "add", "insert", "refresh", "tell"}, call : 0..MaxCalls, got : SUBSET Recipients]

\* A job that will run again has an attempt left, and only a running one is locked.
TypeOK ==
  /\ level \in Levels \cup {0} /\ made \in 0..MaxCalls
  /\ to \in [Calls -> SUBSET Recipients]
  /\ row \in [Recipients -> 0..MaxCalls]
  /\ told \in [Calls -> [Recipients -> Nat]]
  /\ job \in [Calls -> JobRecord]
  /\ late \subseteq Calls /\ cut \subseteq Calls
  /\ run \in [Procs -> RunRecord]
  /\ faults \in 0..MaxFaults
  /\ \A n \in Calls :
       /\ job[n].st \in {"waiting", "active"} => job[n].tries > 0
       /\ job[n].st = "active" <=> job[n].owner # None

Init ==
  /\ level = 0 /\ made = 0
  /\ to = [n \in Calls |-> {}]
  /\ row = [r \in Recipients |-> 0]
  /\ told = [n \in Calls |-> [r \in Recipients |-> 0]]
  /\ job = [n \in Calls |-> NoJob]
  /\ late = {} /\ cut = {}
  /\ run = [p \in Procs |-> Idle]
  /\ faults = 0

-----------------------------------------------------------------------------
Fault(kind) == kind \in FaultKinds /\ faults < MaxFaults /\ faults' = faults + 1

Goto(p, pc) == run' = [run EXCEPT ![p].pc = pc]
Ends(p) == run' = [run EXCEPT ![p] = Idle]

\* The first call announces the alert, the later ones its escalations.
Replay(n) == n > 1

Added(n) == [job EXCEPT ![n] = [st |-> "waiting", tries |-> Attempts, stalls |-> 0, owner |-> None]]

\* computeRecipientIds: the groups from their level on, without the raiser.
RecipientIds(l, by) == {r \in Recipients : MinLevel[r] <= l} \ {by}

\* A raise or an upgrade has committed and calls enqueueOrDeliver, unless nobody
\* is to be told.
Announce(l, by) ==
  LET n == made + 1 IN
  /\ n \in Calls /\ l \in Levels /\ l > level
  /\ made' = n
  /\ level' = l
  /\ to' = [to EXCEPT ![n] = RecipientIds(l, by)]
  /\ run' = [run EXCEPT ![n] = IF RecipientIds(l, by) = {} THEN Idle
                                ELSE [pc |-> "add", call |-> n, got |-> {}]]
  /\ UNCHANGED <<row, told, job, late, cut, faults>>

EnqueueStores(n) ==
  /\ run[n].pc = "add"
  /\ job' = Added(n)
  /\ Ends(n)
  /\ UNCHANGED <<level, made, to, row, told, late, cut, faults>>

\* queue.add is refused or exceeds ENQUEUE_TIMEOUT_MS; the job is never stored, is
\* stored already, or still will be.
EnqueueFails(n) ==
  /\ run[n].pc = "add"
  /\ Fault("redis")
  /\ \/ UNCHANGED <<job, late>>
     \/ job' = Added(n) /\ UNCHANGED late
     \/ late' = late \cup {n} /\ UNCHANGED job
  /\ Goto(n, "insert")
  /\ UNCHANGED <<level, made, to, row, told, cut>>

EnqueueStoresLate(n) ==
  /\ n \in late
  /\ late' = late \ {n}
  /\ job' = Added(n)
  /\ UNCHANGED <<level, made, to, row, told, run, cut, faults>>

WorkerTakes(w, n) ==
  /\ run[w].pc = "idle"
  /\ job[n].st = "waiting"
  /\ job' = [job EXCEPT ![n] = [@ EXCEPT !.st = "active", !.owner = w]]
  /\ run' = [run EXCEPT ![w] = [pc |-> "insert", call |-> n, got |-> {}]]
  /\ UNCHANGED <<level, made, to, row, told, late, cut, faults>>

-----------------------------------------------------------------------------
(* deliver                                                                 *)

\* Mutant: everybody is taken for a new recipient.
InsertsForAll(p) ==
  LET n == run[p].call IN
  /\ run[p].pc = "insert"
  /\ row' = [r \in Recipients |-> IF r \in to[n] /\ row[r] = 0 THEN n ELSE row[r]]
  /\ run' = [run EXCEPT ![p].got = to[n], ![p].pc = IF Replay(n) THEN "refresh" ELSE "tell"]
  /\ UNCHANGED <<level, made, to, told, job, late, cut, faults>>

\* createManyAndReturn with skipDuplicates.
Inserts(p) ==
  LET n == run[p].call
      fresh == {r \in to[n] : row[r] = 0}
  IN
  /\ run[p].pc = "insert"
  /\ row' = [r \in Recipients |-> IF r \in fresh THEN n ELSE row[r]]
  /\ run' = [run EXCEPT ![p] = [pc |-> IF Replay(n) THEN "refresh" ELSE "tell", call |-> n, got |-> fresh]]
  /\ UNCHANGED <<level, made, to, told, job, late, cut, faults>>

\* Mutant: refreshed notifications are not returned.
RefreshesSilently(p) ==
  LET n == run[p].call IN
  /\ run[p].pc = "refresh"
  /\ row' = [r \in Recipients |-> IF r \in to[n] \ run[p].got THEN n ELSE row[r]]
  /\ Goto(p, "tell")
  /\ UNCHANGED <<level, made, to, told, job, late, cut, faults>>

\* refreshForReplay: the others' notifications get the new text and are unread.
Refreshes(p) ==
  LET n == run[p].call IN
  /\ run[p].pc = "refresh"
  /\ row' = [r \in Recipients |-> IF r \in to[n] \ run[p].got THEN n ELSE row[r]]
  /\ run' = [run EXCEPT ![p] = [pc |-> "tell", call |-> n, got |-> to[n]]]
  /\ UNCHANGED <<level, made, to, told, job, late, cut, faults>>

\* A job completes or fails only for the worker that holds its lock.
Owns(p) == p \in Workers /\ job[run[p].call].owner = p

\* The SSE event and, from level 2 on, the mail; their own failures are swallowed.
Tells(p) ==
  LET n == run[p].call IN
  /\ run[p].pc = "tell"
  /\ told' = [told EXCEPT ![n] = [r \in Recipients |-> IF r \in run[p].got THEN @[r] + 1 ELSE @[r]]]
  /\ job' = IF Owns(p) THEN [job EXCEPT ![n].st = "done", ![n].owner = None] ELSE job
  /\ Ends(p)
  /\ UNCHANGED <<level, made, to, row, late, cut, faults>>

\* Mutant: the attempts are not counted down to the end.
ThrowsWithoutEnd(p) ==
  LET n == run[p].call IN
  /\ run[p].pc \in {"insert", "refresh"}
  /\ Fault("throw")
  /\ job' = IF Owns(p) THEN [job EXCEPT ![n].st = "waiting", ![n].owner = None, ![n].tries = @ - 1] ELSE job
  /\ Ends(p)
  /\ UNCHANGED <<level, made, to, row, told, late, cut>>

\* The database fails: a job is retried while attempts are left, the fallback throws.
Throws(p) ==
  LET n == run[p].call IN
  /\ run[p].pc \in {"insert", "refresh"}
  /\ Fault("throw")
  /\ job' = IF Owns(p)
              THEN [job EXCEPT ![n].st = IF job[n].tries > 1 THEN "waiting" ELSE "failed",
                               ![n].owner = None, ![n].tries = @ - 1]
              ELSE job
  /\ Ends(p)
  /\ UNCHANGED <<level, made, to, row, told, late, cut>>

-----------------------------------------------------------------------------
\* The lock on a job expires; the execution that lost it may still be running.
Stalled(n) ==
  IF job[n].stalls < StallLimit
    THEN [job EXCEPT ![n].st = "waiting", ![n].owner = None, ![n].stalls = @ + 1]
    ELSE [job EXCEPT ![n].st = "failed", ![n].owner = None]

JobStalls(n) ==
  /\ job[n].st = "active"
  /\ Fault("stall")
  /\ job' = Stalled(n)
  /\ UNCHANGED <<level, made, to, row, told, late, run, cut>>

\* The API process dies under p: only a worker that has not made the last
\* notification yet is made up for, by the stall of its job.
Crash(p) ==
  /\ run[p].pc # "idle"
  /\ Fault("crash")
  /\ cut' = IF p \in Calls \/ run[p].pc = "tell" THEN cut \cup {run[p].call} ELSE cut
  /\ Ends(p)
  /\ UNCHANGED <<level, made, to, row, told, job, late>>

\* The job of a worker that died.
OrphanStalls(n) ==
  /\ job[n].st = "active" /\ run[job[n].owner].call # n
  /\ job' = Stalled(n)
  /\ UNCHANGED <<level, made, to, row, told, late, run, cut, faults>>

Deliver(p) == Inserts(p) \/ Refreshes(p) \/ Tells(p)

Next ==
  \/ \E l \in Levels, by \in Recipients \cup {None} : Announce(l, by)
  \/ \E n \in Calls :
       \/ EnqueueStores(n) \/ EnqueueFails(n) \/ EnqueueStoresLate(n)
       \/ JobStalls(n) \/ OrphanStalls(n)
  \/ \E w \in Workers, n \in Calls : WorkerTakes(w, n)
  \/ \E p \in Procs : Deliver(p) \/ Throws(p) \/ Crash(p)

\* Node continues a request, BullMQ runs waiting jobs and finds orphaned ones.
Fairness ==
  /\ \A n \in Calls : WF_vars(EnqueueStores(n)) /\ WF_vars(OrphanStalls(n))
  /\ \A p \in Procs : WF_vars(Deliver(p))
  /\ \A w \in Workers : WF_vars(\E n \in Calls : WorkerTakes(w, n))

Spec == Init /\ [][Next]_vars /\ Fairness

-----------------------------------------------------------------------------
\* deliver, skipDuplicates: the first announcement mails nobody twice, whichever of
\* the job, its retries, its stalled execution and the fallback run.
AnnouncedOnce == \A r \in Recipients : told[1][r] <= 1

\* enqueueOrDeliver, refreshForReplay: one fault of Redis, the database, the queue
\* or a worker keeps no recipient from being mailed the level, or a later one; only
\* the death of the process can, in the call or between the rows and the mails.
EveryoneTold ==
  \A n \in Calls : \A r \in Recipients :
    r \in to[n] ~> ((\E m \in Calls : m >= n /\ told[m][r] > 0) \/ faults > 1 \/ n \in cut)

-----------------------------------------------------------------------------
\* notification-dispatch.service.ts: a retry of the queue sends no second mail.
RetryMailsOnce == \A n \in Calls : \A r \in Recipients : told[n][r] <= 1
=============================================================================
