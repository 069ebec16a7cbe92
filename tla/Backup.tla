------------------------------- MODULE Backup -------------------------------
(***************************************************************************)
(* Backups of the database and their restoration: BackupService, the       *)
(* pg_dump and pg_restore it starts, and the scheduled job of              *)
(* BackupProcessor.  A task is one request or job; it runs alone up to     *)
(* each await.  The content of the database is the number of the           *)
(* application's last write, or Damaged while a restore replaces it.       *)
(***************************************************************************)
EXTENDS Integers, FiniteSets

CONSTANTS
  Tasks,           \* requests and jobs that can be in progress at once
  MaxFiles,        \* bound on the dumps ever made
  MaxWrites,       \* bound on the content of the database
  MaxRequests,     \* bound on the requests
  MaxMishaps,      \* bound on failing tools, deletions by the administrator and deaths of
                   \*   the API process
  MaxCrashes,      \* bound on the deaths among them
  RetentionCount   \* of the schedule's configuration

ASSUME BackupAssumption ==
  /\ MaxFiles \in Nat \ {0, 1} /\ MaxWrites \in Nat /\ MaxRequests \in Nat
  /\ MaxMishaps \in Nat /\ MaxCrashes \in Nat /\ RetentionCount \in Nat

VARIABLES
  isLocked,
  file,      \* the dumps with their metadata files, numbered in the order they were begun
  made,      \* number of dumps begun
  task,      \* where each request or job stands
  db,        \* content of the database
  undo,      \* snapshot of the last restore that was requested of a whole database and
             \*   emptied it with no other restore at work since the request, and the
             \*   content the database had at the request
  overtaken, \* restores since whose request another restore has worked on the database
  removed,   \* dumps the administrator deleted
  requests, mishaps, crashes

vars == <<isLocked, file, made, task, db, undo, overtaken, removed, requests, mishaps, crashes>>

Files == 1..MaxFiles
Damaged == -1
Contents == Damaged..MaxWrites

\* whole: pg_dump finished it.  type "none": it has no metadata file yet.
NoFile == [there |-> FALSE, whole |-> FALSE, type |-> "none", content |-> 0]
FileRecord == [there : BOOLEAN, whole : BOOLEAN, content : Contents,
               type : {"none", "MANUAL", "SCHEDULED", "PRE_RESTORE"}]

\* own is the dump the task makes, target the one it restores or lists, start the
\* database's content when the restore was requested; spoilt says what a reset or a load
\* by another task did to the tool the task runs, or that a load which ended is partly done.
Idle == [pc |-> "idle", kind |-> "none", own |-> 0, target |-> 0,
         attempt |-> 0, spoilt |-> "no", start |-> 0]
TaskRecord ==
  [pc : {"idle", "dump", "dumping", "hash", "prune", "validate", "resume", "reset", "open",
         "load", "verify", "failed", "lost", "list", "upload"},
   kind : {"none", "MANUAL", "SCHEDULED", "PRE_RESTORE"},
   own : 0..MaxFiles, target : 0..MaxFiles, attempt : 0..2,
   spoilt : {"no", "mixed", "cut", "partly"}, start : Contents]

\* A restore loads its target at most once and its snapshot at most once.
TypeOK ==
  /\ isLocked \in BOOLEAN
  /\ file \in [Files -> FileRecord]
  /\ made \in 0..MaxFiles
  /\ task \in [Tasks -> TaskRecord]
  /\ db \in Contents
  /\ undo \in [file : 0..MaxFiles, least : Contents]
  /\ removed \subseteq Files /\ overtaken \subseteq Tasks
  /\ requests \in 0..MaxRequests /\ mishaps \in 0..MaxMishaps /\ crashes \in 0..MaxCrashes

\* An installation with one manual and one scheduled backup.
Init ==
  /\ isLocked = FALSE
  /\ file = [f \in Files |->
       IF f > 2 THEN NoFile
       ELSE [there |-> TRUE, whole |-> TRUE, content |-> 0,
             type |-> IF f = 1 THEN "SCHEDULED" ELSE "MANUAL"]]
  /\ made = 2
  /\ task = [p \in Tasks |-> Idle]
  /\ db = 0
  /\ undo = [file |-> 0, least |-> 0]
  /\ overtaken = {}
  /\ removed = {}
  /\ requests = 0 /\ mishaps = 0 /\ crashes = 0

-----------------------------------------------------------------------------
Mishap == mishaps < MaxMishaps /\ mishaps' = mishaps + 1

Begin(p, t) ==
  /\ task[p] = Idle /\ requests < MaxRequests
  /\ requests' = requests + 1
  /\ task' = [task EXCEPT ![p] = t]

Dumping == {"dump", "dumping", "hash"}
Making(f) == \E p \in Tasks : task[p].own = f /\ task[p].pc \in Dumping

Restoring(p) == task[p].kind = "PRE_RESTORE"

\* createBackup up to the start of pg_dump, which creates its output file.
StartsDump ==
  /\ made < MaxFiles
  /\ isLocked' = TRUE
  /\ made' = made + 1
  /\ file' = [file EXCEPT ![made + 1] = [NoFile EXCEPT !.there = TRUE]]

Unlinked(f) == [file EXCEPT ![f].there = FALSE]

\* createBackup for a request or for the scheduled job.
BeginBackup(p, type) ==
  /\ ~isLocked
  /\ Begin(p, [Idle EXCEPT !.pc = "dump", !.kind = type, !.own = made + 1])
  /\ StartsDump
  /\ UNCHANGED <<db, undo, overtaken, removed, mishaps, crashes>>

\* pg_dump connects: it sees the database as it is now.
DumpReads(p) ==
  /\ task[p].pc = "dump"
  /\ task' = [task EXCEPT ![p].pc = "dumping"]
  /\ file' = [file EXCEPT ![task[p].own].content = db]
  /\ UNCHANGED <<isLocked, made, db, undo, overtaken, removed, requests, mishaps, crashes>>

DumpEnds(p) ==
  /\ task[p].pc = "dumping" /\ task[p].spoilt # "cut" /\ file[task[p].own].there
  /\ task' = [task EXCEPT ![p].pc = "hash"]
  /\ file' = [file EXCEPT ![task[p].own].whole = TRUE]
  /\ UNCHANGED <<isLocked, made, db, undo, overtaken, removed, requests, mishaps, crashes>>

\* Mutant: a restore takes the failure of its snapshot for a warning.
DumpRefusedOnlyWarns(p) ==
  /\ file' = Unlinked(task[p].own)
  /\ isLocked' = FALSE
  /\ task' = [task EXCEPT ![p] = IF Restoring(p) THEN [@ EXCEPT !.pc = "resume"] ELSE Idle]
  /\ UNCHANGED <<made, db, undo, overtaken, removed, requests, crashes>>

\* createBackup's catch and finally: the unfinished dump goes, the lock is released and
\* the caller gets the error.
DumpRefused(p) ==
  /\ file' = Unlinked(task[p].own)
  /\ isLocked' = FALSE
  /\ task' = [task EXCEPT ![p] = IF Restoring(p) THEN [@ EXCEPT !.pc = "failed"] ELSE Idle]
  /\ UNCHANGED <<made, db, undo, overtaken, removed, requests, crashes>>

\* pg_dump or the checksum fails, the session is cut, or the file was deleted meanwhile.
DumpFails(p) ==
  /\ task[p].pc \in Dumping
  /\ \/ /\ task[p].spoilt = "cut" \/ ~file[task[p].own].there
        /\ UNCHANGED mishaps
     \/ Mishap
  /\ DumpRefused(p)

AfterBackup(t) ==
  CASE t.kind = "PRE_RESTORE" -> [t EXCEPT !.pc = "resume"]
    [] t.kind = "SCHEDULED"   -> [t EXCEPT !.pc = "prune"]
    [] OTHER                  -> Idle

\* The checksum is computed: createBackup writes the metadata and releases the lock.
BackupDone(p) ==
  /\ task[p].pc = "hash"
  /\ file' = [file EXCEPT ![task[p].own].type = task[p].kind]
  /\ isLocked' = FALSE
  /\ task' = [task EXCEPT ![p] = AfterBackup(@)]
  /\ UNCHANGED <<made, db, undo, overtaken, removed, requests, mishaps, crashes>>

Scheduled == {f \in Files : file[f].there /\ file[f].type = "SCHEDULED"}

\* Mutant: retention over every backup of the list.
ToDeleteAnyType ==
  {f \in Files : file[f].there /\ Cardinality({g \in Files : g > f /\ file[g].there}) >= RetentionCount}

\* The scheduled backups beyond the newest RetentionCount.
ToDelete == {f \in Scheduled : Cardinality({g \in Scheduled : g > f}) >= RetentionCount}

\* pruneOldBackups, after a scheduled backup; a deletion that fails is passed over.
Prune(p) ==
  /\ task[p].pc = "prune"
  /\ \E gone \in SUBSET ToDelete :
       /\ file' = [f \in Files |-> IF f \in gone THEN [file[f] EXCEPT !.there = FALSE] ELSE file[f]]
       /\ IF gone = ToDelete THEN UNCHANGED mishaps ELSE Mishap
  /\ task' = [task EXCEPT ![p] = Idle]
  /\ UNCHANGED <<isLocked, made, db, undo, overtaken, removed, requests, crashes>>

-----------------------------------------------------------------------------
\* A request names a backup the list has shown, so its metadata has been written.
Listed(f) == file[f].there /\ file[f].type # "none"

\* restoreBackup checks the lock and looks for the backup; its file is then validated.
BeginRestore(p, f) ==
  /\ ~isLocked /\ Listed(f)
  /\ Begin(p, [Idle EXCEPT !.pc = "validate", !.kind = "PRE_RESTORE", !.target = f, !.start = db])
  /\ UNCHANGED <<isLocked, file, made, db, undo, overtaken, removed, mishaps, crashes>>

\* The file is valid (its table of contents is readable): the lock is taken, released and
\* taken again by createBackup for the snapshot, whoever holds it.
Validated(p) ==
  /\ task[p].pc = "validate" /\ file[task[p].target].there
  /\ task' = [task EXCEPT ![p].pc = "dump", ![p].own = made + 1]
  /\ StartsDump
  /\ UNCHANGED <<db, undo, overtaken, removed, requests, mishaps, crashes>>

\* A restore ends.
Ends(p) == task' = [task EXCEPT ![p] = Idle] /\ overtaken' = overtaken \ {p}

\* The file is gone or unreadable; the lock was not taken.
ValidationFails(p) ==
  /\ task[p].pc = "validate"
  /\ ~(file[task[p].target].there /\ file[task[p].target].whole)
  /\ Ends(p)
  /\ UNCHANGED <<isLocked, file, made, db, undo, removed, requests, mishaps, crashes>>

\* The snapshot is made: the lock is taken back and resetDatabase called.
RestoreResumes(p) ==
  /\ task[p].pc = "resume"
  /\ isLocked' = TRUE
  /\ task' = [task EXCEPT ![p].pc = "reset", ![p].attempt = 1]
  /\ UNCHANGED <<file, made, db, undo, overtaken, removed, requests, mishaps, crashes>>

\* Every other restore in progress is overtaken by what p does to the database.
Overtakes(p) == overtaken' = overtaken \cup {q \in Tasks \ {p} : Restoring(q)}

\* pg_terminate_backend cuts every other session of the database.
Cut(t) == IF t.pc \in {"dumping", "load"} THEN [t EXCEPT !.spoilt = "cut"] ELSE t

\* The schema is dropped and created empty.
Reset(p) ==
  /\ task[p].pc = "reset"
  /\ task' = [q \in Tasks |-> IF q = p THEN [task[p] EXCEPT !.pc = "open"] ELSE Cut(task[q])]
  /\ undo' = IF Damaged \in {db, task[p].start} \/ p \in overtaken THEN undo
             ELSE [file |-> task[p].own, least |-> task[p].start]
  /\ db' = Damaged
  /\ Overtakes(p)
  /\ UNCHANGED <<isLocked, file, made, removed, requests, mishaps, crashes>>

\* The file being loaded: the target first, then the snapshot.
Source(p) == IF task[p].attempt = 1 THEN task[p].target ELSE task[p].own

\* restoreFromFile: pg_restore starts to replace what is in the database.
LoadStarts(p) ==
  /\ task[p].pc = "open" /\ file[Source(p)].there
  /\ LET others == {q \in Tasks \ {p} : task[q].pc = "load"}
         Mix(t) == IF t.spoilt = "no" THEN [t EXCEPT !.spoilt = "mixed"] ELSE t
     IN  task' = [q \in Tasks |->
           IF q = p THEN [task[p] EXCEPT !.pc = "load", !.spoilt = IF others = {} THEN "no" ELSE "mixed"]
           ELSE IF q \in others THEN Mix(task[q])
           ELSE task[q]]
  /\ db' = Damaged
  /\ Overtakes(p)
  /\ UNCHANGED <<isLocked, file, made, undo, removed, requests, mishaps, crashes>>

\* The session is intact and the archive complete.
Loads(p) == task[p].spoilt = "no" /\ file[Source(p)].whole

LoadEnds(p) ==
  /\ task[p].pc = "load" /\ Loads(p)
  /\ task' = [task EXCEPT ![p].pc = "verify"]
  /\ db' = file[Source(p)].content
  /\ Overtakes(p)
  /\ UNCHANGED <<isLocked, file, made, undo, removed, requests, mishaps, crashes>>

\* pg_restore, which runs without --exit-on-error, ends half-way or leaves things out, with
\* the exit code 1 and no "ERROR:" in its output, or by a signal: restoreFromFile takes
\* that for a warning.
LoadStops(p) ==
  /\ task[p].pc = "load"
  /\ IF Loads(p) THEN Mishap ELSE UNCHANGED mishaps
  /\ task' = [task EXCEPT ![p].pc = "verify", ![p].spoilt = "partly"]
  /\ db' = IF task[p].spoilt = "cut" THEN db ELSE Damaged
  /\ Overtakes(p)
  /\ UNCHANGED <<isLocked, file, made, undo, removed, requests, crashes>>

\* Mutant: a rollback that failed is rolled back.
CatchAgain(p) ==
  [task[p] EXCEPT !.pc = IF file[task[p].own].there THEN "reset" ELSE "failed",
                  !.attempt = @ + 1, !.spoilt = "no"]

\* Mutant: the error is reported without a rollback.
CatchReports(p) == [task[p] EXCEPT !.pc = "failed", !.spoilt = "no"]

\* restoreBackup's catch: back to the snapshot if its file exists, once ("lost": that
\* failed too).
Catch(p) ==
  [task[p] EXCEPT
     !.pc = IF task[p].attempt = 2 THEN "lost"
            ELSE IF file[task[p].own].there THEN "reset" ELSE "failed",
     !.attempt = 2, !.spoilt = "no"]

\* The reset, the load or a query fails and is seen to fail: by itself, because the file is
\* missing or truncated, because another task's reset cut the session, or because two loads
\* collide.
RestoreFails(p) ==
  /\ \/ task[p].pc \in {"reset", "open", "load", "verify"} /\ Mishap
     \/ /\ \/ task[p].pc = "open" /\ ~file[Source(p)].there
           \/ task[p].pc = "load" /\ ~Loads(p)
        /\ UNCHANGED mishaps
  /\ task' = [task EXCEPT ![p] = Catch(p)]
  /\ UNCHANGED <<isLocked, file, made, db, undo, overtaken, removed, requests, crashes>>

\* The restore, or its rollback, is through.
RestoreDone(p) ==
  /\ task[p].pc = "verify"
  /\ IF task[p].attempt = 1
     THEN isLocked' = FALSE /\ Ends(p)
     ELSE task' = [task EXCEPT ![p].pc = "failed"] /\ UNCHANGED <<isLocked, overtaken>>
  /\ UNCHANGED <<file, made, db, undo, removed, requests, mishaps, crashes>>

\* Mutant: restoreBackup without its finally.
RestoreThrowsLocked(p) ==
  /\ task[p].pc \in {"failed", "lost"}
  /\ Ends(p)
  /\ UNCHANGED <<isLocked, file, made, db, undo, removed, requests, mishaps, crashes>>

\* restoreBackup throws; its finally releases the lock, whoever holds it.
RestoreThrows(p) ==
  /\ task[p].pc \in {"failed", "lost"}
  /\ isLocked' = FALSE
  /\ Ends(p)
  /\ UNCHANGED <<file, made, db, undo, removed, requests, mishaps, crashes>>

-----------------------------------------------------------------------------
\* listBackups meets a dump without metadata and computes its checksum.
BeginList(p, f) ==
  /\ file[f].there /\ file[f].type = "none"
  /\ Begin(p, [Idle EXCEPT !.pc = "list", !.target = f])
  /\ UNCHANGED <<isLocked, file, made, db, undo, overtaken, removed, mishaps, crashes>>

\* It writes metadata of its own, over what createBackup may have written meanwhile.
ListWrites(p) ==
  /\ task[p].pc = "list"
  /\ file' = [file EXCEPT ![task[p].target].type = "MANUAL"]
  /\ task' = [task EXCEPT ![p] = Idle]
  /\ UNCHANGED <<isLocked, made, db, undo, overtaken, removed, requests, mishaps, crashes>>

\* saveUploadedBackup stores a dump of an earlier state, whole or truncated.
BeginUpload(p, whole) ==
  /\ ~isLocked /\ made < MaxFiles
  /\ Begin(p, [Idle EXCEPT !.pc = "upload", !.own = made + 1])
  /\ made' = made + 1
  /\ file' = [file EXCEPT ![made + 1] = [NoFile EXCEPT !.there = TRUE, !.whole = whole]]
  /\ IF whole THEN UNCHANGED mishaps ELSE Mishap
  /\ UNCHANGED <<isLocked, db, undo, overtaken, removed, crashes>>

\* pg_restore --list reads the table of contents only: it may pass a truncated dump.
UploadEnds(p) ==
  LET f == task[p].own IN
  /\ task[p].pc = "upload"
  /\ \/ file[f].there /\ file' = [file EXCEPT ![f].type = "MANUAL"]
     \/ ~(file[f].there /\ file[f].whole) /\ file' = Unlinked(f)
  /\ task' = [task EXCEPT ![p] = Idle]
  /\ UNCHANGED <<isLocked, made, db, undo, overtaken, removed, requests, mishaps, crashes>>

\* deleteBackup does not look at the lock.
Delete(f) ==
  /\ Listed(f) /\ Mishap
  /\ file' = Unlinked(f)
  /\ removed' = removed \cup {f}
  /\ UNCHANGED <<isLocked, made, task, db, undo, overtaken, requests, crashes>>

\* Any other module writes.
AppWrites ==
  /\ db # Damaged /\ db < MaxWrites
  /\ db' = db + 1
  /\ UNCHANGED <<isLocked, file, made, task, undo, overtaken, removed, requests, mishaps, crashes>>

\* The process dies with its tools; the lock was in its memory.
Crash ==
  /\ crashes < MaxCrashes /\ crashes' = crashes + 1
  /\ Mishap
  /\ task' = [p \in Tasks |-> Idle]
  /\ isLocked' = FALSE /\ overtaken' = {}
  /\ UNCHANGED <<file, made, db, undo, removed, requests>>

Next ==
  \/ \E p \in Tasks :
       \/ \E type \in {"MANUAL", "SCHEDULED"} : BeginBackup(p, type)
       \/ DumpReads(p) \/ DumpEnds(p) \/ DumpFails(p) \/ BackupDone(p) \/ Prune(p)
       \/ \E f \in Files : BeginRestore(p, f) \/ BeginList(p, f)
       \/ Validated(p) \/ ValidationFails(p) \/ RestoreResumes(p)
       \/ Reset(p) \/ LoadStarts(p) \/ LoadEnds(p) \/ LoadStops(p) \/ RestoreFails(p)
       \/ RestoreDone(p) \/ RestoreThrows(p)
       \/ ListWrites(p)
       \/ \E whole \in BOOLEAN : BeginUpload(p, whole)
       \/ UploadEnds(p)
  \/ \E f \in Files : Delete(f)
  \/ AppWrites
  \/ Crash

Spec == Init /\ [][Next]_vars

-----------------------------------------------------------------------------
(* Safety.                                                                 *)

\* While the database is not whole, and after a crash, a failed rollback or a load that
\* stopped half-way unnoticed left it so, the snapshot of the restore that emptied it, of
\* restores that overlap the first, is on the disk, whole, no older than the request and out
\* of reach of the retention policy, unless the administrator deleted it.
SafeCopy ==
  db = Damaged =>
    LET s == file[undo.file] IN
    /\ undo.file # 0
    /\ \/ undo.file \in removed
       \/ /\ s.there /\ s.whole /\ s.type \in {"PRE_RESTORE", "MANUAL"}
          /\ s.content # Damaged /\ s.content >= undo.least

\* A stuck lock would refuse every backup until the API restarts: the lock is held only
\* while a task works, however tasks that overlap take and release it.
LockFreeAtRest == isLocked => \E p \in Tasks : task[p] # Idle

\* A restore that fails leaves everything the database held when it was requested, whatever
\* failed and whatever other tasks did, unless its rollback fails too or the administrator
\* deleted its snapshot; one that succeeds leaves at least its target's content.  Neither
\* holds of a restore another one has overtaken, nor of one whose load stopped half-way
\* while pg_restore's exit code passed for a warning: that one reports success.
RestoreReturns ==
  [][\A p \in Tasks :
       Restoring(p) /\ task'[p] = Idle /\ crashes' = crashes =>
         \/ p \in overtaken \/ task[p].spoilt = "partly" \/ task[p].pc = "lost"
         \/ task[p].pc = "verify" /\ db' >= file[task[p].target].content
         \/ /\ task[p].pc # "verify"
            /\ db' >= task[p].start \/ task[p].own \in removed]_vars

\* A backup createBackup returned, or a whole dump a list gave metadata, disappears only
\* if the administrator deleted it, or if the schedule made it and RetentionCount newer
\* ones of the schedule remain, whatever is dumped, listed and deleted meanwhile.
OnlyOldScheduledPruned ==
  [][\A f \in Files :
       Listed(f) /\ file[f].whole /\ ~Making(f) /\ ~file'[f].there /\ f \notin removed' =>
         /\ file[f].type = "SCHEDULED"
         /\ Cardinality({g \in Scheduled : g > f /\ file'[g].there}) >= RetentionCount]_vars

\* The lock keeps two tasks from working on the database at once.
OneTaskAtATime ==
  Cardinality({p \in Tasks : task[p].pc \in Dumping \cup {"reset", "open", "load"}}) <= 1
=============================================================================
