---------------------------- MODULE BackupProofs ----------------------------
(***************************************************************************)
(* Proofs about Backup for every number of tasks, dumps, writes, requests, *)
(* mishaps and crashes and every retention.                                *)
(***************************************************************************)
EXTENDS Backup, FiniteSetTheorems, TLAPS

USE BackupAssumption

-----------------------------------------------------------------------------
(* Types.                                                                  *)

\* Names for the fields' sets, which the provers need not see into.
Pcs == {"idle", "dump", "dumping", "hash", "prune", "validate", "resume", "reset", "open",
        "load", "verify", "failed", "lost", "list", "upload"}
Kinds == {"none", "MANUAL", "SCHEDULED", "PRE_RESTORE"}
Numbers == 0..MaxFiles
Attempts == 0..2
Spoils == {"no", "mixed", "cut", "partly"}

LEMMA RecordFields ==
  /\ TaskRecord = [pc : Pcs, kind : Kinds, own : Numbers, target : Numbers, attempt : Attempts,
                   spoilt : Spoils, start : Contents]
  /\ FileRecord = [there : BOOLEAN, whole : BOOLEAN, content : Contents, type : Kinds]
  /\ 0 \in Numbers /\ Files \subseteq Numbers /\ Numbers \subseteq Nat
  /\ \A n \in Numbers : n # 0 => n \in Files
  /\ 0 \in Attempts /\ 1 \in Attempts /\ 2 \in Attempts
  /\ "no" \in Spoils /\ "mixed" \in Spoils /\ "cut" \in Spoils /\ "partly" \in Spoils
  BY DEF TaskRecord, FileRecord, Pcs, Kinds, Numbers, Attempts, Spoils, Files

LEMMA ContentFacts ==
  /\ 0 \in Contents /\ Damaged \in Contents /\ Contents \subseteq Int
  /\ \A c \in Contents : c >= Damaged /\ (c # Damaged => c >= 0)
  /\ \A c \in Contents : c # Damaged /\ c < MaxWrites => c + 1 \in Contents
  BY DEF Contents, Damaged

WithDump == {"dump", "dumping", "hash", "resume", "reset", "open", "load", "verify", "failed", "lost", "upload"}
AfterDump == {"resume", "reset", "open", "load", "verify", "failed", "lost"}
Replacing == {"reset", "open", "load", "verify"}

\* What a task can be doing: which have a dump of their own, which restore.
Work ==
  {t \in TaskRecord :
     /\ t.pc = "idle" => t = Idle
     /\ t.pc \in WithDump => t.own # 0
     /\ t.pc \in {"validate", "list"} => t.target # 0
     /\ t.kind = "PRE_RESTORE" => t.target # 0
     /\ t.pc \in AfterDump \cup {"validate"} => t.kind = "PRE_RESTORE"
     /\ t.kind = "PRE_RESTORE" => t.pc \in AfterDump \cup Dumping \cup {"validate"}
     /\ t.pc \in Dumping => t.kind # "none"
     /\ t.pc \in Replacing => t.attempt \in {1, 2}}

Shape ==
  /\ isLocked \in BOOLEAN
  /\ file \in [Files -> FileRecord]
  /\ made \in Numbers
  /\ task \in [Tasks -> Work]
  /\ db \in Contents
  /\ undo \in [file : Numbers, least : Contents]
  /\ removed \subseteq Files /\ overtaken \subseteq Tasks
  /\ requests \in 0..MaxRequests /\ mishaps \in 0..MaxMishaps /\ crashes \in 0..MaxCrashes

LEMMA IdleIsWork ==
  /\ Idle \in Work /\ Idle.pc = "idle" /\ Idle.kind = "none" /\ Idle.own = 0 /\ Idle.target = 0
  /\ NoFile \in FileRecord /\ NoFile.type = "none"
<1>1. Idle.pc = "idle" /\ Idle.kind = "none" /\ Idle.own = 0 /\ Idle.target = 0 BY DEF Idle
<1>2. Idle \in TaskRecord BY RecordFields, ContentFacts DEF Idle, Pcs, Kinds
<1>3. Idle \in Work
  <2> HIDE DEF Idle
  <2> QED BY <1>1, <1>2 DEF Work, WithDump, AfterDump, Dumping, Replacing
<1>4. NoFile \in FileRecord /\ NoFile.type = "none" BY RecordFields, ContentFacts DEF NoFile, Kinds
<1> QED BY <1>1, <1>3, <1>4

\* A task goes on to another record, the others stay.
LEMMA MoveOK ==
  ASSUME Shape, NEW p \in Tasks, NEW rec \in Work, task' = [task EXCEPT ![p] = rec]
  PROVE  /\ task' \in [Tasks -> Work]
         /\ task'[p] = rec
         /\ \A q \in Tasks : q # p => task'[q] = task[q]
  BY DEF Shape

\* One dump changes.
LEMMA FileOK ==
  ASSUME Shape, NEW f \in Files, NEW rec \in FileRecord, file' = [file EXCEPT ![f] = rec]
  PROVE  /\ file' \in [Files -> FileRecord]
         /\ file'[f] = rec
         /\ \A g \in Files : g # f => file'[g] = file[g]
  BY DEF Shape

LEMMA UnlinkOK ==
  ASSUME Shape, NEW f \in Files, file' = Unlinked(f)
  PROVE  /\ file' \in [Files -> FileRecord]
         /\ ~file'[f].there /\ file'[f].whole = file[f].whole /\ file'[f].type = file[f].type
         /\ file'[f].content = file[f].content
         /\ \A g \in Files : g # f => file'[g] = file[g]
<1> DEFINE row == file[f]
           rec == [row EXCEPT !.there = FALSE]
<1>1. row \in FileRecord BY DEF Shape
<1>2. file' = [file EXCEPT ![f] = rec] BY DEF Unlinked
<1>3. row = file[f] OBVIOUS
<1> HIDE DEF row
<1>4. rec \in FileRecord /\ ~rec.there /\ rec.whole = row.whole /\ rec.type = row.type /\ rec.content = row.content
  BY <1>1, RecordFields
<1> HIDE DEF rec
<1> QED BY <1>2, <1>3, <1>4, FileOK

\* createBackup creates a new file.
LEMMA StartsDumpOK ==
  ASSUME Shape, StartsDump
  PROVE  /\ file' \in [Files -> FileRecord] /\ made' \in Numbers /\ made' = made + 1 /\ made + 1 \in Files
         /\ isLocked' = TRUE
         /\ file'[made + 1].there /\ ~file'[made + 1].whole /\ file'[made + 1].type = "none"
         /\ \A g \in Files : g # made + 1 => file'[g] = file[g]
<1> DEFINE rec == [NoFile EXCEPT !.there = TRUE]
<1>1. made + 1 \in Files /\ made + 1 \in Numbers BY DEF StartsDump, Shape, Numbers, Files
<1>2. rec \in FileRecord /\ rec.there /\ ~rec.whole /\ rec.type = "none"
  BY RecordFields, ContentFacts DEF NoFile, Kinds
<1>3. file' = [file EXCEPT ![made + 1] = rec] BY DEF StartsDump
<1> HIDE DEF rec
<1> QED BY <1>1, <1>2, <1>3, FileOK DEF StartsDump

LEMMA InitOK ==
  ASSUME Init
  PROVE  Shape
<1>1. Idle \in Work BY IdleIsWork
<1>2. \A f \in Files : file[f] \in FileRecord
  <2>1. \A f \in Files :
          LET rec == [there |-> TRUE, whole |-> TRUE, content |-> 0, type |-> IF f = 1 THEN "SCHEDULED" ELSE "MANUAL"]
          IN  rec \in FileRecord
    BY RecordFields, ContentFacts DEF Kinds
  <2> QED BY <2>1, IdleIsWork DEF Init
<1>3. file \in [Files -> FileRecord] BY <1>2 DEF Init
<1>4. 2 \in Numbers BY DEF Numbers
<1>5. undo \in [file : Numbers, least : Contents] BY RecordFields, ContentFacts DEF Init
<1>6. task \in [Tasks -> Work]
  <2> HIDE DEF Idle
  <2> QED BY <1>1 DEF Init
<1>7. db \in Contents BY ContentFacts DEF Init
<1>8. requests \in 0..MaxRequests /\ mishaps \in 0..MaxMishaps /\ crashes \in 0..MaxCrashes
  BY BackupAssumption DEF Init
<1>9. isLocked \in BOOLEAN /\ made \in Numbers /\ removed \subseteq Files /\ overtaken \subseteq Tasks
  BY <1>4 DEF Init
<1> QED BY <1>3, <1>5, <1>6, <1>7, <1>8, <1>9 DEF Shape

-----------------------------------------------------------------------------
(* What each action changes.                                               *)

\* A new request: the task was idle.
LEMMA BeginOK ==
  ASSUME Shape, NEW p \in Tasks, NEW rec \in Work, Begin(p, rec)
  PROVE  /\ task' \in [Tasks -> Work] /\ requests' \in 0..MaxRequests
         /\ task[p] = Idle /\ task'[p] = rec
         /\ \A q \in Tasks : q # p => task'[q] = task[q]
<1>1. task' = [task EXCEPT ![p] = rec] BY DEF Begin
<1> QED BY <1>1, MoveOK DEF Begin, Shape

LEMMA BeginBackupOK ==
  ASSUME Shape, NEW p \in Tasks, NEW type \in {"MANUAL", "SCHEDULED"}, BeginBackup(p, type)
  PROVE  /\ Shape'
         /\ task[p] = Idle /\ task'[p].pc = "dump" /\ task'[p].kind = type /\ task'[p].own = made + 1
         /\ \A q \in Tasks : q # p => task'[q] = task[q]
<1> DEFINE rec == [Idle EXCEPT !.pc = "dump", !.kind = type, !.own = made + 1]
<1>1. /\ file' \in [Files -> FileRecord] /\ made' \in Numbers /\ isLocked' = TRUE /\ made + 1 \in Files
  BY StartsDumpOK DEF BeginBackup
<1>2. rec \in TaskRecord BY <1>1, IdleIsWork, RecordFields DEF Work, Pcs, Kinds
<1>3. rec.pc = "dump" /\ rec.kind = type /\ rec.own = made + 1 /\ rec.target = 0 BY DEF Idle
<1>4. Begin(p, rec) BY DEF BeginBackup
<1> HIDE DEF rec
<1>5. rec.own # 0 BY <1>1, <1>3 DEF Files
<1>6. rec \in Work BY <1>2, <1>3, <1>5 DEF Work, WithDump, AfterDump, Dumping, Replacing
<1>7. /\ task' \in [Tasks -> Work] /\ requests' \in 0..MaxRequests /\ task[p] = Idle /\ task'[p] = rec
      /\ \A q \in Tasks : q # p => task'[q] = task[q]
  BY <1>4, <1>6, BeginOK
<1>8. Shape' BY <1>1, <1>7 DEF BeginBackup, Shape
<1> QED BY <1>3, <1>7, <1>8

LEMMA DumpReadsOK ==
  ASSUME Shape, NEW p \in Tasks, DumpReads(p)
  PROVE  /\ Shape'
         /\ task[p].own \in Files
         /\ task'[p].pc = "dumping"
         /\ task'[p].kind = task[p].kind /\ task'[p].own = task[p].own /\ task'[p].target = task[p].target
         /\ task'[p].attempt = task[p].attempt /\ task'[p].start = task[p].start
         /\ \A q \in Tasks : q # p => task'[q] = task[q]
         /\ LET f == task[p].own IN
            /\ file'[f].content = db /\ file'[f].there = file[f].there /\ file'[f].whole = file[f].whole
            /\ file'[f].type = file[f].type
            /\ \A g \in Files : g # f => file'[g] = file[g]
<1> DEFINE row == task[p]
           rec == [row EXCEPT !.pc = "dumping"]
           f == row.own
           dump == file[f]
           new == [dump EXCEPT !.content = db]
<1>1. row \in Work /\ row \in TaskRecord /\ row.pc = "dump" BY DEF Shape, Work, DumpReads
<1>2. f \in Files BY <1>1, RecordFields DEF Work, WithDump
<1>3. dump \in FileRecord /\ db \in Contents BY <1>2 DEF Shape
<1>4. task' = [task EXCEPT ![p] = rec] /\ file' = [file EXCEPT ![f] = new]
  BY DEF DumpReads
<1>5. row = task[p] /\ dump = file[f] /\ f = row.own OBVIOUS
<1> HIDE DEF row, dump, f
<1>6. /\ rec \in TaskRecord /\ rec.pc = "dumping" /\ rec.kind = row.kind /\ rec.own = row.own
      /\ rec.target = row.target /\ rec.attempt = row.attempt /\ rec.start = row.start
  BY <1>1, RecordFields DEF Pcs
<1>7. /\ new \in FileRecord /\ new.content = db /\ new.there = dump.there /\ new.whole = dump.whole
      /\ new.type = dump.type
  BY <1>3, RecordFields
<1>8. rec \in Work
  <2> HIDE DEF rec
  <2> QED BY <1>1, <1>6 DEF Work, WithDump, AfterDump, Dumping, Replacing
<1> HIDE DEF rec, new
<1>9. /\ task' \in [Tasks -> Work] /\ task'[p] = rec
       /\ \A q \in Tasks : q # p => task'[q] = task[q]
  BY <1>4, <1>8, MoveOK
<1>10. /\ file' \in [Files -> FileRecord] /\ file'[f] = new
       /\ \A g \in Files : g # f => file'[g] = file[g]
  BY <1>2, <1>4, <1>7, FileOK
<1>11. Shape' BY <1>9, <1>10 DEF DumpReads, Shape
<1> QED BY <1>2, <1>5, <1>6, <1>7, <1>9, <1>10, <1>11

LEMMA DumpEndsOK ==
  ASSUME Shape, NEW p \in Tasks, DumpEnds(p)
  PROVE  /\ Shape'
         /\ task[p].own \in Files
         /\ task'[p].pc = "hash"
         /\ task'[p].kind = task[p].kind /\ task'[p].own = task[p].own /\ task'[p].target = task[p].target
         /\ task'[p].attempt = task[p].attempt /\ task'[p].start = task[p].start
         /\ \A q \in Tasks : q # p => task'[q] = task[q]
         /\ LET f == task[p].own IN
            /\ file'[f].whole /\ file'[f].there = file[f].there /\ file'[f].content = file[f].content
            /\ file'[f].type = file[f].type
            /\ \A g \in Files : g # f => file'[g] = file[g]
<1> DEFINE row == task[p]
           rec == [row EXCEPT !.pc = "hash"]
           f == row.own
           dump == file[f]
           new == [dump EXCEPT !.whole = TRUE]
<1>1. row \in Work /\ row \in TaskRecord /\ row.pc = "dumping" BY DEF Shape, Work, DumpEnds
<1>2. f \in Files BY <1>1, RecordFields DEF Work, WithDump
<1>3. dump \in FileRecord BY <1>2 DEF Shape
<1>4. task' = [task EXCEPT ![p] = rec] /\ file' = [file EXCEPT ![f] = new]
  BY DEF DumpEnds
<1>5. row = task[p] /\ dump = file[f] /\ f = row.own OBVIOUS
<1> HIDE DEF row, dump, f
<1>6. /\ rec \in TaskRecord /\ rec.pc = "hash" /\ rec.kind = row.kind /\ rec.own = row.own
      /\ rec.target = row.target /\ rec.attempt = row.attempt /\ rec.start = row.start
  BY <1>1, RecordFields DEF Pcs
<1>7. /\ new \in FileRecord /\ new.whole /\ new.there = dump.there /\ new.content = dump.content
      /\ new.type = dump.type
  BY <1>3, RecordFields
<1>8. rec \in Work
  <2> HIDE DEF rec
  <2> QED BY <1>1, <1>6 DEF Work, WithDump, AfterDump, Dumping, Replacing
<1> HIDE DEF rec, new
<1>9. /\ task' \in [Tasks -> Work] /\ task'[p] = rec
       /\ \A q \in Tasks : q # p => task'[q] = task[q]
  BY <1>4, <1>8, MoveOK
<1>10. /\ file' \in [Files -> FileRecord] /\ file'[f] = new
       /\ \A g \in Files : g # f => file'[g] = file[g]
  BY <1>2, <1>4, <1>7, FileOK
<1>11. Shape' BY <1>9, <1>10 DEF DumpEnds, Shape
<1> QED BY <1>2, <1>5, <1>6, <1>7, <1>9, <1>10, <1>11

LEMMA DumpFailsOK ==
  ASSUME Shape, NEW p \in Tasks, DumpFails(p)
  PROVE  /\ Shape'
         /\ task[p].own \in Files
         /\ Restoring(p) =>
              /\ task'[p].pc = "failed" /\ task'[p].kind = task[p].kind /\ task'[p].own = task[p].own
              /\ task'[p].target = task[p].target /\ task'[p].attempt = task[p].attempt
              /\ task'[p].start = task[p].start
         /\ ~Restoring(p) => task'[p] = Idle
         /\ \A q \in Tasks : q # p => task'[q] = task[q]
         /\ LET f == task[p].own IN
            /\ ~file'[f].there /\ file'[f].whole = file[f].whole /\ file'[f].content = file[f].content
            /\ file'[f].type = file[f].type
            /\ \A g \in Files : g # f => file'[g] = file[g]
<1> DEFINE row == task[p]
           moved == [row EXCEPT !.pc = "failed"]
           rec == IF Restoring(p) THEN moved ELSE Idle
           f == row.own
<1>1. row \in Work /\ row \in TaskRecord /\ row.pc \in Dumping BY DEF Shape, Work, DumpFails
<1>2. f \in Files BY <1>1, RecordFields DEF Work, WithDump, Dumping
<1>3. task' = [task EXCEPT ![p] = rec] /\ file' = Unlinked(f) BY DEF DumpFails, DumpRefused
<1>4. row = task[p] /\ f = row.own /\ (Restoring(p) <=> row.kind = "PRE_RESTORE") BY DEF Restoring
<1> HIDE DEF row, f
<1>5. /\ moved \in TaskRecord /\ moved.pc = "failed" /\ moved.kind = row.kind /\ moved.own = row.own
      /\ moved.target = row.target /\ moved.attempt = row.attempt /\ moved.start = row.start
  BY <1>1, RecordFields DEF Pcs
<1> HIDE DEF moved
<1>6. Restoring(p) => moved \in Work
  BY <1>1, <1>4, <1>5 DEF Work, WithDump, AfterDump, Dumping, Replacing
<1>7. rec \in Work /\ (Restoring(p) => rec = moved) /\ (~Restoring(p) => rec = Idle) BY <1>6, IdleIsWork
<1> HIDE DEF rec
<1>8. /\ task' \in [Tasks -> Work] /\ task'[p] = rec
      /\ \A q \in Tasks : q # p => task'[q] = task[q]
  BY <1>3, <1>7, MoveOK
<1>9. /\ file' \in [Files -> FileRecord]
      /\ ~file'[f].there /\ file'[f].whole = file[f].whole /\ file'[f].type = file[f].type
      /\ file'[f].content = file[f].content
      /\ \A g \in Files : g # f => file'[g] = file[g]
  BY <1>2, <1>3, UnlinkOK
<1>10. mishaps' \in 0..MaxMishaps BY DEF DumpFails, Mishap, Shape
<1>11. Shape' BY <1>8, <1>9, <1>10 DEF DumpFails, DumpRefused, Shape
<1> QED BY <1>2, <1>4, <1>5, <1>7, <1>8, <1>9, <1>11

LEMMA BackupDoneOK ==
  ASSUME Shape, NEW p \in Tasks, BackupDone(p)
  PROVE  /\ Shape'
         /\ task[p].own \in Files
         /\ Restoring(p) =>
              /\ task'[p].pc = "resume" /\ task'[p].kind = task[p].kind /\ task'[p].own = task[p].own
              /\ task'[p].target = task[p].target /\ task'[p].attempt = task[p].attempt
              /\ task'[p].start = task[p].start
         /\ ~Restoring(p) => task'[p].pc \in {"prune", "idle"} /\ task'[p].kind # "PRE_RESTORE"
         /\ task'[p].own \in {0, task[p].own}
         /\ \A q \in Tasks : q # p => task'[q] = task[q]
         /\ LET f == task[p].own IN
            /\ file'[f].type = task[p].kind /\ file'[f].whole = file[f].whole
            /\ file'[f].content = file[f].content /\ file'[f].there = file[f].there
            /\ \A g \in Files : g # f => file'[g] = file[g]
<1> DEFINE row == task[p]
           resumed == [row EXCEPT !.pc = "resume"]
           pruning == [row EXCEPT !.pc = "prune"]
           rec == AfterBackup(row)
           f == row.own
           dump == file[f]
           new == [dump EXCEPT !.type = row.kind]
<1>1. row \in Work /\ row \in TaskRecord /\ row.pc = "hash" BY DEF Shape, Work, BackupDone
<1>2. f \in Files /\ row.kind \in Kinds BY <1>1, RecordFields DEF Work, WithDump
<1>3. dump \in FileRecord BY <1>2 DEF Shape
<1>4. task' = [task EXCEPT ![p] = rec] /\ file' = [file EXCEPT ![f] = new] BY DEF BackupDone
<1>5. row = task[p] /\ f = row.own /\ dump = file[f] /\ (Restoring(p) <=> row.kind = "PRE_RESTORE")
  BY DEF Restoring
<1> HIDE DEF row, f, dump
<1>6. /\ resumed \in TaskRecord /\ resumed.pc = "resume" /\ resumed.kind = row.kind /\ resumed.own = row.own
      /\ resumed.target = row.target /\ resumed.attempt = row.attempt /\ resumed.start = row.start
  BY <1>1, RecordFields DEF Pcs
<1>7. /\ pruning \in TaskRecord /\ pruning.pc = "prune" /\ pruning.kind = row.kind
      /\ pruning.own = row.own
  BY <1>1, RecordFields DEF Pcs
<1>8. /\ new \in FileRecord /\ new.type = row.kind /\ new.whole = dump.whole /\ new.content = dump.content
      /\ new.there = dump.there
  BY <1>2, <1>3, RecordFields
<1>9. /\ row.kind = "PRE_RESTORE" => rec = resumed
      /\ row.kind = "SCHEDULED" => rec = pruning
      /\ row.kind \notin {"PRE_RESTORE", "SCHEDULED"} => rec = Idle
  BY DEF AfterBackup
<1> HIDE DEF resumed, pruning, rec, new
<1>10. /\ row.kind = "PRE_RESTORE" => resumed \in Work
       /\ row.kind = "SCHEDULED" => pruning \in Work
  BY <1>1, <1>6, <1>7 DEF Work, WithDump, AfterDump, Dumping, Replacing
<1>11. rec \in Work BY <1>9, <1>10, IdleIsWork
<1>12. /\ ~Restoring(p) => rec.pc \in {"prune", "idle"} /\ rec.kind # "PRE_RESTORE"
       /\ rec.own \in {0, row.own}
  BY <1>5, <1>6, <1>7, <1>9, IdleIsWork
<1>13. /\ task' \in [Tasks -> Work] /\ task'[p] = rec
       /\ \A q \in Tasks : q # p => task'[q] = task[q]
  BY <1>4, <1>11, MoveOK
<1>14. /\ file' \in [Files -> FileRecord] /\ file'[f] = new
       /\ \A g \in Files : g # f => file'[g] = file[g]
  BY <1>2, <1>4, <1>8, FileOK
<1>15. Shape' BY <1>13, <1>14 DEF BackupDone, Shape
<1> QED BY <1>2, <1>5, <1>6, <1>8, <1>9, <1>12, <1>13, <1>14, <1>15

\* The tasks that become idle.
LEMMA GoesIdle ==
  ASSUME Shape, NEW p \in Tasks, task' = [task EXCEPT ![p] = Idle]
  PROVE  /\ task' \in [Tasks -> Work] /\ task'[p] = Idle
         /\ \A q \in Tasks : q # p => task'[q] = task[q]
  BY MoveOK, IdleIsWork

LEMMA PruneOK ==
  ASSUME Shape, NEW p \in Tasks, Prune(p)
  PROVE  /\ Shape'
         /\ task[p].pc = "prune" /\ task[p].kind # "PRE_RESTORE" /\ task'[p] = Idle
         /\ \A q \in Tasks : q # p => task'[q] = task[q]
         /\ \A g \in Files : /\ file'[g] # file[g] => file[g].type = "SCHEDULED"
                             /\ file'[g].whole = file[g].whole /\ file'[g].type = file[g].type
                             /\ file'[g].content = file[g].content
                             /\ file'[g].there => file[g].there
<1>1. PICK gone \in SUBSET ToDelete :
        /\ file' = [f \in Files |-> IF f \in gone THEN [file[f] EXCEPT !.there = FALSE] ELSE file[f]]
        /\ IF gone = ToDelete THEN UNCHANGED mishaps ELSE Mishap
  BY DEF Prune
<1>2. gone \subseteq Files /\ \A f \in gone : file[f].type = "SCHEDULED" BY DEF ToDelete, Scheduled
<1>3. \A f \in Files : file[f] \in FileRecord BY DEF Shape
<1>4. \A r \in FileRecord :
        LET u == [r EXCEPT !.there = FALSE]
        IN  u \in FileRecord /\ ~u.there /\ u.whole = r.whole /\ u.type = r.type /\ u.content = r.content
  BY RecordFields
<1>5. /\ file' \in [Files -> FileRecord]
      /\ \A g \in Files : /\ file'[g] # file[g] => file[g].type = "SCHEDULED"
                          /\ file'[g].whole = file[g].whole /\ file'[g].type = file[g].type
                          /\ file'[g].content = file[g].content
                          /\ file'[g].there => file[g].there
  BY <1>1, <1>2, <1>3, <1>4
<1>6. task' \in [Tasks -> Work] /\ task'[p] = Idle /\ \A q \in Tasks : q # p => task'[q] = task[q]
  BY GoesIdle DEF Prune
<1>7. mishaps' \in 0..MaxMishaps BY <1>1 DEF Mishap, Shape
<1>8. Shape' BY <1>5, <1>6, <1>7 DEF Prune, Shape
<1>9. task[p].pc = "prune" /\ task[p] \in Work BY DEF Prune, Shape
<1>10. task[p].kind # "PRE_RESTORE" BY <1>9 DEF Work, AfterDump, Dumping
<1> QED BY <1>5, <1>6, <1>8, <1>9, <1>10

LEMMA BeginRestoreOK ==
  ASSUME Shape, NEW p \in Tasks, NEW f \in Files, BeginRestore(p, f)
  PROVE  /\ Shape'
         /\ task[p] = Idle /\ task'[p].pc = "validate" /\ task'[p].kind = "PRE_RESTORE"
         /\ task'[p].own = 0 /\ task'[p].start = db
         /\ \A q \in Tasks : q # p => task'[q] = task[q]
<1> DEFINE rec == [Idle EXCEPT !.pc = "validate", !.kind = "PRE_RESTORE", !.target = f, !.start = db]
<1>1. db \in Contents BY DEF Shape
<1>2. rec \in TaskRecord BY <1>1, IdleIsWork, RecordFields DEF Work, Pcs, Kinds
<1>3. /\ rec.pc = "validate" /\ rec.kind = "PRE_RESTORE" /\ rec.target = f /\ rec.own = 0
      /\ rec.start = db
  BY DEF Idle
<1>4. Begin(p, rec) BY DEF BeginRestore
<1> HIDE DEF rec
<1>5. rec.target # 0 BY <1>3 DEF Files
<1>6. rec \in Work BY <1>2, <1>3, <1>5 DEF Work, WithDump, AfterDump, Dumping, Replacing
<1>7. /\ task' \in [Tasks -> Work] /\ requests' \in 0..MaxRequests /\ task[p] = Idle /\ task'[p] = rec
      /\ \A q \in Tasks : q # p => task'[q] = task[q]
  BY <1>4, <1>6, BeginOK
<1>8. Shape' BY <1>7 DEF BeginRestore, Shape
<1> QED BY <1>3, <1>7, <1>8

LEMMA ValidatedOK ==
  ASSUME Shape, NEW p \in Tasks, Validated(p)
  PROVE  /\ Shape'
         /\ task[p].kind = "PRE_RESTORE" /\ task'[p].pc = "dump" /\ task'[p].kind = task[p].kind
         /\ task'[p].own = made + 1 /\ task'[p].target = task[p].target
         /\ task'[p].attempt = task[p].attempt /\ task'[p].start = task[p].start
         /\ \A q \in Tasks : q # p => task'[q] = task[q]
<1> DEFINE row == task[p]
           rec == [row EXCEPT !.pc = "dump", !.own = made + 1]
<1>1. row \in Work /\ row \in TaskRecord /\ row.pc = "validate" BY DEF Shape, Work, Validated
<1>2. row.kind = "PRE_RESTORE" BY <1>1 DEF Work
<1>3. /\ file' \in [Files -> FileRecord] /\ made' \in Numbers /\ isLocked' = TRUE /\ made + 1 \in Files
  BY StartsDumpOK DEF Validated
<1>4. task' = [task EXCEPT ![p] = rec] BY DEF Validated
<1>5. row = task[p] OBVIOUS
<1> HIDE DEF row
<1>6. /\ rec \in TaskRecord /\ rec.pc = "dump" /\ rec.kind = row.kind /\ rec.own = made + 1
      /\ rec.target = row.target /\ rec.attempt = row.attempt /\ rec.start = row.start
  BY <1>1, <1>3, RecordFields DEF Pcs
<1> HIDE DEF rec
<1>7. rec.own # 0 BY <1>3, <1>6 DEF Files
<1>8. rec \in Work BY <1>1, <1>2, <1>6, <1>7 DEF Work, WithDump, AfterDump, Dumping, Replacing
<1>9. /\ task' \in [Tasks -> Work] /\ task'[p] = rec
      /\ \A q \in Tasks : q # p => task'[q] = task[q]
  BY <1>4, <1>8, MoveOK
<1>10. Shape' BY <1>3, <1>9 DEF Validated, Shape
<1> QED BY <1>2, <1>5, <1>6, <1>9, <1>10

LEMMA ValidationFailsOK ==
  ASSUME Shape, NEW p \in Tasks, ValidationFails(p)
  PROVE  Shape' /\ task'[p] = Idle /\ \A q \in Tasks : q # p => task'[q] = task[q]
<1>1. task' \in [Tasks -> Work] /\ task'[p] = Idle /\ \A q \in Tasks : q # p => task'[q] = task[q]
  BY GoesIdle DEF ValidationFails, Ends
<1> QED BY <1>1 DEF ValidationFails, Ends, Shape

LEMMA RestoreResumesOK ==
  ASSUME Shape, NEW p \in Tasks, RestoreResumes(p)
  PROVE  /\ Shape'
         /\ task'[p].pc = "reset" /\ task'[p].kind = task[p].kind /\ task'[p].own = task[p].own
         /\ task'[p].target = task[p].target /\ task'[p].attempt = 1 /\ task'[p].start = task[p].start
         /\ \A q \in Tasks : q # p => task'[q] = task[q]
<1> DEFINE row == task[p]
           rec == [row EXCEPT !.pc = "reset", !.attempt = 1]
<1>1. row \in Work /\ row \in TaskRecord /\ row.pc = "resume" BY DEF Shape, Work, RestoreResumes
<1>2. task' = [task EXCEPT ![p] = rec] BY DEF RestoreResumes
<1>3. row = task[p] OBVIOUS
<1> HIDE DEF row
<1>4. /\ rec \in TaskRecord /\ rec.pc = "reset" /\ rec.kind = row.kind /\ rec.own = row.own
      /\ rec.target = row.target /\ rec.attempt = 1 /\ rec.start = row.start
  BY <1>1, RecordFields DEF Pcs
<1> HIDE DEF rec
<1>5. rec \in Work BY <1>1, <1>4 DEF Work, WithDump, AfterDump, Dumping, Replacing
<1>6. /\ task' \in [Tasks -> Work] /\ task'[p] = rec
      /\ \A q \in Tasks : q # p => task'[q] = task[q]
  BY <1>2, <1>5, MoveOK
<1>7. Shape' BY <1>6 DEF RestoreResumes, Shape
<1> QED BY <1>3, <1>4, <1>6, <1>7

\* A reset cuts the tools of the others, and changes nothing else of them.
LEMMA CutOK ==
  \A t \in Work : /\ Cut(t) \in Work /\ Cut(t).pc = t.pc /\ Cut(t).kind = t.kind /\ Cut(t).own = t.own
                  /\ Cut(t).target = t.target /\ Cut(t).attempt = t.attempt /\ Cut(t).start = t.start
<1> SUFFICES ASSUME NEW t \in Work
             PROVE  /\ Cut(t) \in Work /\ Cut(t).pc = t.pc /\ Cut(t).kind = t.kind /\ Cut(t).own = t.own
                    /\ Cut(t).target = t.target /\ Cut(t).attempt = t.attempt /\ Cut(t).start = t.start
  OBVIOUS
<1> DEFINE u == [t EXCEPT !.spoilt = "cut"]
<1>1. t \in TaskRecord BY DEF Work
<1>2. /\ u \in TaskRecord /\ u.pc = t.pc /\ u.kind = t.kind /\ u.own = t.own
      /\ u.target = t.target /\ u.attempt = t.attempt /\ u.start = t.start
  BY <1>1, RecordFields
<1>3. Cut(t) = t \/ (t.pc \in {"dumping", "load"} /\ Cut(t) = u) BY DEF Cut
<1> HIDE DEF u
<1>4. t.pc \in {"dumping", "load"} => u \in Work
  BY <1>2 DEF Work, WithDump, AfterDump, Dumping, Replacing
<1> QED BY <1>2, <1>3, <1>4

\* A reset after which the snapshot to go back to stays the one it was.
Keeps(p) == Damaged \in {db, task[p].start} \/ p \in overtaken

LEMMA ResetOK ==
  ASSUME Shape, NEW p \in Tasks, Reset(p)
  PROVE  /\ Shape'
         /\ task[p].kind = "PRE_RESTORE" /\ task[p].own \in Files
         /\ task'[p].pc = "open"
         /\ \A q \in Tasks : /\ task'[q].kind = task[q].kind /\ task'[q].own = task[q].own
                             /\ task'[q].target = task[q].target /\ task'[q].attempt = task[q].attempt
                             /\ task'[q].start = task[q].start
                             /\ q # p => task'[q].pc = task[q].pc
                             /\ q # p /\ task[q].pc \notin {"dumping", "load"} => task'[q] = task[q]
         /\ Keeps(p) => undo' = undo
         /\ ~Keeps(p) => undo'.file = task[p].own /\ undo'.least = task[p].start
<1> DEFINE row == task[p]
           rec == [row EXCEPT !.pc = "open"]
           new == [file |-> row.own, least |-> row.start]
<1>1. row \in Work /\ row \in TaskRecord /\ row.pc = "reset" BY DEF Shape, Work, Reset
<1>2. row.kind = "PRE_RESTORE" /\ row.own \in Files BY <1>1, RecordFields DEF Work, WithDump, AfterDump
<1>3. task' = [q \in Tasks |-> IF q = p THEN rec ELSE Cut(task[q])] BY DEF Reset
<1>4. undo' = IF Keeps(p) THEN undo ELSE new BY DEF Reset, Keeps
<1>5. row = task[p] OBVIOUS
<1> HIDE DEF row
<1>6. /\ rec \in TaskRecord /\ rec.pc = "open" /\ rec.kind = row.kind /\ rec.own = row.own
      /\ rec.target = row.target /\ rec.attempt = row.attempt /\ rec.start = row.start
  BY <1>1, RecordFields DEF Pcs
<1>7. new \in [file : Numbers, least : Contents] /\ new.file = row.own /\ new.least = row.start
  BY <1>1, RecordFields
<1> HIDE DEF rec, new
<1>8. rec \in Work BY <1>1, <1>6 DEF Work, WithDump, AfterDump, Dumping, Replacing
<1>9. \A q \in Tasks : task[q] \in Work BY DEF Shape
<1>10. task' \in [Tasks -> Work] /\ task'[p] = rec /\ \A q \in Tasks : q # p => task'[q] = Cut(task[q])
  BY <1>3, <1>8, <1>9, CutOK
<1>11. undo' \in [file : Numbers, least : Contents] BY <1>4, <1>7 DEF Shape
<1>12. db' = Damaged /\ db' \in Contents /\ overtaken' \subseteq Tasks
  BY ContentFacts DEF Reset, Overtakes, Shape
<1>13. Shape' BY <1>10, <1>11, <1>12 DEF Reset, Shape
<1>14. \A q \in Tasks : /\ task'[q].kind = task[q].kind /\ task'[q].own = task[q].own
                        /\ task'[q].target = task[q].target /\ task'[q].attempt = task[q].attempt
                        /\ task'[q].start = task[q].start
                        /\ q # p => task'[q].pc = task[q].pc
                        /\ q # p /\ task[q].pc \notin {"dumping", "load"} => task'[q] = task[q]
  <2> TAKE q \in Tasks
  <2>1. CASE q = p BY <2>1, <1>5, <1>6, <1>10
  <2>2. CASE q # p
    <3>1. task[q].pc \notin {"dumping", "load"} => Cut(task[q]) = task[q] BY DEF Cut
    <3> QED BY <2>2, <3>1, <1>9, <1>10, CutOK
  <2> QED BY <2>1, <2>2
<1> QED BY <1>2, <1>4, <1>5, <1>6, <1>7, <1>10, <1>13, <1>14

LEMMA LoadStartsOK ==
  ASSUME Shape, NEW p \in Tasks, LoadStarts(p)
  PROVE  /\ Shape'
         /\ task[p].kind = "PRE_RESTORE" /\ task'[p].pc = "load"
         /\ \A q \in Tasks : /\ task'[q].kind = task[q].kind /\ task'[q].own = task[q].own
                             /\ task'[q].target = task[q].target /\ task'[q].attempt = task[q].attempt
                             /\ task'[q].start = task[q].start
                             /\ q # p => task'[q].pc = task[q].pc
                             /\ q # p /\ task[q].pc # "load" => task'[q] = task[q]
<1> DEFINE others == {q \in Tasks \ {p} : task[q].pc = "load"}
           Mixed(t) == IF t.spoilt = "no" THEN [t EXCEPT !.spoilt = "mixed"] ELSE t
           row == task[p]
           mark == IF others = {} THEN "no" ELSE "mixed"
           rec == [row EXCEPT !.pc = "load", !.spoilt = mark]
<1>1. row \in Work /\ row \in TaskRecord /\ row.pc = "open" BY DEF Shape, Work, LoadStarts
<1>2. row.kind = "PRE_RESTORE" BY <1>1 DEF Work, AfterDump
<1>3. task' = [q \in Tasks |-> IF q = p THEN rec ELSE IF q \in others THEN Mixed(task[q]) ELSE task[q]]
  BY DEF LoadStarts
<1>4. row = task[p] /\ mark \in Spoils BY RecordFields
<1> HIDE DEF row, mark
<1>5. /\ rec \in TaskRecord /\ rec.pc = "load" /\ rec.kind = row.kind /\ rec.own = row.own
      /\ rec.target = row.target /\ rec.attempt = row.attempt /\ rec.start = row.start
  BY <1>1, <1>4, RecordFields DEF Pcs
<1> HIDE DEF rec
<1>6. rec \in Work BY <1>1, <1>5 DEF Work, WithDump, AfterDump, Dumping, Replacing
<1>7. \A q \in Tasks : task[q] \in Work BY DEF Shape
<1>8. \A t \in Work : t.pc = "load" =>
        /\ Mixed(t) \in Work /\ Mixed(t).pc = t.pc /\ Mixed(t).kind = t.kind /\ Mixed(t).own = t.own
        /\ Mixed(t).target = t.target /\ Mixed(t).attempt = t.attempt /\ Mixed(t).start = t.start
  <2> SUFFICES ASSUME NEW t \in Work, t.pc = "load"
               PROVE  /\ Mixed(t) \in Work /\ Mixed(t).pc = t.pc /\ Mixed(t).kind = t.kind
                      /\ Mixed(t).own = t.own /\ Mixed(t).target = t.target
                      /\ Mixed(t).attempt = t.attempt /\ Mixed(t).start = t.start
    OBVIOUS
  <2> DEFINE u == [t EXCEPT !.spoilt = "mixed"]
  <2>1. t \in TaskRecord BY DEF Work
  <2>2. /\ u \in TaskRecord /\ u.pc = t.pc /\ u.kind = t.kind /\ u.own = t.own
        /\ u.target = t.target /\ u.attempt = t.attempt /\ u.start = t.start
    BY <2>1, RecordFields
  <2>3. Mixed(t) \in {t, u} OBVIOUS
  <2> HIDE DEF u, Mixed
  <2>4. u \in Work BY <2>2 DEF Work, WithDump, AfterDump, Dumping, Replacing
  <2> QED BY <2>2, <2>3, <2>4
<1>9. \A q \in others : task[q].pc = "load" /\ q \in Tasks /\ q # p OBVIOUS
<1> HIDE DEF others, Mixed
<1>10. /\ task' \in [Tasks -> Work] /\ task'[p] = rec
       /\ \A q \in Tasks : q # p => task'[q] = IF q \in others THEN Mixed(task[q]) ELSE task[q]
  BY <1>3, <1>6, <1>7, <1>8, <1>9
<1>11. db' \in Contents /\ overtaken' \subseteq Tasks BY ContentFacts DEF LoadStarts, Overtakes, Shape
<1>12. Shape' BY <1>10, <1>11 DEF LoadStarts, Shape
<1>13. \A q \in Tasks : /\ task'[q].kind = task[q].kind /\ task'[q].own = task[q].own
                        /\ task'[q].target = task[q].target /\ task'[q].attempt = task[q].attempt
                        /\ task'[q].start = task[q].start
                        /\ q # p => task'[q].pc = task[q].pc
                        /\ q # p /\ task[q].pc # "load" => task'[q] = task[q]
  <2> TAKE q \in Tasks
  <2>1. CASE q = p BY <2>1, <1>4, <1>5, <1>10
  <2>2. CASE q # p BY <2>2, <1>7, <1>8, <1>9, <1>10
  <2> QED BY <2>1, <2>2
<1> QED BY <1>2, <1>4, <1>5, <1>10, <1>12, <1>13

LEMMA SourceIsFile ==
  ASSUME Shape, NEW p \in Tasks, task[p].pc \in Replacing
  PROVE  Source(p) \in Files /\ task[p].kind = "PRE_RESTORE" /\ task[p].own \in Files /\ task[p].target \in Files
<1>1. task[p] \in Work /\ task[p] \in TaskRecord BY DEF Shape, Work
<1>2. /\ task[p].kind = "PRE_RESTORE" /\ task[p].own # 0 /\ task[p].target # 0
      /\ task[p].own \in Numbers /\ task[p].target \in Numbers
  BY <1>1, RecordFields DEF Work, WithDump, AfterDump, Replacing
<1> QED BY <1>2, RecordFields DEF Source

LEMMA LoadEndsOK ==
  ASSUME Shape, NEW p \in Tasks, LoadEnds(p)
  PROVE  /\ Shape'
         /\ task[p].kind = "PRE_RESTORE" /\ task'[p].pc = "verify" /\ task'[p].kind = task[p].kind
         /\ task'[p].own = task[p].own /\ task'[p].target = task[p].target
         /\ task'[p].attempt = task[p].attempt /\ task'[p].start = task[p].start
         /\ \A q \in Tasks : q # p => task'[q] = task[q]
<1> DEFINE row == task[p]
           rec == [row EXCEPT !.pc = "verify"]
<1>1. row \in Work /\ row \in TaskRecord /\ row.pc = "load" BY DEF Shape, Work, LoadEnds
<1>2. row.kind = "PRE_RESTORE" /\ Source(p) \in Files BY <1>1, SourceIsFile DEF Replacing
<1>3. task' = [task EXCEPT ![p] = rec] BY DEF LoadEnds
<1>4. row = task[p] OBVIOUS
<1> HIDE DEF row
<1>5. /\ rec \in TaskRecord /\ rec.pc = "verify" /\ rec.kind = row.kind /\ rec.own = row.own
      /\ rec.target = row.target /\ rec.attempt = row.attempt /\ rec.start = row.start
  BY <1>1, RecordFields DEF Pcs
<1> HIDE DEF rec
<1>6. rec \in Work BY <1>1, <1>5 DEF Work, WithDump, AfterDump, Dumping, Replacing
<1>7. /\ task' \in [Tasks -> Work] /\ task'[p] = rec
      /\ \A q \in Tasks : q # p => task'[q] = task[q]
  BY <1>3, <1>6, MoveOK
<1>8. file[Source(p)] \in FileRecord BY <1>2 DEF Shape
<1>9. db' \in Contents /\ overtaken' \subseteq Tasks
  BY <1>8, RecordFields, ContentFacts DEF LoadEnds, Overtakes, Shape
<1>10. Shape' BY <1>7, <1>9 DEF LoadEnds, Shape
<1> QED BY <1>2, <1>4, <1>5, <1>7, <1>10

LEMMA LoadStopsOK ==
  ASSUME Shape, NEW p \in Tasks, LoadStops(p)
  PROVE  /\ Shape'
         /\ task[p].kind = "PRE_RESTORE" /\ task'[p].pc = "verify" /\ task'[p].kind = task[p].kind
         /\ task'[p].own = task[p].own /\ task'[p].target = task[p].target
         /\ task'[p].attempt = task[p].attempt /\ task'[p].start = task[p].start
         /\ task'[p].spoilt = "partly"
         /\ \A q \in Tasks : q # p => task'[q] = task[q]
<1> DEFINE row == task[p]
           rec == [row EXCEPT !.pc = "verify", !.spoilt = "partly"]
<1>1. row \in Work /\ row \in TaskRecord /\ row.pc = "load" BY DEF Shape, Work, LoadStops
<1>2. row.kind = "PRE_RESTORE" /\ Source(p) \in Files BY <1>1, SourceIsFile DEF Replacing
<1>3. task' = [task EXCEPT ![p] = rec] BY DEF LoadStops
<1>4. row = task[p] OBVIOUS
<1> HIDE DEF row
<1>5. /\ rec \in TaskRecord /\ rec.pc = "verify" /\ rec.kind = row.kind /\ rec.own = row.own
      /\ rec.target = row.target /\ rec.attempt = row.attempt /\ rec.start = row.start
      /\ rec.spoilt = "partly"
  BY <1>1, RecordFields DEF Pcs
<1> HIDE DEF rec
<1>6. rec \in Work BY <1>1, <1>5 DEF Work, WithDump, AfterDump, Dumping, Replacing
<1>7. /\ task' \in [Tasks -> Work] /\ task'[p] = rec
      /\ \A q \in Tasks : q # p => task'[q] = task[q]
  BY <1>3, <1>6, MoveOK
<1>8. mishaps' \in 0..MaxMishaps BY DEF LoadStops, Mishap, Shape
<1>9. db' \in Contents /\ overtaken' \subseteq Tasks BY ContentFacts DEF LoadStops, Overtakes, Shape
<1>10. Shape' BY <1>7, <1>8, <1>9 DEF LoadStops, Shape
<1> QED BY <1>2, <1>4, <1>5, <1>7, <1>10

LEMMA RestoreFailsOK ==
  ASSUME Shape, NEW p \in Tasks, RestoreFails(p)
  PROVE  /\ Shape'
         /\ task[p].pc \in Replacing /\ task[p].kind = "PRE_RESTORE" /\ task[p].own \in Files
         /\ task[p].attempt = 2 => task'[p].pc = "lost"
         /\ task[p].attempt # 2 => task'[p].pc = IF file[task[p].own].there THEN "reset" ELSE "failed"
         /\ task'[p].kind = task[p].kind
         /\ task'[p].own = task[p].own /\ task'[p].target = task[p].target
         /\ task'[p].attempt = 2 /\ task'[p].start = task[p].start
         /\ \A q \in Tasks : q # p => task'[q] = task[q]
<1> DEFINE row == task[p]
           next == IF row.attempt = 2 THEN "lost" ELSE IF file[row.own].there THEN "reset" ELSE "failed"
           rec == [row EXCEPT !.pc = next, !.attempt = 2, !.spoilt = "no"]
<1>1. row \in Work /\ row \in TaskRecord /\ row.pc \in Replacing
  BY DEF Shape, Work, RestoreFails, Replacing
<1>2. row.kind = "PRE_RESTORE" /\ row.own \in Files BY <1>1, SourceIsFile
<1>3. task' = [task EXCEPT ![p] = rec] BY DEF RestoreFails, Catch
<1>4. row = task[p] /\ next \in {"lost", "reset", "failed"} /\ (row.attempt = 2 => next = "lost")
      /\ (row.attempt # 2 => next = IF file[row.own].there THEN "reset" ELSE "failed")
  OBVIOUS
<1> HIDE DEF row, next
<1>5. /\ rec \in TaskRecord /\ rec.pc = next /\ rec.kind = row.kind /\ rec.own = row.own
      /\ rec.target = row.target /\ rec.attempt = 2 /\ rec.start = row.start
  <2>1. next \in Pcs BY <1>4 DEF Pcs
  <2> QED BY <2>1, <1>1, RecordFields
<1> HIDE DEF rec
<1>6. rec \in Work BY <1>1, <1>4, <1>5 DEF Work, WithDump, AfterDump, Dumping, Replacing
<1>7. /\ task' \in [Tasks -> Work] /\ task'[p] = rec
      /\ \A q \in Tasks : q # p => task'[q] = task[q]
  BY <1>3, <1>6, MoveOK
<1>8. mishaps' \in 0..MaxMishaps BY DEF RestoreFails, Mishap, Shape
<1>9. Shape' BY <1>7, <1>8 DEF RestoreFails, Shape
<1> QED BY <1>1, <1>2, <1>4, <1>5, <1>7, <1>9

LEMMA RestoreDoneOK ==
  ASSUME Shape, NEW p \in Tasks, RestoreDone(p)
  PROVE  /\ Shape'
         /\ task[p].pc = "verify" /\ task[p].kind = "PRE_RESTORE" /\ task[p].own \in Files
         /\ task[p].attempt = 1 => task'[p] = Idle
         /\ task[p].attempt # 1 =>
              /\ task[p].attempt = 2
              /\ task'[p].pc = "failed" /\ task'[p].kind = task[p].kind
              /\ task'[p].own = task[p].own /\ task'[p].target = task[p].target
              /\ task'[p].attempt = task[p].attempt /\ task'[p].start = task[p].start
              /\ task'[p].spoilt = task[p].spoilt
         /\ \A q \in Tasks : q # p => task'[q] = task[q]
<1> DEFINE row == task[p]
           moved == [row EXCEPT !.pc = "failed"]
           rec == IF row.attempt = 1 THEN Idle ELSE moved
<1>1. row \in Work /\ row \in TaskRecord /\ row.pc = "verify" BY DEF Shape, Work, RestoreDone
<1>2. row.kind = "PRE_RESTORE" /\ row.own \in Files BY <1>1, SourceIsFile DEF Replacing
<1>3. row.attempt \in {1, 2} BY <1>1 DEF Work, Replacing
<1>4. task' = [task EXCEPT ![p] = rec] BY DEF RestoreDone, Ends
<1>5. row = task[p] OBVIOUS
<1> HIDE DEF row
<1>6. /\ moved \in TaskRecord /\ moved.pc = "failed" /\ moved.kind = row.kind /\ moved.own = row.own
      /\ moved.target = row.target /\ moved.attempt = row.attempt /\ moved.start = row.start
      /\ moved.spoilt = row.spoilt
  BY <1>1, RecordFields DEF Pcs
<1> HIDE DEF moved
<1>7. moved \in Work BY <1>1, <1>6 DEF Work, WithDump, AfterDump, Dumping, Replacing
<1>8. rec \in Work /\ (row.attempt = 1 => rec = Idle) /\ (row.attempt # 1 => rec = moved)
  BY <1>7, IdleIsWork
<1> HIDE DEF rec
<1>9. /\ task' \in [Tasks -> Work] /\ task'[p] = rec
      /\ \A q \in Tasks : q # p => task'[q] = task[q]
  BY <1>4, <1>8, MoveOK
<1>10. isLocked' \in BOOLEAN /\ overtaken' \subseteq Tasks BY DEF RestoreDone, Ends, Shape
<1>11. Shape' BY <1>9, <1>10 DEF RestoreDone, Shape
<1> QED BY <1>1, <1>2, <1>3, <1>5, <1>6, <1>8, <1>9, <1>11

LEMMA RestoreThrowsOK ==
  ASSUME Shape, NEW p \in Tasks, RestoreThrows(p)
  PROVE  Shape' /\ task'[p] = Idle /\ \A q \in Tasks : q # p => task'[q] = task[q]
<1>1. task' \in [Tasks -> Work] /\ task'[p] = Idle /\ \A q \in Tasks : q # p => task'[q] = task[q]
  BY GoesIdle DEF RestoreThrows, Ends
<1> QED BY <1>1 DEF RestoreThrows, Ends, Shape

LEMMA BeginListOK ==
  ASSUME Shape, NEW p \in Tasks, NEW f \in Files, BeginList(p, f)
  PROVE  /\ Shape'
         /\ task[p] = Idle /\ task'[p].pc = "list" /\ task'[p].kind = "none" /\ task'[p].own = 0
         /\ \A q \in Tasks : q # p => task'[q] = task[q]
<1> DEFINE rec == [Idle EXCEPT !.pc = "list", !.target = f]
<1>1. rec \in TaskRecord BY IdleIsWork, RecordFields DEF Work, Pcs
<1>2. rec.pc = "list" /\ rec.kind = "none" /\ rec.target = f /\ rec.own = 0 BY DEF Idle
<1>3. Begin(p, rec) BY DEF BeginList
<1> HIDE DEF rec
<1>4. rec.target # 0 BY <1>2 DEF Files
<1>5. rec \in Work BY <1>1, <1>2, <1>4 DEF Work, WithDump, AfterDump, Dumping, Replacing
<1>6. /\ task' \in [Tasks -> Work] /\ requests' \in 0..MaxRequests /\ task[p] = Idle /\ task'[p] = rec
      /\ \A q \in Tasks : q # p => task'[q] = task[q]
  BY <1>3, <1>5, BeginOK
<1>7. Shape' BY <1>6 DEF BeginList, Shape
<1> QED BY <1>2, <1>6, <1>7

LEMMA ListWritesOK ==
  ASSUME Shape, NEW p \in Tasks, ListWrites(p)
  PROVE  /\ Shape'
         /\ task[p].target \in Files /\ task[p].kind # "PRE_RESTORE" /\ task'[p] = Idle
         /\ \A q \in Tasks : q # p => task'[q] = task[q]
         /\ LET f == task[p].target IN
            /\ file'[f].type = "MANUAL" /\ file'[f].there = file[f].there /\ file'[f].whole = file[f].whole
            /\ file'[f].content = file[f].content
            /\ \A g \in Files : g # f => file'[g] = file[g]
<1> DEFINE f == task[p].target
           dump == file[f]
           new == [dump EXCEPT !.type = "MANUAL"]
<1>1. task[p] \in Work /\ task[p].pc = "list" BY DEF Shape, ListWrites
<1>2. f \in Files /\ task[p].kind # "PRE_RESTORE" BY <1>1, RecordFields DEF Work, AfterDump, Dumping
<1>3. dump \in FileRecord BY <1>2 DEF Shape
<1>4. file' = [file EXCEPT ![f] = new] BY DEF ListWrites
<1>5. dump = file[f] /\ f = task[p].target OBVIOUS
<1> HIDE DEF dump, f
<1>6. /\ new \in FileRecord /\ new.type = "MANUAL" /\ new.there = dump.there /\ new.whole = dump.whole
      /\ new.content = dump.content
  BY <1>3, RecordFields DEF Kinds
<1> HIDE DEF new
<1>7. /\ file' \in [Files -> FileRecord] /\ file'[f] = new
      /\ \A g \in Files : g # f => file'[g] = file[g]
  BY <1>2, <1>4, <1>6, FileOK
<1>8. task' \in [Tasks -> Work] /\ task'[p] = Idle /\ \A q \in Tasks : q # p => task'[q] = task[q]
  BY GoesIdle DEF ListWrites
<1>9. Shape' BY <1>7, <1>8 DEF ListWrites, Shape
<1> QED BY <1>2, <1>5, <1>6, <1>7, <1>8, <1>9

LEMMA BeginUploadOK ==
  ASSUME Shape, NEW p \in Tasks, NEW whole \in BOOLEAN, BeginUpload(p, whole)
  PROVE  /\ Shape'
         /\ task[p] = Idle /\ task'[p].pc = "upload" /\ task'[p].kind = "none"
         /\ task'[p].own = made + 1 /\ made' = made + 1 /\ made + 1 \in Files
         /\ \A q \in Tasks : q # p => task'[q] = task[q]
         /\ \A g \in Files : g # made + 1 => file'[g] = file[g]
<1> DEFINE rec == [Idle EXCEPT !.pc = "upload", !.own = made + 1]
           new == [NoFile EXCEPT !.there = TRUE, !.whole = whole]
<1>1. made + 1 \in Files /\ made + 1 \in Numbers BY DEF BeginUpload, Shape, Numbers, Files
<1>2. rec \in TaskRecord BY <1>1, IdleIsWork, RecordFields DEF Work, Pcs
<1>3. rec.pc = "upload" /\ rec.kind = "none" /\ rec.own = made + 1 /\ rec.target = 0 BY DEF Idle
<1>4. Begin(p, rec) /\ file' = [file EXCEPT ![made + 1] = new] BY DEF BeginUpload
<1>5. new \in FileRecord BY IdleIsWork, RecordFields
<1> HIDE DEF rec, new
<1>6. rec.own # 0 BY <1>1, <1>3 DEF Files
<1>7. rec \in Work BY <1>2, <1>3, <1>6 DEF Work, WithDump, AfterDump, Dumping, Replacing
<1>8. /\ task' \in [Tasks -> Work] /\ requests' \in 0..MaxRequests /\ task[p] = Idle /\ task'[p] = rec
      /\ \A q \in Tasks : q # p => task'[q] = task[q]
  BY <1>4, <1>7, BeginOK
<1>9. file' \in [Files -> FileRecord] /\ \A g \in Files : g # made + 1 => file'[g] = file[g]
  BY <1>1, <1>4, <1>5, FileOK
<1>10. mishaps' \in 0..MaxMishaps BY DEF BeginUpload, Mishap, Shape
<1>11. Shape' BY <1>1, <1>8, <1>9, <1>10 DEF BeginUpload, Shape
<1> QED BY <1>1, <1>3, <1>8, <1>9, <1>11 DEF BeginUpload

LEMMA UploadEndsOK ==
  ASSUME Shape, NEW p \in Tasks, UploadEnds(p)
  PROVE  /\ Shape'
         /\ task[p].own \in Files /\ task[p].kind # "PRE_RESTORE" /\ task'[p] = Idle
         /\ \A q \in Tasks : q # p => task'[q] = task[q]
         /\ LET f == task[p].own IN
            /\ file'[f].content = file[f].content /\ file'[f].whole = file[f].whole
            /\ \A g \in Files : g # f => file'[g] = file[g]
<1> DEFINE f == task[p].own
           dump == file[f]
           new == [dump EXCEPT !.type = "MANUAL"]
<1>1. task[p] \in Work /\ task[p].pc = "upload" BY DEF Shape, UploadEnds
<1>2. f \in Files /\ task[p].kind # "PRE_RESTORE"
  BY <1>1, RecordFields DEF Work, WithDump, AfterDump, Dumping
<1>3. dump \in FileRecord BY <1>2 DEF Shape
<1>4. file' = [file EXCEPT ![f] = new] \/ file' = Unlinked(f) BY DEF UploadEnds
<1>5. dump = file[f] /\ f = task[p].own OBVIOUS
<1> HIDE DEF dump, f
<1>6. new \in FileRecord /\ new.whole = dump.whole /\ new.content = dump.content
  BY <1>3, RecordFields DEF Kinds
<1> HIDE DEF new
<1>7. /\ file' \in [Files -> FileRecord]
      /\ file'[f].content = file[f].content /\ file'[f].whole = file[f].whole
      /\ \A g \in Files : g # f => file'[g] = file[g]
  <2>1. CASE file' = [file EXCEPT ![f] = new] BY <2>1, <1>2, <1>5, <1>6, FileOK
  <2>2. CASE file' = Unlinked(f) BY <2>2, <1>2, UnlinkOK
  <2> QED BY <2>1, <2>2, <1>4
<1>8. task' \in [Tasks -> Work] /\ task'[p] = Idle /\ \A q \in Tasks : q # p => task'[q] = task[q]
  BY GoesIdle DEF UploadEnds
<1>9. Shape' BY <1>7, <1>8 DEF UploadEnds, Shape
<1> QED BY <1>2, <1>5, <1>7, <1>8, <1>9

LEMMA DeleteOK ==
  ASSUME Shape, NEW f \in Files, Delete(f)
  PROVE  /\ Shape' /\ file[f].there /\ f \in removed' /\ removed \subseteq removed'
         /\ file'[f].whole = file[f].whole /\ file'[f].type = file[f].type
         /\ file'[f].content = file[f].content
         /\ \A g \in Files : g # f => file'[g] = file[g]
<1>1. /\ file' \in [Files -> FileRecord]
      /\ file'[f].whole = file[f].whole /\ file'[f].type = file[f].type
      /\ file'[f].content = file[f].content
      /\ \A g \in Files : g # f => file'[g] = file[g]
  BY UnlinkOK DEF Delete
<1>2. removed' \subseteq Files /\ f \in removed' /\ removed \subseteq removed' BY DEF Delete, Shape
<1>3. mishaps' \in 0..MaxMishaps BY DEF Delete, Mishap, Shape
<1>4. Shape' BY <1>1, <1>2, <1>3 DEF Delete, Shape
<1> QED BY <1>1, <1>2, <1>4 DEF Delete, Listed

LEMMA AppWritesOK ==
  ASSUME Shape, AppWrites
  PROVE  Shape' /\ db # Damaged /\ db' # Damaged /\ db' = db + 1
<1>1. db' \in Contents /\ db' # Damaged
  BY ContentFacts DEF AppWrites, Shape, Contents, Damaged
<1> QED BY <1>1 DEF AppWrites, Shape

LEMMA CrashOK ==
  ASSUME Shape, Crash
  PROVE  Shape' /\ \A q \in Tasks : task'[q] = Idle
<1>1. task' \in [Tasks -> Work] /\ \A q \in Tasks : task'[q] = Idle
  <2> HIDE DEF Idle
  <2> QED BY IdleIsWork DEF Crash
<1>2. crashes' \in 0..MaxCrashes /\ mishaps' \in 0..MaxMishaps /\ overtaken' \subseteq Tasks
  BY BackupAssumption DEF Crash, Mishap, Shape
<1> QED BY <1>1, <1>2 DEF Crash, Shape

\* Every step is one of these.
Steps(p) ==
  \/ \E type \in {"MANUAL", "SCHEDULED"} : BeginBackup(p, type)
  \/ DumpReads(p) \/ DumpEnds(p) \/ DumpFails(p) \/ BackupDone(p) \/ Prune(p)
  \/ \E f \in Files : BeginRestore(p, f) \/ BeginList(p, f)
  \/ Validated(p) \/ ValidationFails(p) \/ RestoreResumes(p)
  \/ Reset(p) \/ LoadStarts(p) \/ LoadEnds(p) \/ LoadStops(p) \/ RestoreFails(p)
  \/ RestoreDone(p) \/ RestoreThrows(p) \/ ListWrites(p)
  \/ \E whole \in BOOLEAN : BeginUpload(p, whole)
  \/ UploadEnds(p)

LEMMA NextIsSteps ==
  ASSUME Next
  PROVE  (\E p \in Tasks : Steps(p)) \/ (\E f \in Files : Delete(f)) \/ AppWrites \/ Crash
  BY Zenon DEF Next, Steps

LEMMA NextKeepsShape ==
  ASSUME Shape, [Next]_vars
  PROVE  Shape'
<1>1. CASE UNCHANGED vars BY <1>1 DEF vars, Shape
<1>2. ASSUME NEW p \in Tasks, Steps(p) PROVE Shape'
  <2>1. CASE \E type \in {"MANUAL", "SCHEDULED"} : BeginBackup(p, type) BY <2>1, BeginBackupOK
  <2>2. CASE DumpReads(p) BY <2>2, DumpReadsOK
  <2>3. CASE DumpEnds(p) BY <2>3, DumpEndsOK
  <2>4. CASE DumpFails(p) BY <2>4, DumpFailsOK
  <2>5. CASE BackupDone(p) BY <2>5, BackupDoneOK
  <2>6. CASE Prune(p) BY <2>6, PruneOK
  <2>7. CASE \E f \in Files : BeginRestore(p, f) \/ BeginList(p, f)
    BY <2>7, BeginRestoreOK, BeginListOK
  <2>8. CASE Validated(p) BY <2>8, ValidatedOK
  <2>9. CASE ValidationFails(p) BY <2>9, ValidationFailsOK
  <2>10. CASE RestoreResumes(p) BY <2>10, RestoreResumesOK
  <2>11. CASE Reset(p) BY <2>11, ResetOK
  <2>12. CASE LoadStarts(p) BY <2>12, LoadStartsOK
  <2>13. CASE LoadEnds(p) \/ LoadStops(p) BY <2>13, LoadEndsOK, LoadStopsOK
  <2>14. CASE RestoreFails(p) BY <2>14, RestoreFailsOK
  <2>15. CASE RestoreDone(p) BY <2>15, RestoreDoneOK
  <2>16. CASE RestoreThrows(p) BY <2>16, RestoreThrowsOK
  <2>17. CASE ListWrites(p) BY <2>17, ListWritesOK
  <2>18. CASE \E whole \in BOOLEAN : BeginUpload(p, whole) BY <2>18, BeginUploadOK
  <2>19. CASE UploadEnds(p) BY <2>19, UploadEndsOK
  <2> QED BY <1>2, <2>1, <2>2, <2>3, <2>4, <2>5, <2>6, <2>7, <2>8, <2>9, <2>10, <2>11, <2>12, <2>13,
             <2>14, <2>15, <2>16, <2>17, <2>18, <2>19 DEF Steps
<1>3. ASSUME NEW f \in Files, Delete(f) PROVE Shape' BY <1>3, DeleteOK
<1>4. CASE AppWrites BY <1>4, AppWritesOK
<1>5. CASE Crash BY <1>5, CrashOK
<1> QED BY <1>1, <1>2, <1>3, <1>4, <1>5, NextIsSteps

LEMMA ShapeAlways == Spec => []Shape
<1>1. Init => Shape BY InitOK
<1>2. Shape /\ [Next]_vars => Shape' BY NextKeepsShape
<1> QED BY <1>1, <1>2, PTL DEF Spec

\* Every reachable state is well-typed: an idle task has no record of its last request, a
\* restore never works without the dump it made and the file it restores.
THEOREM TypeCorrect == Spec => []TypeOK
<1>1. Shape => TypeOK BY DEF Shape, TypeOK, Work, Numbers
<1> QED BY <1>1, ShapeAlways, PTL

-----------------------------------------------------------------------------
(* The lock.                                                               *)

Holds == {"dump", "dumping", "hash", "reset", "open", "load", "verify", "failed", "lost"}

\* However tasks that overlap take and release it, the lock is held only while one of them
\* is on a stretch that ends with its release.
Held == isLocked => \E q \in Tasks : task[q].pc \in Holds

LEMMA NextKeepsHeld ==
  ASSUME Shape, Held, [Next]_vars
  PROVE  Held'
<1> USE DEF Held
<1>1. CASE UNCHANGED vars BY <1>1 DEF vars
<1>2. ASSUME NEW p \in Tasks, Steps(p) PROVE Held'
  <2>0. Idle.pc \notin Holds BY IdleIsWork DEF Holds
  <2>1. CASE \E type \in {"MANUAL", "SCHEDULED"} : BeginBackup(p, type) BY <2>1, BeginBackupOK DEF Holds
  <2>2. CASE DumpReads(p) BY <2>2, DumpReadsOK DEF DumpReads, Holds
  <2>3. CASE DumpEnds(p) BY <2>3, DumpEndsOK DEF DumpEnds, Holds
  <2>4. CASE DumpFails(p) BY <2>4 DEF DumpFails, DumpRefused
  <2>5. CASE BackupDone(p) BY <2>5 DEF BackupDone
  <2>6. CASE Prune(p) BY <2>6, PruneOK DEF Prune, Holds
  <2>7. CASE \E f \in Files : BeginRestore(p, f) \/ BeginList(p, f)
    BY <2>0, <2>7, BeginRestoreOK, BeginListOK DEF BeginRestore, BeginList
  <2>8. CASE Validated(p) BY <2>8, ValidatedOK DEF Holds
  <2>9. CASE ValidationFails(p) BY <2>9, ValidationFailsOK DEF ValidationFails, Holds
  <2>10. CASE RestoreResumes(p) BY <2>10, RestoreResumesOK DEF Holds
  <2>11. CASE Reset(p) BY <2>11, ResetOK DEF Holds
  <2>12. CASE LoadStarts(p) BY <2>12, LoadStartsOK DEF Holds
  <2>13. CASE LoadEnds(p) \/ LoadStops(p) BY <2>13, LoadEndsOK, LoadStopsOK DEF Holds
  <2>14. CASE RestoreFails(p)
    <3>1. task'[p].pc \in Holds BY <2>14, RestoreFailsOK DEF Holds
    <3> QED BY <3>1
  <2>15. CASE RestoreDone(p)
    <3>1. CASE task[p].attempt = 1 BY <2>15, <3>1 DEF RestoreDone
    <3>2. CASE task[p].attempt # 1
      <4>1. task'[p].pc \in Holds BY <2>15, <3>2, RestoreDoneOK DEF Holds
      <4> QED BY <4>1
    <3> QED BY <3>1, <3>2
  <2>16. CASE RestoreThrows(p) BY <2>16 DEF RestoreThrows
  <2>17. CASE ListWrites(p) BY <2>17, ListWritesOK DEF ListWrites, Holds
  <2>18. CASE \E whole \in BOOLEAN : BeginUpload(p, whole) BY <2>18 DEF BeginUpload
  <2>19. CASE UploadEnds(p) BY <2>19, UploadEndsOK DEF UploadEnds, Holds
  <2> QED BY <1>2, <2>1, <2>2, <2>3, <2>4, <2>5, <2>6, <2>7, <2>8, <2>9, <2>10, <2>11, <2>12, <2>13,
             <2>14, <2>15, <2>16, <2>17, <2>18, <2>19 DEF Steps
<1>3. ASSUME NEW f \in Files, Delete(f) PROVE Held' BY <1>3 DEF Delete
<1>4. CASE AppWrites BY <1>4 DEF AppWrites
<1>5. CASE Crash BY <1>5 DEF Crash
<1> QED BY <1>1, <1>2, <1>3, <1>4, <1>5, NextIsSteps

\* The lock cannot be left behind: it is held only while some task is at work, for any
\* number of overlapping backups, restores, uploads, lists, deletions and failures.
THEOREM LockIsReleased == Spec => []LockFreeAtRest
<1>1. Init => Held BY DEF Init, Held
<1>2. Shape /\ Held /\ [Next]_vars => Held' BY NextKeepsHeld
<1>3. Held => LockFreeAtRest
  <2>1. Idle.pc \notin Holds BY IdleIsWork DEF Holds
  <2> QED BY <2>1 DEF Held, LockFreeAtRest
<1> QED BY <1>1, <1>2, <1>3, ShapeAlways, PTL DEF Spec

-----------------------------------------------------------------------------
(* Who may change a dump.                                                  *)

Writing == {"dump", "dumping", "hash", "upload"}

\* No two tasks make the same dump; one that is still made is not the snapshot to go back to.
Own ==
  /\ \A q \in Tasks : task[q].own <= made
  /\ \A p, q \in Tasks : task[p].own = task[q].own /\ task[p].own # 0 => p = q
  /\ undo.file <= made
  /\ \A q \in Tasks : task[q].pc \in Writing => undo.file # task[q].own

\* pg_dump has to end before its dump is whole.
Unfinished ==
  /\ \A f \in Files : f > made => ~file[f].whole
  /\ \A q \in Tasks : task[q].pc \in {"dump", "dumping"} => ~file[task[q].own].whole

\* What every step of a task leaves alone.
LEMMA StepFrame ==
  ASSUME Shape, NEW p \in Tasks, Steps(p)
  PROVE  /\ Shape' /\ removed' = removed /\ crashes' = crashes
         /\ \A q \in Tasks : q # p =>
              /\ task'[q].pc = task[q].pc /\ task'[q].kind = task[q].kind /\ task'[q].own = task[q].own
              /\ task'[q].target = task[q].target /\ task'[q].attempt = task[q].attempt
              /\ task'[q].start = task[q].start
              /\ task[q].pc \notin {"dumping", "load"} => task'[q] = task[q]
         /\ made' \in {made, made + 1}
         /\ task'[p].own \in {0, task[p].own} \/ (made' = made + 1 /\ task'[p].own = made + 1)
         /\ undo' = undo \/ Reset(p)
         /\ task'[p].kind = "PRE_RESTORE" =>
              \/ task[p].kind = "PRE_RESTORE" /\ task'[p].start = task[p].start
              \/ \E f \in Files : BeginRestore(p, f)
<1>0. Idle.own = 0 /\ Idle.kind # "PRE_RESTORE" BY IdleIsWork
<1>1. CASE \E type \in {"MANUAL", "SCHEDULED"} : BeginBackup(p, type)
  BY <1>1, BeginBackupOK DEF BeginBackup, StartsDump
<1>2. CASE DumpReads(p) BY <1>2, DumpReadsOK DEF DumpReads
<1>3. CASE DumpEnds(p) BY <1>3, DumpEndsOK DEF DumpEnds
<1>4. CASE DumpFails(p) BY <1>0, <1>4, DumpFailsOK DEF DumpFails, DumpRefused, Restoring
<1>5. CASE BackupDone(p) BY <1>5, BackupDoneOK DEF BackupDone, Restoring
<1>6. CASE Prune(p) BY <1>0, <1>6, PruneOK DEF Prune
<1>7. CASE \E f \in Files : BeginRestore(p, f) \/ BeginList(p, f)
  <2>1. PICK f \in Files : BeginRestore(p, f) \/ BeginList(p, f) BY <1>7
  <2>2. CASE BeginRestore(p, f) BY <2>2, BeginRestoreOK DEF BeginRestore
  <2>3. CASE BeginList(p, f) BY <2>3, BeginListOK DEF BeginList
  <2> QED BY <2>1, <2>2, <2>3
<1>8. CASE Validated(p) BY <1>8, ValidatedOK DEF Validated, StartsDump
<1>9. CASE ValidationFails(p) BY <1>0, <1>9, ValidationFailsOK DEF ValidationFails
<1>10. CASE RestoreResumes(p) BY <1>10, RestoreResumesOK DEF RestoreResumes
<1>11. CASE Reset(p) BY <1>11, ResetOK DEF Reset
<1>12. CASE LoadStarts(p) BY <1>12, LoadStartsOK DEF LoadStarts
<1>13. CASE LoadEnds(p) \/ LoadStops(p) BY <1>13, LoadEndsOK, LoadStopsOK DEF LoadEnds, LoadStops
<1>14. CASE RestoreFails(p) BY <1>14, RestoreFailsOK DEF RestoreFails
<1>15. CASE RestoreDone(p) BY <1>0, <1>15, RestoreDoneOK DEF RestoreDone
<1>16. CASE RestoreThrows(p) BY <1>0, <1>16, RestoreThrowsOK DEF RestoreThrows
<1>17. CASE ListWrites(p) BY <1>0, <1>17, ListWritesOK DEF ListWrites
<1>18. CASE \E whole \in BOOLEAN : BeginUpload(p, whole) BY <1>18, BeginUploadOK DEF BeginUpload
<1>19. CASE UploadEnds(p) BY <1>0, <1>19, UploadEndsOK DEF UploadEnds
<1> QED BY <1>1, <1>2, <1>3, <1>4, <1>5, <1>6, <1>7, <1>8, <1>9, <1>10, <1>11, <1>12, <1>13, <1>14,
           <1>15, <1>16, <1>17, <1>18, <1>19 DEF Steps

\* A dump nobody makes keeps its content and, unless the schedule made it, its place; a
\* whole dump keeps its content whoever works on it.
LEMMA StepKeepsDumps ==
  ASSUME Shape, Own, Unfinished, NEW p \in Tasks, Steps(p), NEW g \in Files
  PROVE  /\ g <= made /\ (task[p].pc \in Writing => g # task[p].own) =>
              /\ file'[g].whole = file[g].whole /\ file'[g].content = file[g].content
              /\ file'[g].type \in {file[g].type, "MANUAL"}
              /\ file[g].there /\ file[g].type # "SCHEDULED" => file'[g].there
         /\ file[g].whole => file'[g].whole /\ file'[g].content = file[g].content
<1>0. g \in Nat /\ made \in Nat /\ made + 1 > made BY RecordFields DEF Shape, Files
<1>1. CASE \E type \in {"MANUAL", "SCHEDULED"} : BeginBackup(p, type)
  <2>1. \A h \in Files : h # made + 1 => file'[h] = file[h] BY <1>1, StartsDumpOK DEF BeginBackup
  <2> QED BY <1>0, <2>1 DEF Unfinished
<1>2. CASE DumpReads(p)
  <2>1. task[p].pc \in Writing /\ ~file[task[p].own].whole BY <1>2 DEF DumpReads, Writing, Unfinished
  <2> QED BY <1>2, <2>1, DumpReadsOK
<1>3. CASE DumpEnds(p)
  <2>1. task[p].pc \in Writing BY <1>3 DEF DumpEnds, Writing
  <2> QED BY <1>3, <2>1, DumpEndsOK
<1>4. CASE DumpFails(p)
  <2>1. task[p].pc \in Writing BY <1>4 DEF DumpFails, Writing, Dumping
  <2> QED BY <1>4, <2>1, DumpFailsOK
<1>5. CASE BackupDone(p)
  <2>1. task[p].pc \in Writing BY <1>5 DEF BackupDone, Writing
  <2> QED BY <1>5, <2>1, BackupDoneOK
<1>6. CASE Prune(p) BY <1>6, PruneOK
<1>7. CASE \E f \in Files : BeginRestore(p, f) \/ BeginList(p, f) BY <1>7 DEF BeginRestore, BeginList
<1>8. CASE Validated(p)
  <2>1. \A h \in Files : h # made + 1 => file'[h] = file[h] BY <1>8, StartsDumpOK DEF Validated
  <2> QED BY <1>0, <2>1 DEF Unfinished
<1>9. CASE ListWrites(p) BY <1>9, ListWritesOK
<1>10. CASE \E whole \in BOOLEAN : BeginUpload(p, whole)
  <2>1. \A h \in Files : h # made + 1 => file'[h] = file[h] BY <1>10, BeginUploadOK
  <2> QED BY <1>0, <2>1 DEF Unfinished
<1>11. CASE UploadEnds(p)
  <2>1. task[p].pc \in Writing BY <1>11 DEF UploadEnds, Writing
  <2> QED BY <1>11, <2>1, UploadEndsOK
<1>12. CASE \/ ValidationFails(p) \/ RestoreResumes(p) \/ Reset(p) \/ LoadStarts(p) \/ LoadEnds(p)
            \/ LoadStops(p) \/ RestoreFails(p) \/ RestoreDone(p) \/ RestoreThrows(p)
  BY <1>12 DEF ValidationFails, RestoreResumes, Reset, LoadStarts, LoadEnds, LoadStops, RestoreFails,
               RestoreDone, RestoreThrows
<1> QED BY <1>1, <1>2, <1>3, <1>4, <1>5, <1>6, <1>7, <1>8, <1>9, <1>10, <1>11, <1>12 DEF Steps

\* Only a restore changes the database, and whoever does overtakes the other restores.
LEMMA StepOvertakes ==
  ASSUME Shape, NEW p \in Tasks, Steps(p)
  PROVE  \/ /\ db' = db
            /\ overtaken' = overtaken \/ (task'[p] = Idle /\ overtaken' = overtaken \ {p})
         \/ Overtakes(p) /\ (Reset(p) \/ LoadStarts(p) \/ LoadEnds(p) \/ LoadStops(p))
<1>1. CASE \/ \E type \in {"MANUAL", "SCHEDULED"} : BeginBackup(p, type)
           \/ DumpReads(p) \/ DumpEnds(p) \/ DumpFails(p) \/ BackupDone(p) \/ Prune(p)
  BY <1>1 DEF BeginBackup, DumpReads, DumpEnds, DumpFails, DumpRefused, BackupDone, Prune
<1>2. CASE \/ \E f \in Files : BeginRestore(p, f) \/ BeginList(p, f)
           \/ Validated(p) \/ RestoreResumes(p) \/ RestoreFails(p) \/ ListWrites(p)
           \/ \E whole \in BOOLEAN : BeginUpload(p, whole)
           \/ UploadEnds(p)
  BY <1>2 DEF BeginRestore, BeginList, Validated, RestoreResumes, RestoreFails, ListWrites, BeginUpload,
              UploadEnds
<1>3. CASE ValidationFails(p) \/ RestoreThrows(p)
  BY <1>3, ValidationFailsOK, RestoreThrowsOK DEF ValidationFails, RestoreThrows, Ends
<1>4. CASE RestoreDone(p)
  <2>1. db' = db BY <1>4 DEF RestoreDone
  <2>2. CASE task[p].attempt = 1 BY <1>4, <2>1, <2>2, RestoreDoneOK DEF RestoreDone, Ends
  <2>3. CASE task[p].attempt # 1 BY <1>4, <2>1, <2>3 DEF RestoreDone
  <2> QED BY <2>2, <2>3
<1>5. CASE Reset(p) \/ LoadStarts(p) \/ LoadEnds(p) \/ LoadStops(p)
  BY <1>5 DEF Reset, LoadStarts, LoadEnds, LoadStops
<1> QED BY <1>1, <1>2, <1>3, <1>4, <1>5 DEF Steps

LEMMA OwnsAreNumbers ==
  ASSUME Shape
  PROVE  made \in Nat /\ undo.file \in Nat /\ \A q \in Tasks : task[q].own \in Nat
<1>1. \A q \in Tasks : task[q] \in TaskRecord BY DEF Shape, Work
<1> QED BY <1>1, RecordFields DEF Shape

LEMMA StepKeepsOwn ==
  ASSUME Shape, Own, NEW p \in Tasks, Steps(p)
  PROVE  Own'
<1>1. /\ made \in Nat /\ undo.file \in Nat /\ made' \in Nat
      /\ \A q \in Tasks : task[q].own \in Nat /\ task[q].own <= made
  BY OwnsAreNumbers, StepFrame DEF Own
<1>2. made' >= made BY <1>1, StepFrame
<1>3. \A q \in Tasks : task'[q].own <= made' BY <1>1, <1>2, StepFrame
<1>4. \A q \in Tasks : q # p => task'[q].own = task[q].own /\ task[q].own < made + 1 BY <1>1, StepFrame
<1>5. ASSUME NEW a \in Tasks, NEW b \in Tasks, task'[a].own = task'[b].own, task'[a].own # 0
      PROVE  a = b
  <2>1. \A q \in Tasks : q # p => task'[q].own # task'[p].own \/ task'[p].own = 0
    <3> SUFFICES ASSUME NEW q \in Tasks, q # p, task'[p].own # 0 PROVE task'[q].own # task'[p].own
      OBVIOUS
    <3>1. CASE task'[p].own = task[p].own BY <3>1, <1>4 DEF Own
    <3>2. CASE task'[p].own = made + 1 BY <3>2, <1>1, <1>4
    <3> QED BY <3>1, <3>2, StepFrame
  <2>2. CASE a # p /\ b # p BY <2>2, <1>4, <1>5 DEF Own
  <2> QED BY <2>1, <2>2, <1>5
<1>6. undo' = undo \/ Reset(p) BY StepFrame
<1>7. undo'.file <= made'
  <2>1. CASE undo' = undo BY <2>1, <1>1, <1>2 DEF Own
  <2>2. CASE Reset(p) BY <2>2, <1>1, <1>2, ResetOK DEF Own
  <2> QED BY <2>1, <2>2, <1>6
<1>8. ASSUME NEW q \in Tasks, task'[q].pc \in Writing PROVE undo'.file # task'[q].own
  <2>1. CASE Reset(p)
    <3>1. q # p /\ task[q].pc \in Writing /\ task'[q].own = task[q].own
      BY <2>1, <1>8, ResetOK DEF Writing
    <3>2. task[p].own # 0 /\ task[p].own # task[q].own BY <2>1, <3>1, ResetOK DEF Own, Files
    <3>3. undo'.file \in {undo.file, task[p].own} BY <2>1, ResetOK
    <3> QED BY <3>1, <3>2, <3>3 DEF Own
  <2>2. CASE ~Reset(p) /\ q # p BY <2>2, <1>6, <1>8, StepFrame DEF Own
  <2>3. CASE ~Reset(p) /\ q = p
    <3>1. undo' = undo BY <2>3, <1>6
    <3>2. CASE task'[p].own = made + 1 BY <3>1, <3>2, <2>3, <1>1 DEF Own
    <3>3. CASE task[p].pc \in Writing /\ task'[p].own = task[p].own BY <3>1, <3>3, <2>3 DEF Own
    <3>4. task'[p].own = made + 1 \/ (task[p].pc \in Writing /\ task'[p].own = task[p].own)
      <4>0. Idle.pc \notin Writing /\ task'[p].pc \in Writing BY <2>3, <1>8, IdleIsWork DEF Writing
      <4>1. CASE \E type \in {"MANUAL", "SCHEDULED"} : BeginBackup(p, type) BY <4>1, BeginBackupOK
      <4>2. CASE DumpReads(p) BY <4>2, DumpReadsOK DEF DumpReads, Writing
      <4>3. CASE DumpEnds(p) BY <4>3, DumpEndsOK DEF DumpEnds, Writing
      <4>4. CASE DumpFails(p) BY <4>0, <4>4, DumpFailsOK DEF Writing
      <4>5. CASE BackupDone(p) BY <4>0, <4>5, BackupDoneOK DEF Writing
      <4>6. CASE Prune(p) BY <4>0, <4>6, PruneOK
      <4>7. CASE \E f \in Files : BeginRestore(p, f) \/ BeginList(p, f)
        BY <4>0, <4>7, BeginRestoreOK, BeginListOK DEF Writing
      <4>8. CASE Validated(p) BY <4>8, ValidatedOK
      <4>9. CASE ValidationFails(p) BY <4>0, <4>9, ValidationFailsOK
      <4>10. CASE RestoreResumes(p) BY <4>0, <4>10, RestoreResumesOK DEF Writing
      <4>11. CASE Reset(p) BY <4>11, <2>3
      <4>12. CASE LoadStarts(p) BY <4>0, <4>12, LoadStartsOK DEF Writing
      <4>13. CASE LoadEnds(p) \/ LoadStops(p) BY <4>0, <4>13, LoadEndsOK, LoadStopsOK DEF Writing
      <4>14. CASE RestoreFails(p)
        <5>1. task'[p].pc \in {"lost", "reset", "failed"} BY <4>14, RestoreFailsOK
        <5> QED BY <4>0, <5>1 DEF Writing
      <4>15. CASE RestoreDone(p)
        <5>1. task'[p] = Idle \/ task'[p].pc = "failed" BY <4>15, RestoreDoneOK
        <5> QED BY <4>0, <5>1 DEF Writing
      <4>16. CASE RestoreThrows(p) BY <4>0, <4>16, RestoreThrowsOK
      <4>17. CASE ListWrites(p) BY <4>0, <4>17, ListWritesOK
      <4>18. CASE \E whole \in BOOLEAN : BeginUpload(p, whole) BY <4>18, BeginUploadOK
      <4>19. CASE UploadEnds(p) BY <4>0, <4>19, UploadEndsOK
      <4> QED BY <4>1, <4>2, <4>3, <4>4, <4>5, <4>6, <4>7, <4>8, <4>9, <4>10, <4>11, <4>12, <4>13,
                 <4>14, <4>15, <4>16, <4>17, <4>18, <4>19 DEF Steps
    <3> QED BY <3>2, <3>3, <3>4
  <2> QED BY <2>1, <2>2, <2>3
<1> QED BY <1>3, <1>5, <1>7, <1>8 DEF Own

LEMMA StepKeepsUnfinished ==
  ASSUME Shape, Own, Unfinished, NEW p \in Tasks, Steps(p)
  PROVE  Unfinished'
<1>0. /\ made \in Nat /\ made' \in Nat /\ made' >= made
      /\ \A q \in Tasks : task[q].own \in Nat /\ task[q].own <= made
  BY OwnsAreNumbers, StepFrame DEF Own
<1>1. ASSUME NEW q \in Tasks, task[q].pc \in {"dump", "dumping"} PROVE task[q].own \in Files
  <2>1. task[q] \in Work /\ task[q] \in TaskRecord BY DEF Shape, Work
  <2> QED BY <1>1, <2>1, RecordFields DEF Work, WithDump
<1>2. \A q \in Tasks : q # p => task[q].pc = task'[q].pc /\ task'[q].own = task[q].own BY StepFrame
<1>3. \A q \in Tasks : task[q].pc \in {"dump", "dumping"} /\ q # p => ~file'[task[q].own].whole
  <2> SUFFICES ASSUME NEW q \in Tasks, task[q].pc \in {"dump", "dumping"}, q # p
               PROVE  ~file'[task[q].own].whole
    OBVIOUS
  <2>1. task[q].own \in Files /\ task[q].own # 0 BY <1>1 DEF Files
  <2>2. task[q].own # task[p].own BY <2>1 DEF Own
  <2> QED BY <1>0, <2>1, <2>2, StepKeepsDumps DEF Unfinished
<1>4. \A f \in Files : f > made' => ~file'[f].whole
  <2> SUFFICES ASSUME NEW f \in Files, f > made' PROVE ~file'[f].whole
    OBVIOUS
  <2>1. f \in Nat /\ f > made BY <1>0 DEF Files
  <2>2. ~file[f].whole BY <2>1 DEF Unfinished
  <2>3. task[p].own # f BY <1>0, <2>1
  <2>4. CASE (\E type \in {"MANUAL", "SCHEDULED"} : BeginBackup(p, type)) \/ Validated(p)
    <3>1. StartsDump BY <2>4 DEF BeginBackup, Validated
    <3> QED BY <3>1, <2>2, StartsDumpOK
  <2>5. CASE DumpReads(p) BY <2>2, <2>3, <2>5, DumpReadsOK
  <2>6. CASE DumpEnds(p) BY <2>2, <2>3, <2>6, DumpEndsOK
  <2>7. CASE DumpFails(p) BY <2>2, <2>3, <2>7, DumpFailsOK
  <2>8. CASE BackupDone(p) BY <2>2, <2>3, <2>8, BackupDoneOK
  <2>9. CASE Prune(p) BY <2>2, <2>9, PruneOK
  <2>10. CASE \E g \in Files : BeginRestore(p, g) \/ BeginList(p, g)
    BY <2>2, <2>10 DEF BeginRestore, BeginList
  <2>11. CASE ListWrites(p) BY <2>2, <2>11, ListWritesOK
  <2>12. CASE \E whole \in BOOLEAN : BeginUpload(p, whole)
    <3>1. made' = made + 1 /\ \A g \in Files : g # made + 1 => file'[g] = file[g] BY <2>12, BeginUploadOK
    <3> QED BY <3>1, <2>1, <2>2, <1>0
  <2>13. CASE UploadEnds(p) BY <2>2, <2>3, <2>13, UploadEndsOK
  <2>14. CASE \/ ValidationFails(p) \/ RestoreResumes(p) \/ Reset(p) \/ LoadStarts(p) \/ LoadEnds(p)
              \/ LoadStops(p) \/ RestoreFails(p) \/ RestoreDone(p) \/ RestoreThrows(p)
    BY <2>2, <2>14 DEF ValidationFails, RestoreResumes, Reset, LoadStarts, LoadEnds, LoadStops,
                       RestoreFails, RestoreDone, RestoreThrows
  <2> QED BY <2>4, <2>5, <2>6, <2>7, <2>8, <2>9, <2>10, <2>11, <2>12, <2>13, <2>14 DEF Steps
<1>5. task'[p].pc \in {"dump", "dumping"} => ~file'[task'[p].own].whole
  <2> SUFFICES ASSUME task'[p].pc \in {"dump", "dumping"} PROVE ~file'[task'[p].own].whole
    OBVIOUS
  <2>0. Idle.pc \notin {"dump", "dumping"} BY IdleIsWork
  <2>1. CASE \E type \in {"MANUAL", "SCHEDULED"} : BeginBackup(p, type)
    BY <2>1, BeginBackupOK, StartsDumpOK DEF BeginBackup
  <2>2. CASE Validated(p) BY <2>2, ValidatedOK, StartsDumpOK DEF Validated
  <2>3. CASE DumpReads(p) BY <2>3, DumpReadsOK DEF DumpReads, Unfinished
  <2>4. CASE \/ DumpEnds(p) \/ DumpFails(p) \/ BackupDone(p) \/ Prune(p)
    BY <2>0, <2>4, DumpEndsOK, DumpFailsOK, BackupDoneOK, PruneOK
  <2>5. CASE \E f \in Files : BeginRestore(p, f) \/ BeginList(p, f)
    BY <2>5, BeginRestoreOK, BeginListOK
  <2>6. CASE ValidationFails(p) \/ RestoreThrows(p) \/ ListWrites(p) \/ UploadEnds(p)
    BY <2>0, <2>6, ValidationFailsOK, RestoreThrowsOK, ListWritesOK, UploadEndsOK
  <2>7. CASE RestoreResumes(p) \/ Reset(p) \/ LoadStarts(p) \/ LoadEnds(p) \/ LoadStops(p)
    BY <2>7, RestoreResumesOK, ResetOK, LoadStartsOK, LoadEndsOK, LoadStopsOK
  <2>8. CASE RestoreFails(p)
    <3>1. task'[p].pc \in {"lost", "reset", "failed"} BY <2>8, RestoreFailsOK
    <3> QED BY <3>1
  <2>9. CASE RestoreDone(p)
    <3>1. task'[p] = Idle \/ task'[p].pc = "failed" BY <2>9, RestoreDoneOK
    <3> QED BY <2>0, <3>1
  <2>10. CASE \E whole \in BOOLEAN : BeginUpload(p, whole) BY <2>10, BeginUploadOK
  <2> QED BY <2>1, <2>2, <2>3, <2>4, <2>5, <2>6, <2>7, <2>8, <2>9, <2>10 DEF Steps
<1> QED BY <1>2, <1>3, <1>4, <1>5 DEF Unfinished

DumpInv == Shape /\ Own /\ Unfinished

LEMMA InitDumpInv ==
  ASSUME Init
  PROVE  DumpInv
<1>1. \A q \in Tasks : task[q] = Idle BY DEF Init
<1>2. Idle.pc = "idle" /\ Idle.own = 0 BY IdleIsWork
<1>3. made = 2 /\ undo.file = 0 BY DEF Init
<1>4. Own BY <1>1, <1>2, <1>3 DEF Own, Writing
<1>5. \A f \in Files : f > 2 => file[f] = NoFile BY DEF Init
<1>6. Unfinished BY <1>1, <1>2, <1>3, <1>5 DEF Unfinished, NoFile
<1> QED BY <1>4, <1>6, InitOK DEF DumpInv

LEMMA NextKeepsDumpInv ==
  ASSUME DumpInv, [Next]_vars
  PROVE  DumpInv'
<1> USE DEF DumpInv
<1>0. Shape' BY NextKeepsShape
<1>1. CASE UNCHANGED vars BY <1>0, <1>1 DEF vars, Own, Unfinished
<1>2. ASSUME NEW p \in Tasks, Steps(p) PROVE DumpInv'
  BY <1>0, <1>2, StepKeepsOwn, StepKeepsUnfinished
<1>3. ASSUME NEW f \in Files, Delete(f) PROVE DumpInv'
  <2>1. task' = task /\ made' = made /\ undo' = undo BY <1>3 DEF Delete
  <2>2. \A g \in Files : file'[g].whole = file[g].whole BY <1>3, DeleteOK
  <2>3. \A q \in Tasks : task[q].pc \in {"dump", "dumping"} => task[q].own \in Files
    <3>1. \A q \in Tasks : task[q] \in Work /\ task[q] \in TaskRecord BY DEF Shape, Work
    <3> QED BY <3>1, RecordFields DEF Work, WithDump
  <2> QED BY <1>0, <2>1, <2>2, <2>3 DEF Own, Unfinished
<1>4. CASE AppWrites BY <1>0, <1>4 DEF AppWrites, Own, Unfinished
<1>5. CASE Crash
  <2>1. \A q \in Tasks : task'[q] = Idle BY <1>5, CrashOK
  <2>2. made' = made /\ undo' = undo /\ file' = file BY <1>5 DEF Crash
  <2>3. Idle.pc = "idle" /\ Idle.own = 0 /\ made \in Nat BY IdleIsWork, OwnsAreNumbers
  <2> QED BY <1>0, <2>1, <2>2, <2>3 DEF Own, Unfinished, Writing
<1> QED BY <1>1, <1>2, <1>3, <1>4, <1>5, NextIsSteps

LEMMA DumpInvAlways == Spec => []DumpInv
<1>1. Init => DumpInv BY InitDumpInv
<1>2. DumpInv /\ [Next]_vars => DumpInv' BY NextKeepsDumpInv
<1> QED BY <1>1, <1>2, PTL DEF Spec

-----------------------------------------------------------------------------
(* The snapshot.                                                           *)

SnapshotAt == {"dump", "dumping", "hash", "resume", "reset", "open", "load", "verify"}
BeforeReset == {"validate", "dump", "dumping", "hash", "resume"}

\* A restore's snapshot is on the disk, and once it is read it holds what the database held
\* at the request, unless another restore was at work in between.
Snapshot ==
  \A q \in Tasks : task[q].kind = "PRE_RESTORE" /\ task[q].pc \in SnapshotAt =>
    LET s == file[task[q].own] IN
    \/ task[q].own \in removed
    \/ /\ s.there /\ s.type # "SCHEDULED"
       /\ task[q].pc \notin {"dump", "dumping"} => s.whole
       /\ task[q].pc \notin Dumping => s.type # "none"
       /\ task[q].pc # "dump" /\ task[q].start # Damaged /\ q \notin overtaken =>
            s.content # Damaged /\ s.content >= task[q].start

\* Until its first reset a restore has lost nothing, if no other one was at work.
Untouched ==
  \A q \in Tasks :
    /\ task[q].kind = "PRE_RESTORE" /\ task[q].start # Damaged /\ q \notin overtaken
    /\ task[q].pc \in BeforeReset \/ (task[q].pc = "reset" /\ task[q].attempt = 1)
    => db # Damaged /\ db >= task[q].start

UndoGood ==
  LET s == file[undo.file] IN
  /\ undo.file \in Files
  /\ \/ undo.file \in removed
     \/ /\ s.there /\ s.whole /\ s.type \in {"PRE_RESTORE", "MANUAL"}
        /\ s.content # Damaged /\ s.content >= undo.least

\* Whoever empties the database first has a snapshot to go back to; restores that overlap
\* that one, or were requested of a damaged database, keep it.
UndoSafe ==
  \/ db = Damaged
  \/ overtaken # {}
  \/ \E q \in Tasks : /\ task[q].kind = "PRE_RESTORE"
                      /\ task[q].start = Damaged \/ task[q].pc \in {"open", "load"}
  => UndoGood

LEMMA RestoresOwn ==
  ASSUME Shape, NEW q \in Tasks, task[q].kind = "PRE_RESTORE", task[q].pc \in SnapshotAt
  PROVE  task[q].own \in Files /\ task[q].own # 0 /\ file[task[q].own] \in FileRecord
<1>1. task[q] \in Work /\ task[q] \in TaskRecord BY DEF Shape, Work
<1>2. task[q].own \in Files /\ task[q].own # 0
  BY <1>1, RecordFields DEF Work, WithDump, SnapshotAt, Files
<1> QED BY <1>2 DEF Shape

\* A restore that was overtaken stays so; one that was not has seen nothing of the step of
\* another task.
LEMMA OthersStepAside ==
  ASSUME Shape, NEW p \in Tasks, Steps(p), NEW q \in Tasks, task'[q].kind = "PRE_RESTORE",
         q \notin overtaken'
  PROVE  q \notin overtaken /\ (q # p => db' = db)
<1>1. CASE db' = db /\ (overtaken' = overtaken \/ (task'[p] = Idle /\ overtaken' = overtaken \ {p}))
  <2>1. Idle.kind # "PRE_RESTORE" BY IdleIsWork
  <2> QED BY <1>1, <2>1
<1>2. CASE Overtakes(p)
  <2>1. q # p => Restoring(q) BY StepFrame DEF Restoring
  <2> QED BY <1>2, <2>1 DEF Overtakes
<1> QED BY <1>1, <1>2, StepOvertakes

LEMMA StepKeepsSnapshot ==
  ASSUME Shape, Own, Unfinished, Snapshot, Untouched, NEW p \in Tasks, Steps(p)
  PROVE  Snapshot'
<1>1. ASSUME NEW q \in Tasks, q # p, task'[q].kind = "PRE_RESTORE", task'[q].pc \in SnapshotAt
      PROVE  LET s == file'[task'[q].own] IN
             \/ task'[q].own \in removed'
             \/ /\ s.there /\ s.type # "SCHEDULED"
                /\ task'[q].pc \notin {"dump", "dumping"} => s.whole
                /\ task'[q].pc \notin Dumping => s.type # "none"
                /\ task'[q].pc # "dump" /\ task'[q].start # Damaged /\ q \notin overtaken' =>
                     s.content # Damaged /\ s.content >= task'[q].start
  <2>1. /\ task'[q].pc = task[q].pc /\ task'[q].kind = task[q].kind /\ task'[q].own = task[q].own
        /\ task'[q].start = task[q].start /\ removed' = removed
    BY <1>1, StepFrame
  <2>2. task[q].own \in Files /\ task[q].own # 0 BY <1>1, <2>1, RestoresOwn
  <2>3. task[q].own <= made /\ task[q].own # task[p].own BY <1>1, <2>2 DEF Own
  <2>4. /\ file'[task[q].own].whole = file[task[q].own].whole
        /\ file'[task[q].own].content = file[task[q].own].content
        /\ file'[task[q].own].type \in {file[task[q].own].type, "MANUAL"}
        /\ file[task[q].own].there /\ file[task[q].own].type # "SCHEDULED" => file'[task[q].own].there
    BY <2>2, <2>3, StepKeepsDumps
  <2>5. q \notin overtaken' => q \notin overtaken BY <1>1, OthersStepAside
  <2> QED BY <1>1, <2>1, <2>4, <2>5 DEF Snapshot
<1>2. ASSUME task'[p].kind = "PRE_RESTORE", task'[p].pc \in SnapshotAt
      PROVE  LET s == file'[task'[p].own] IN
             \/ task'[p].own \in removed'
             \/ /\ s.there /\ s.type # "SCHEDULED"
                /\ task'[p].pc \notin {"dump", "dumping"} => s.whole
                /\ task'[p].pc \notin Dumping => s.type # "none"
                /\ task'[p].pc # "dump" /\ task'[p].start # Damaged /\ p \notin overtaken' =>
                     s.content # Damaged /\ s.content >= task'[p].start
  <2>0. /\ Idle.kind # "PRE_RESTORE" /\ removed' = removed
        /\ p \notin overtaken' => p \notin overtaken
    BY <1>2, IdleIsWork, StepFrame, OthersStepAside
  <2>1. CASE \E type \in {"MANUAL", "SCHEDULED"} : BeginBackup(p, type) BY <1>2, <2>1, BeginBackupOK
  <2>2. CASE DumpReads(p)
    <3>1. task[p].pc = "dump" /\ task[p].kind = "PRE_RESTORE" /\ task'[p].start = task[p].start
      BY <1>2, <2>2, DumpReadsOK DEF DumpReads
    <3>2. task[p].start # Damaged /\ p \notin overtaken => db # Damaged /\ db >= task[p].start
      BY <3>1 DEF Untouched, BeforeReset
    <3>3. \/ task[p].own \in removed
          \/ file[task[p].own].there /\ file[task[p].own].type # "SCHEDULED"
      BY <3>1 DEF Snapshot, SnapshotAt
    <3>4. task'[p].pc = "dumping" /\ task'[p].own = task[p].own BY <2>2, DumpReadsOK
    <3> QED BY <2>0, <2>2, <3>1, <3>2, <3>3, <3>4, DumpReadsOK DEF Dumping
  <2>3. CASE DumpEnds(p)
    <3>1. task[p].pc = "dumping" /\ task[p].kind = "PRE_RESTORE" /\ task'[p].start = task[p].start
      BY <1>2, <2>3, DumpEndsOK DEF DumpEnds
    <3>2. \/ task[p].own \in removed
          \/ /\ file[task[p].own].there /\ file[task[p].own].type # "SCHEDULED"
             /\ task[p].start # Damaged /\ p \notin overtaken =>
                  file[task[p].own].content # Damaged /\ file[task[p].own].content >= task[p].start
      BY <3>1 DEF Snapshot, SnapshotAt
    <3>3. task'[p].pc = "hash" /\ task'[p].own = task[p].own BY <2>3, DumpEndsOK
    <3> QED BY <2>0, <2>3, <3>1, <3>2, <3>3, DumpEndsOK DEF Dumping
  <2>4. CASE DumpFails(p) BY <1>2, <2>0, <2>4, DumpFailsOK DEF SnapshotAt
  <2>5. CASE BackupDone(p)
    <3>1. Restoring(p) BY <1>2, <2>5, BackupDoneOK
    <3>2. task[p].pc = "hash" /\ task[p].kind = "PRE_RESTORE" BY <2>5, <3>1 DEF BackupDone, Restoring
    <3>3. \/ task[p].own \in removed
          \/ /\ file[task[p].own].there /\ file[task[p].own].whole
             /\ task[p].start # Damaged /\ p \notin overtaken =>
                  file[task[p].own].content # Damaged /\ file[task[p].own].content >= task[p].start
      BY <3>2 DEF Snapshot, SnapshotAt
    <3> QED BY <2>0, <2>5, <3>1, <3>2, <3>3, BackupDoneOK
  <2>6. CASE Prune(p) BY <1>2, <2>0, <2>6, PruneOK
  <2>7. CASE \E f \in Files : BeginRestore(p, f) \/ BeginList(p, f)
    BY <1>2, <2>7, BeginRestoreOK, BeginListOK DEF SnapshotAt
  <2>8. CASE Validated(p)
    <3>1. file'[made + 1].there /\ file'[made + 1].type = "none" BY <2>8, StartsDumpOK DEF Validated
    <3> QED BY <2>8, <3>1, ValidatedOK DEF Dumping
  <2>9. CASE ValidationFails(p) \/ RestoreThrows(p) \/ ListWrites(p) \/ UploadEnds(p)
    BY <1>2, <2>0, <2>9, ValidationFailsOK, RestoreThrowsOK, ListWritesOK, UploadEndsOK
  <2>10. CASE \/ RestoreResumes(p) \/ Reset(p) \/ LoadStarts(p) \/ LoadEnds(p)
              \/ LoadStops(p) \/ RestoreFails(p)
    <3>1. file' = file
      BY <2>10 DEF RestoreResumes, Reset, LoadStarts, LoadEnds, LoadStops, RestoreFails
    <3>2. /\ task[p].pc \in {"resume", "reset", "open", "load", "verify"}
          /\ task[p].kind = "PRE_RESTORE" /\ task'[p].own = task[p].own /\ task'[p].start = task[p].start
      <4>1. task[p].pc \in {"resume", "reset", "open", "load", "verify"}
        BY <2>10 DEF RestoreResumes, Reset, LoadStarts, LoadEnds, LoadStops, RestoreFails
      <4>2. task'[p].own = task[p].own /\ task'[p].start = task[p].start /\ task'[p].kind = task[p].kind
        BY <2>10, RestoreResumesOK, ResetOK, LoadStartsOK, LoadEndsOK, LoadStopsOK, RestoreFailsOK
      <4> QED BY <1>2, <4>1, <4>2
    <3>3. task[p].pc \notin Dumping /\ task[p].pc \notin {"dump", "dumping"} /\ task[p].pc \in SnapshotAt
      BY <3>2 DEF Dumping, SnapshotAt
    <3> QED BY <2>0, <3>1, <3>2, <3>3 DEF Snapshot
  <2>11. CASE RestoreDone(p) BY <1>2, <2>0, <2>11, RestoreDoneOK DEF SnapshotAt
  <2>12. CASE \E whole \in BOOLEAN : BeginUpload(p, whole) BY <1>2, <2>12, BeginUploadOK
  <2> QED BY <2>1, <2>2, <2>3, <2>4, <2>5, <2>6, <2>7, <2>8, <2>9, <2>10, <2>11, <2>12 DEF Steps
<1> QED BY <1>1, <1>2 DEF Snapshot

LEMMA StepKeepsUntouched ==
  ASSUME Shape, Untouched, NEW p \in Tasks, Steps(p)
  PROVE  Untouched'
<1>1. ASSUME NEW q \in Tasks, q # p, task'[q].kind = "PRE_RESTORE", q \notin overtaken'
      PROVE  /\ q \notin overtaken /\ db' = db
             /\ task'[q].pc = task[q].pc /\ task'[q].kind = task[q].kind
             /\ task'[q].attempt = task[q].attempt /\ task'[q].start = task[q].start
  BY <1>1, OthersStepAside, StepFrame
<1>2. ASSUME task'[p].kind = "PRE_RESTORE", task'[p].start # Damaged, p \notin overtaken',
             task'[p].pc \in BeforeReset \/ (task'[p].pc = "reset" /\ task'[p].attempt = 1)
      PROVE  db' # Damaged /\ db' >= task'[p].start
  <2>0. Idle.kind # "PRE_RESTORE" /\ p \notin overtaken BY <1>2, IdleIsWork, OthersStepAside
  <2>1. CASE \E type \in {"MANUAL", "SCHEDULED"} : BeginBackup(p, type) BY <1>2, <2>1, BeginBackupOK
  <2>2. CASE \/ DumpReads(p) \/ DumpEnds(p) \/ BackupDone(p) \/ Validated(p) \/ RestoreResumes(p)
    <3>1. db' = db /\ task[p].pc \in BeforeReset
      BY <2>2 DEF DumpReads, DumpEnds, BackupDone, Validated, RestoreResumes, BeforeReset
    <3>2. task[p].kind = "PRE_RESTORE" /\ task'[p].start = task[p].start
      <4>1. CASE BackupDone(p) BY <1>2, <4>1, BackupDoneOK DEF Restoring
      <4>2. CASE DumpReads(p) \/ DumpEnds(p) \/ Validated(p) \/ RestoreResumes(p)
        BY <1>2, <4>2, DumpReadsOK, DumpEndsOK, ValidatedOK, RestoreResumesOK
      <4> QED BY <2>2, <4>1, <4>2
    <3> QED BY <1>2, <2>0, <3>1, <3>2 DEF Untouched
  <2>3. CASE \E f \in Files : BeginRestore(p, f)
    <3>1. task'[p].start = db /\ db' = db /\ db \in Int
      BY <2>3, BeginRestoreOK, ContentFacts DEF BeginRestore, Shape
    <3> QED BY <1>2, <3>1
  <2>4. CASE \E f \in Files : BeginList(p, f) BY <1>2, <2>4, BeginListOK
  <2>5. CASE DumpFails(p) BY <1>2, <2>0, <2>5, DumpFailsOK DEF BeforeReset
  <2>6. CASE Prune(p) \/ ValidationFails(p) \/ RestoreThrows(p) \/ ListWrites(p) \/ UploadEnds(p)
    BY <1>2, <2>0, <2>6, PruneOK, ValidationFailsOK, RestoreThrowsOK, ListWritesOK, UploadEndsOK
  <2>7. CASE Reset(p) \/ LoadStarts(p) \/ LoadEnds(p) \/ LoadStops(p)
    BY <1>2, <2>7, ResetOK, LoadStartsOK, LoadEndsOK, LoadStopsOK DEF BeforeReset
  <2>8. CASE RestoreFails(p)
    <3>1. task'[p].pc \in {"lost", "reset", "failed"} /\ task'[p].attempt = 2 BY <2>8, RestoreFailsOK
    <3> QED BY <1>2, <3>1 DEF BeforeReset
  <2>9. CASE RestoreDone(p) BY <1>2, <2>0, <2>9, RestoreDoneOK DEF BeforeReset
  <2>10. CASE \E whole \in BOOLEAN : BeginUpload(p, whole) BY <1>2, <2>10, BeginUploadOK
  <2> QED BY <2>1, <2>2, <2>3, <2>4, <2>5, <2>6, <2>7, <2>8, <2>9, <2>10 DEF Steps
<1> QED BY <1>1, <1>2 DEF Untouched

\* A restore comes to its load from a reset.
LEMMA OpensByReset ==
  ASSUME Shape, NEW p \in Tasks, Steps(p), task'[p].kind = "PRE_RESTORE", task'[p].pc \in {"open", "load"}
  PROVE  Reset(p) \/ LoadStarts(p)
<1>0. Idle.kind # "PRE_RESTORE" BY IdleIsWork
<1>1. CASE Reset(p) \/ LoadStarts(p) BY <1>1
<1>2. CASE \E type \in {"MANUAL", "SCHEDULED"} : BeginBackup(p, type) BY <1>2, BeginBackupOK
<1>3. CASE DumpReads(p) \/ DumpEnds(p) \/ Validated(p) \/ RestoreResumes(p)
  BY <1>3, DumpReadsOK, DumpEndsOK, ValidatedOK, RestoreResumesOK
<1>10. CASE LoadEnds(p) \/ LoadStops(p) BY <1>10, LoadEndsOK, LoadStopsOK
<1>4. CASE BackupDone(p) \/ DumpFails(p) BY <1>0, <1>4, BackupDoneOK, DumpFailsOK
<1>5. CASE \E f \in Files : BeginRestore(p, f) \/ BeginList(p, f)
  BY <1>5, BeginRestoreOK, BeginListOK
<1>6. CASE Prune(p) \/ ValidationFails(p) \/ RestoreThrows(p) \/ ListWrites(p) \/ UploadEnds(p)
  BY <1>0, <1>6, PruneOK, ValidationFailsOK, RestoreThrowsOK, ListWritesOK, UploadEndsOK
<1>7. CASE RestoreFails(p)
  <2>1. task'[p].pc \in {"lost", "reset", "failed"} BY <1>7, RestoreFailsOK
  <2> QED BY <2>1
<1>8. CASE RestoreDone(p) BY <1>0, <1>8, RestoreDoneOK
<1>9. CASE \E whole \in BOOLEAN : BeginUpload(p, whole) BY <1>9, BeginUploadOK
<1> QED BY <1>1, <1>2, <1>3, <1>4, <1>5, <1>6, <1>7, <1>8, <1>9, <1>10 DEF Steps

\* The snapshot a restore goes back to is never a dump under construction nor one the
\* schedule prunes.
LEMMA StepKeepsUndoGood ==
  ASSUME Shape, Own, Unfinished, UndoGood, NEW p \in Tasks, Steps(p), undo' = undo
  PROVE  UndoGood'
<1>1. undo.file \in Files /\ undo.file <= made /\ (task[p].pc \in Writing => undo.file # task[p].own)
  BY DEF UndoGood, Own
<1>2. /\ file'[undo.file].whole = file[undo.file].whole
      /\ file'[undo.file].content = file[undo.file].content
      /\ file'[undo.file].type \in {file[undo.file].type, "MANUAL"}
      /\ file[undo.file].there /\ file[undo.file].type # "SCHEDULED" => file'[undo.file].there
  BY <1>1, StepKeepsDumps
<1>3. removed' = removed BY StepFrame
<1> QED BY <1>1, <1>2, <1>3 DEF UndoGood

LEMMA StepKeepsUndoSafe ==
  ASSUME Shape, Own, Unfinished, Snapshot, UndoSafe, NEW p \in Tasks, Steps(p)
  PROVE  UndoSafe'
<1>1. CASE Reset(p) /\ ~Keeps(p)
  <2>1. task[p].pc = "reset" /\ file' = file /\ removed' = removed BY <1>1 DEF Reset
  <2>2. /\ task[p].kind = "PRE_RESTORE" /\ task[p].own \in Files
        /\ undo'.file = task[p].own /\ undo'.least = task[p].start
    BY <1>1, ResetOK
  <2>3. LET s == file[task[p].own] IN
        \/ task[p].own \in removed
        \/ /\ s.there /\ s.type # "SCHEDULED" /\ s.whole /\ s.type # "none"
           /\ s.content # Damaged /\ s.content >= task[p].start
    BY <1>1, <2>1, <2>2 DEF Snapshot, SnapshotAt, Dumping, Keeps
  <2>4. file[task[p].own].type \in {"none", "MANUAL", "SCHEDULED", "PRE_RESTORE"}
    BY <2>2, RecordFields DEF Shape, Kinds
  <2>5. UndoGood' BY <2>1, <2>2, <2>3, <2>4 DEF UndoGood
  <2> QED BY <2>5 DEF UndoSafe
<1>2. CASE ~(Reset(p) /\ ~Keeps(p))
  <2>1. undo' = undo BY <1>2, StepFrame, ResetOK
  <2>2. UndoGood => UndoGood' BY <2>1, StepKeepsUndoGood
  <2>3. CASE Reset(p)
    <3>1. Keeps(p) /\ task[p].kind = "PRE_RESTORE" BY <1>2, <2>3, ResetOK
    <3> QED BY <2>2, <3>1 DEF UndoSafe, Keeps
  <2>4. CASE LoadStarts(p) \/ LoadEnds(p) \/ LoadStops(p)
    <3>1. task[p].kind = "PRE_RESTORE" /\ task[p].pc \in {"open", "load"}
      BY <2>4, LoadStartsOK, LoadEndsOK, LoadStopsOK DEF LoadStarts, LoadEnds, LoadStops
    <3> QED BY <2>2, <3>1 DEF UndoSafe
  <2>5. CASE ~(Reset(p) \/ LoadStarts(p) \/ LoadEnds(p) \/ LoadStops(p))
    <3>1. db' = db /\ overtaken' \subseteq overtaken BY <2>5, StepOvertakes
    <3>2. ASSUME NEW q \in Tasks, task'[q].kind = "PRE_RESTORE",
                 task'[q].start = Damaged \/ task'[q].pc \in {"open", "load"}
          PROVE  UndoGood
      <4>1. CASE q # p
        <5>1. task[q].kind = "PRE_RESTORE" /\ task[q].start = task'[q].start /\ task[q].pc = task'[q].pc
          BY <3>2, <4>1, StepFrame
        <5> QED BY <3>2, <5>1 DEF UndoSafe
      <4>2. CASE q = p
        <5>1. task'[p].start = Damaged BY <2>5, <3>2, <4>2, OpensByReset
        <5>2. CASE \E f \in Files : BeginRestore(p, f)
          <6>1. db = Damaged BY <5>1, <5>2, BeginRestoreOK
          <6> QED BY <6>1 DEF UndoSafe
        <5>3. CASE task[p].kind = "PRE_RESTORE" /\ task'[p].start = task[p].start
          BY <5>1, <5>3 DEF UndoSafe
        <5> QED BY <3>2, <4>2, <5>2, <5>3, StepFrame
      <4> QED BY <4>1, <4>2
    <3> QED BY <2>2, <3>1, <3>2 DEF UndoSafe
  <2> QED BY <2>3, <2>4, <2>5
<1> QED BY <1>1, <1>2

-----------------------------------------------------------------------------
(* What a restore that ends leaves.                                        *)

\* What a restore says it has put into the database is there, unless the load stopped
\* half-way unnoticed or another restore was at work.
Returned ==
  \A q \in Tasks : task[q].kind = "PRE_RESTORE" /\ task[q].spoilt # "partly" /\ q \notin overtaken =>
    /\ task[q].pc = "verify" /\ task[q].attempt = 1 =>
         file[task[q].target].whole /\ db >= file[task[q].target].content
    /\ task[q].pc = "failed" \/ (task[q].pc = "verify" /\ task[q].attempt = 2) =>
         \/ task[q].start = Damaged \/ task[q].own \in removed
         \/ db # Damaged /\ db >= task[q].start

LEMMA StepKeepsReturned ==
  ASSUME Shape, Own, Unfinished, Snapshot, Untouched, Returned, NEW p \in Tasks, Steps(p)
  PROVE  Returned'
<1>0. removed' = removed BY StepFrame
<1>1. ASSUME NEW q \in Tasks, q # p, task'[q].kind = "PRE_RESTORE", task'[q].spoilt # "partly",
             q \notin overtaken'
      PROVE  /\ task'[q].pc = "verify" /\ task'[q].attempt = 1 =>
                  file'[task'[q].target].whole /\ db' >= file'[task'[q].target].content
             /\ task'[q].pc = "failed" \/ (task'[q].pc = "verify" /\ task'[q].attempt = 2) =>
                  \/ task'[q].start = Damaged \/ task'[q].own \in removed'
                  \/ db' # Damaged /\ db' >= task'[q].start
  <2>1. /\ q \notin overtaken /\ db' = db /\ task'[q].pc = task[q].pc
        /\ task[q].pc \in {"verify", "failed"} => task'[q] = task[q]
    BY <1>1, OthersStepAside, StepFrame
  <2>2. task[q].pc = "verify" => task[q].target \in Files BY SourceIsFile DEF Replacing
  <2>3. task[q].pc = "verify" /\ file[task[q].target].whole =>
          /\ file'[task[q].target].whole
          /\ file'[task[q].target].content = file[task[q].target].content
    BY <2>2, StepKeepsDumps
  <2> QED BY <1>0, <1>1, <2>1, <2>3 DEF Returned
<1>2. ASSUME task'[p].kind = "PRE_RESTORE", task'[p].spoilt # "partly", p \notin overtaken'
      PROVE  /\ task'[p].pc = "verify" /\ task'[p].attempt = 1 =>
                  file'[task'[p].target].whole /\ db' >= file'[task'[p].target].content
             /\ task'[p].pc = "failed" \/ (task'[p].pc = "verify" /\ task'[p].attempt = 2) =>
                  \/ task'[p].start = Damaged \/ task'[p].own \in removed'
                  \/ db' # Damaged /\ db' >= task'[p].start
  <2>0. Idle.kind # "PRE_RESTORE" /\ p \notin overtaken BY <1>2, IdleIsWork, OthersStepAside
  <2>1. CASE LoadStarts(p) BY <2>1, LoadStartsOK
  <2>2. CASE LoadEnds(p)
    <3>1. /\ task[p].kind = "PRE_RESTORE" /\ task'[p].pc = "verify"
          /\ task'[p].own = task[p].own /\ task'[p].target = task[p].target
          /\ task'[p].attempt = task[p].attempt /\ task'[p].start = task[p].start
      BY <2>2, LoadEndsOK
    <3>2. task[p].pc = "load" /\ file[Source(p)].whole /\ file' = file BY <2>2 DEF LoadEnds, Loads
    <3>3. db' = file[Source(p)].content BY <2>2 DEF LoadEnds
    <3>4. CASE task[p].attempt = 1
      <4>1. Source(p) = task[p].target BY <3>4 DEF Source
      <4>2. file[Source(p)].content \in Int
        BY <3>2, SourceIsFile, RecordFields, ContentFacts DEF Shape, Replacing
      <4> QED BY <3>1, <3>2, <3>3, <3>4, <4>1, <4>2
    <3>5. CASE task[p].attempt # 1
      <4>1. Source(p) = task[p].own BY <3>5 DEF Source
      <4>2. \/ task[p].start = Damaged \/ task[p].own \in removed
            \/ file[task[p].own].content # Damaged /\ file[task[p].own].content >= task[p].start
        BY <2>0, <3>1, <3>2 DEF Snapshot, SnapshotAt
      <4> QED BY <1>0, <3>1, <3>3, <3>5, <4>1, <4>2
    <3> QED BY <3>4, <3>5
  <2>3. CASE RestoreFails(p)
    <3>1. /\ task'[p].pc \in {"lost", "reset", "failed"}
          /\ task'[p].own = task[p].own /\ task'[p].start = task[p].start
          /\ task[p].kind = "PRE_RESTORE" /\ task[p].pc \in Replacing
      BY <2>3, RestoreFailsOK
    <3>2. task'[p].pc = "failed" => ~file[task[p].own].there BY <2>3, RestoreFailsOK
    <3>3. ~file[task[p].own].there => task[p].own \in removed
      BY <3>1 DEF Snapshot, SnapshotAt, Replacing
    <3> QED BY <1>0, <3>1, <3>2, <3>3
  <2>4. CASE RestoreDone(p)
    <3>1. /\ task[p].attempt = 2 /\ task[p].pc = "verify" /\ task[p].kind = "PRE_RESTORE"
          /\ task'[p].pc = "failed" /\ task'[p].own = task[p].own /\ task'[p].start = task[p].start
          /\ task[p].spoilt # "partly"
      BY <1>2, <2>0, <2>4, RestoreDoneOK
    <3>2. db' = db BY <2>4 DEF RestoreDone
    <3> QED BY <1>0, <2>0, <3>1, <3>2 DEF Returned
  <2>5. CASE DumpFails(p)
    <3>1. Restoring(p) BY <1>2, <2>0, <2>5, DumpFailsOK
    <3>2. task[p].pc \in BeforeReset /\ task[p].kind = "PRE_RESTORE" /\ db' = db
      BY <2>5, <3>1 DEF DumpFails, DumpRefused, Dumping, BeforeReset, Restoring
    <3>3. task'[p].pc = "failed" /\ task'[p].own = task[p].own /\ task'[p].start = task[p].start
      BY <2>5, <3>1, DumpFailsOK
    <3> QED BY <2>0, <3>2, <3>3 DEF Untouched
  <2>6. CASE \E type \in {"MANUAL", "SCHEDULED"} : BeginBackup(p, type) BY <2>6, BeginBackupOK
  <2>7. CASE DumpReads(p) \/ DumpEnds(p) \/ Validated(p) \/ RestoreResumes(p) \/ Reset(p)
    BY <2>7, DumpReadsOK, DumpEndsOK, ValidatedOK, RestoreResumesOK, ResetOK
  <2>8. CASE BackupDone(p) BY <1>2, <2>8, BackupDoneOK
  <2>9. CASE \E f \in Files : BeginRestore(p, f) \/ BeginList(p, f)
    BY <2>9, BeginRestoreOK, BeginListOK
  <2>10. CASE Prune(p) \/ ValidationFails(p) \/ RestoreThrows(p) \/ ListWrites(p) \/ UploadEnds(p)
    BY <1>2, <2>0, <2>10, PruneOK, ValidationFailsOK, RestoreThrowsOK, ListWritesOK, UploadEndsOK
  <2>11. CASE \E whole \in BOOLEAN : BeginUpload(p, whole) BY <2>11, BeginUploadOK
  <2>12. CASE LoadStops(p) BY <1>2, <2>12, LoadStopsOK
  <2> QED BY <2>1, <2>2, <2>3, <2>4, <2>5, <2>6, <2>7, <2>8, <2>9, <2>10, <2>11, <2>12 DEF Steps
<1> QED BY <1>1, <1>2 DEF Returned

-----------------------------------------------------------------------------
(* The invariant.                                                          *)

RestoreInv == DumpInv /\ Snapshot /\ Untouched /\ UndoSafe /\ Returned

LEMMA InitRestoreInv ==
  ASSUME Init
  PROVE  RestoreInv
<1>1. \A q \in Tasks : task[q] = Idle BY DEF Init
<1>2. Idle.pc = "idle" /\ Idle.kind = "none" BY IdleIsWork
<1>3. Snapshot /\ Untouched /\ Returned BY <1>1, <1>2 DEF Snapshot, Untouched, Returned
<1>4. UndoSafe
  <2>1. db = 0 /\ overtaken = {} BY DEF Init
  <2> QED BY <1>1, <1>2, <2>1 DEF UndoSafe, Damaged
<1> QED BY <1>3, <1>4, InitDumpInv DEF RestoreInv

LEMMA DeleteKeeps ==
  ASSUME RestoreInv, NEW f \in Files, Delete(f)
  PROVE  Snapshot' /\ Untouched' /\ UndoSafe' /\ Returned'
<1> USE DEF RestoreInv, DumpInv
<1>1. /\ f \in removed' /\ removed \subseteq removed'
      /\ file'[f].whole = file[f].whole /\ file'[f].type = file[f].type
      /\ file'[f].content = file[f].content
      /\ \A g \in Files : g # f => file'[g] = file[g]
  BY DeleteOK
<1>2. task' = task /\ db' = db /\ undo' = undo /\ overtaken' = overtaken BY DEF Delete
<1>3. Untouched' BY <1>2 DEF Untouched
<1>4. ASSUME NEW g \in Files PROVE file'[g].whole = file[g].whole /\ file'[g].content = file[g].content
  BY <1>1
<1>5. Snapshot'
  <2> SUFFICES ASSUME NEW q \in Tasks, task'[q].kind = "PRE_RESTORE", task'[q].pc \in SnapshotAt
               PROVE  LET s == file'[task'[q].own] IN
                      \/ task'[q].own \in removed'
                      \/ /\ s.there /\ s.type # "SCHEDULED"
                         /\ task'[q].pc \notin {"dump", "dumping"} => s.whole
                         /\ task'[q].pc \notin Dumping => s.type # "none"
                         /\ task'[q].pc # "dump" /\ task'[q].start # Damaged /\ q \notin overtaken' =>
                              s.content # Damaged /\ s.content >= task'[q].start
    BY DEF Snapshot
  <2>1. task[q].own \in Files BY <1>2, RestoresOwn
  <2>2. CASE task[q].own = f BY <1>1, <1>2, <2>2
  <2>3. CASE task[q].own # f BY <1>1, <1>2, <2>1, <2>3 DEF Snapshot
  <2> QED BY <2>2, <2>3
<1>6. UndoSafe'
  <2>1. UndoGood => UndoGood'
    <3>1. CASE undo.file = f BY <1>1, <1>2, <3>1 DEF UndoGood
    <3>2. CASE undo.file # f BY <1>1, <1>2, <3>2 DEF UndoGood
    <3> QED BY <3>1, <3>2
  <2> QED BY <1>2, <2>1 DEF UndoSafe
<1>7. Returned'
  <2>1. \A q \in Tasks : task[q].pc = "verify" => task[q].target \in Files BY SourceIsFile DEF Replacing
  <2> QED BY <1>1, <1>2, <1>4, <2>1 DEF Returned
<1> QED BY <1>3, <1>5, <1>6, <1>7

LEMMA AppWritesKeeps ==
  ASSUME RestoreInv, AppWrites
  PROVE  Snapshot' /\ Untouched' /\ UndoSafe' /\ Returned'
<1> USE DEF RestoreInv, DumpInv
<1>1. db # Damaged /\ db' # Damaged /\ db' = db + 1 BY AppWritesOK
<1>2. /\ task' = task /\ undo' = undo /\ file' = file /\ removed' = removed
      /\ overtaken' = overtaken
  BY DEF AppWrites
<1>3. /\ db \in Int /\ \A q \in Tasks : task[q].start \in Int
      /\ \A q \in Tasks : task[q].pc = "verify" => file[task[q].target].content \in Int
  <2>1. \A q \in Tasks : task[q] \in TaskRecord BY DEF Shape, Work
  <2>2. \A q \in Tasks : task[q].pc = "verify" => file[task[q].target] \in FileRecord
    BY SourceIsFile DEF Replacing, Shape
  <2> QED BY <2>1, <2>2, RecordFields, ContentFacts DEF Shape
<1>4. Snapshot' BY <1>2 DEF Snapshot
<1>5. Untouched' BY <1>1, <1>2, <1>3 DEF Untouched
<1>6. UndoSafe' BY <1>1, <1>2 DEF UndoSafe, UndoGood
<1>7. Returned' BY <1>1, <1>2, <1>3 DEF Returned
<1> QED BY <1>4, <1>5, <1>6, <1>7

LEMMA CrashKeeps ==
  ASSUME RestoreInv, Crash
  PROVE  Snapshot' /\ Untouched' /\ UndoSafe' /\ Returned'
<1> USE DEF RestoreInv, DumpInv
<1>1. \A q \in Tasks : task'[q] = Idle BY CrashOK
<1>2. undo' = undo /\ file' = file /\ removed' = removed /\ db' = db /\ overtaken' = {} BY DEF Crash
<1>3. Idle.pc = "idle" /\ Idle.kind = "none" BY IdleIsWork
<1>4. Snapshot' /\ Untouched' /\ Returned' BY <1>1, <1>3 DEF Snapshot, Untouched, Returned
<1>5. UndoSafe'
  <2>1. db' = Damaged => UndoGood BY <1>2 DEF UndoSafe
  <2>2. UndoGood => UndoGood' BY <1>2 DEF UndoGood
  <2> QED BY <1>1, <1>2, <1>3, <2>1, <2>2 DEF UndoSafe
<1> QED BY <1>4, <1>5

LEMMA NextKeepsRestoreInv ==
  ASSUME RestoreInv, [Next]_vars
  PROVE  RestoreInv'
<1>0. DumpInv' BY NextKeepsDumpInv DEF RestoreInv
<1>1. CASE UNCHANGED vars
  BY <1>0, <1>1 DEF vars, RestoreInv, Snapshot, Untouched, UndoSafe, UndoGood, Returned
<1>2. ASSUME NEW p \in Tasks, Steps(p) PROVE RestoreInv'
  BY <1>0, <1>2, StepKeepsSnapshot, StepKeepsUntouched, StepKeepsUndoSafe, StepKeepsReturned
     DEF RestoreInv, DumpInv
<1>3. ASSUME NEW f \in Files, Delete(f) PROVE RestoreInv' BY <1>0, <1>3, DeleteKeeps DEF RestoreInv
<1>4. CASE AppWrites BY <1>0, <1>4, AppWritesKeeps DEF RestoreInv
<1>5. CASE Crash BY <1>0, <1>5, CrashKeeps DEF RestoreInv
<1> QED BY <1>1, <1>2, <1>3, <1>4, <1>5, NextIsSteps

LEMMA RestoreInvAlways == Spec => []RestoreInv
<1>1. Init => RestoreInv BY InitRestoreInv
<1>2. RestoreInv /\ [Next]_vars => RestoreInv' BY NextKeepsRestoreInv
<1> QED BY <1>1, <1>2, PTL DEF Spec

\* Whenever the database is not whole, the snapshot of the restore that emptied it first is
\* on the disk, whole and no older than the request, however tools fail, noticed or not,
\* restores and other tasks overlap, lists write metadata over a dump that is still made, and
\* the process dies.
THEOREM SnapshotIsKept == Spec => []SafeCopy
<1>1. RestoreInv => SafeCopy
  BY DEF RestoreInv, UndoSafe, UndoGood, SafeCopy, Files
<1> QED BY <1>1, RestoreInvAlways, PTL

\* A restore that fails gives the requested database back, one that succeeds its target, for
\* any number of failures, unless another restore overtook it, its load stopped half-way
\* unnoticed, or its rollback failed too.
THEOREM RestoreGivesBack == Spec => RestoreReturns
<1> DEFINE Kept(p) ==
             \/ p \in overtaken \/ task[p].spoilt = "partly" \/ task[p].pc = "lost"
             \/ task[p].pc = "verify" /\ db' >= file[task[p].target].content
             \/ /\ task[p].pc # "verify"
                /\ db' >= task[p].start \/ task[p].own \in removed
<1>1. ASSUME RestoreInv, [Next]_vars, ~UNCHANGED vars,
             NEW p \in Tasks, Restoring(p), task'[p] = Idle, crashes' = crashes
      PROVE  Kept(p)
  <2> SUFFICES ASSUME p \notin overtaken, task[p].spoilt # "partly", task[p].pc # "lost"
               PROVE  \/ task[p].pc = "verify" /\ db' >= file[task[p].target].content
                      \/ /\ task[p].pc # "verify"
                         /\ db' >= task[p].start \/ task[p].own \in removed
    OBVIOUS
  <2> USE <1>1 DEF RestoreInv, DumpInv
  <2>0. /\ task[p].kind = "PRE_RESTORE" /\ task[p] # Idle
        /\ Idle.pc = "idle" /\ Idle.kind = "none"
    BY IdleIsWork DEF Restoring
  <2>1. db \in Contents /\ \A c \in Contents : c >= Damaged BY ContentFacts DEF Shape
  <2>2. Steps(p)
    <3>1. ASSUME NEW a \in Tasks, a # p, Steps(a) PROVE FALSE BY <2>0, <3>1, StepFrame
    <3>2. ASSUME NEW f \in Files, Delete(f) PROVE FALSE BY <2>0, <3>2 DEF Delete
    <3>3. CASE AppWrites BY <2>0, <3>3 DEF AppWrites
    <3>4. CASE Crash
      <4>1. crashes' = crashes + 1 /\ crashes \in Int BY <3>4 DEF Crash, Shape
      <4> QED BY <4>1
    <3> QED BY <3>1, <3>2, <3>3, <3>4, NextIsSteps
  <2>3. CASE ValidationFails(p)
    <3>1. task[p].pc = "validate" /\ db' = db BY <2>3 DEF ValidationFails
    <3>2. task[p].start = Damaged \/ db >= task[p].start BY <2>0, <3>1 DEF Untouched, BeforeReset
    <3> QED BY <2>1, <3>1, <3>2
  <2>4. CASE RestoreDone(p)
    <3>1. task[p].pc = "verify" /\ task[p].attempt = 1 /\ db' = db
      BY <2>0, <2>4, RestoreDoneOK DEF RestoreDone
    <3> QED BY <2>0, <3>1 DEF Returned
  <2>5. CASE RestoreThrows(p)
    <3>1. task[p].pc \in {"failed", "lost"} /\ db' = db BY <2>5 DEF RestoreThrows
    <3>2. task[p].pc = "failed" => \/ task[p].start = Damaged \/ task[p].own \in removed
                                   \/ db >= task[p].start
      BY <2>0 DEF Returned
    <3> QED BY <2>1, <3>1, <3>2
  <2>6. CASE \/ \E type \in {"MANUAL", "SCHEDULED"} : BeginBackup(p, type)
             \/ \E f \in Files : BeginRestore(p, f) \/ BeginList(p, f)
             \/ \E whole \in BOOLEAN : BeginUpload(p, whole)
    BY <2>0, <2>6, BeginBackupOK, BeginRestoreOK, BeginListOK, BeginUploadOK
  <2>7. CASE DumpReads(p) \/ DumpEnds(p) \/ Validated(p) \/ RestoreResumes(p)
    BY <2>0, <2>7, DumpReadsOK, DumpEndsOK, ValidatedOK, RestoreResumesOK
  <2>8. CASE DumpFails(p) \/ BackupDone(p)
    BY <2>0, <2>8, DumpFailsOK, BackupDoneOK
  <2>9. CASE Reset(p) \/ LoadStarts(p) \/ LoadEnds(p) \/ LoadStops(p)
    BY <2>0, <2>9, ResetOK, LoadStartsOK, LoadEndsOK, LoadStopsOK
  <2>10. CASE RestoreFails(p) BY <2>0, <2>10, RestoreFailsOK
  <2>11. CASE Prune(p) \/ ListWrites(p) \/ UploadEnds(p)
    BY <2>0, <2>11, PruneOK, ListWritesOK, UploadEndsOK
  <2> QED BY <2>2, <2>3, <2>4, <2>5, <2>6, <2>7, <2>8, <2>9, <2>10, <2>11 DEF Steps
<1>2. RestoreInv /\ [Next]_vars =>
        [\A p \in Tasks : Restoring(p) /\ task'[p] = Idle /\ crashes' = crashes => Kept(p)]_vars
  BY <1>1
<1> QED BY <1>2, RestoreInvAlways, PTL DEF Spec, RestoreReturns

-----------------------------------------------------------------------------
(* The retention policy.                                                   *)

\* Of the dumps that are pruned together one is the newest.
LEMMA NewestOf ==
  ASSUME NEW S \in SUBSET Files, S # {}
  PROVE  \E m \in S : \A g \in S : g <= m
<1> DEFINE Above(x) == {g \in Files : g > x}
           T == {Above(x) : x \in S}
           R == StrictSubsetOrdering(Files)
<1>1. IsFiniteSet(Files) BY FS_Interval DEF Files
<1>2. IsWellFoundedOn(R, SUBSET Files)
  BY <1>1, FS_StrictSubsetOrderingWellFounded, FS_FiniteSubsetsOfFinite
<1>3. T \subseteq SUBSET Files /\ T # {} OBVIOUS
<1>4. PICK U \in T : \A V \in T : ~(<<V, U>> \in R)
  <2> HIDE DEF T, R
  <2> QED BY <1>2, <1>3, WFMin
<1>5. PICK m \in S : U = Above(m) OBVIOUS
<1>6. ASSUME NEW g \in S, g > m PROVE FALSE
  <2>1. m \in Nat /\ g \in Nat /\ g \in Files BY DEF Files
  <2>2. Above(g) \in T /\ Above(g) \in SUBSET Files /\ U \in SUBSET Files BY <1>5
  <2>3. \A h \in Files : h \in Nat BY DEF Files
  <2>4. Above(g) \subseteq U /\ Above(g) # U
    <3>1. Above(g) \subseteq Above(m)
      <4>1. ASSUME NEW h \in Files, h > g PROVE h > m BY <1>6, <2>1, <2>3, <4>1
      <4> QED BY <4>1
    <3>2. g \in Above(m) BY <1>6, <2>1
    <3>3. g \notin Above(g) BY <2>1
    <3> QED BY <1>5, <3>1, <3>2, <3>3
  <2>5. <<Above(g), U>> \in R BY <2>2, <2>4 DEF StrictSubsetOrdering
  <2> QED BY <1>4, <2>2, <2>5
<1>7. \A g \in S : g <= m
  <2>1. \A g \in S : g \in Nat /\ m \in Nat BY DEF Files
  <2> QED BY <1>6, <2>1
<1> QED BY <1>7

\* However the retention interleaves with dumps, lists and deletions, a scheduled backup it
\* removes leaves RetentionCount newer ones, and it removes nothing else.
THEOREM RetentionKeepsNewest == Spec => OnlyOldScheduledPruned
<1>1. ASSUME DumpInv, [Next]_vars, ~UNCHANGED vars, NEW f \in Files,
             Listed(f), file[f].whole, ~Making(f), ~file'[f].there, f \notin removed'
      PROVE  /\ file[f].type = "SCHEDULED"
             /\ Cardinality({g \in Scheduled : g > f /\ file'[g].there}) >= RetentionCount
  <2> USE <1>1 DEF DumpInv
  <2>0. file[f].there /\ file[f].type # "none" BY DEF Listed
  <2>1. f <= made /\ f \in Nat
    <3>1. made \in Nat /\ f \in Nat BY OwnsAreNumbers DEF Files
    <3> QED BY <3>1 DEF Unfinished
  <2>2. PICK p \in Tasks : Steps(p)
    <3>1. ASSUME NEW g \in Files, Delete(g) PROVE FALSE
      <4>1. CASE g = f BY <3>1, <4>1, DeleteOK
      <4>2. CASE g # f BY <2>0, <3>1, <4>2, DeleteOK
      <4> QED BY <4>1, <4>2
    <3>2. CASE AppWrites \/ Crash BY <2>0, <3>2 DEF AppWrites, Crash
    <3> QED BY <3>1, <3>2, NextIsSteps
  <2>3. CASE Prune(p)
    <3>1. PICK gone \in SUBSET ToDelete :
            file' = [g \in Files |-> IF g \in gone THEN [file[g] EXCEPT !.there = FALSE] ELSE file[g]]
      BY <2>3 DEF Prune
    <3>2. f \in gone BY <2>0, <3>1
    <3>3. gone \in SUBSET Files BY DEF ToDelete, Scheduled
    <3>4. PICK m \in gone : \A g \in gone : g <= m BY <3>2, <3>3, NewestOf
    <3> DEFINE Newer == {g \in Scheduled : g > m}
               Kept == {g \in Scheduled : g > f /\ file'[g].there}
    <3>5. Cardinality(Newer) >= RetentionCount BY DEF ToDelete
    <3>6. m >= f /\ m \in Nat BY <3>2, <3>3, <3>4 DEF Files
    <3>7. Newer \subseteq Kept
      <4> SUFFICES ASSUME NEW g \in Scheduled, g > m PROVE g > f /\ file'[g].there
        OBVIOUS
      <4>1. g \in Files /\ g \in Nat /\ file[g].there BY DEF Scheduled, Files
      <4>2. g \notin gone BY <3>4, <3>6, <4>1
      <4> QED BY <2>1, <3>1, <3>6, <4>1, <4>2
    <3>8. IsFiniteSet(Kept)
      <4>1. IsFiniteSet(Files) BY FS_Interval DEF Files
      <4>2. Kept \in SUBSET Files BY DEF Scheduled
      <4> QED BY <4>1, <4>2, FS_Subset
    <3>9. Cardinality(Newer) <= Cardinality(Kept) BY <3>7, <3>8, FS_Subset
    <3>10. Cardinality(Newer) \in Nat /\ Cardinality(Kept) \in Nat
      BY <3>7, <3>8, FS_Subset, FS_CardinalityType
    <3>11. Cardinality(Kept) >= RetentionCount
      <4> HIDE DEF Newer, Kept
      <4> QED BY <3>5, <3>9, <3>10, BackupAssumption
    <3>12. file[f].type = "SCHEDULED" BY <3>2 DEF ToDelete, Scheduled
    <3> QED BY <3>11, <3>12
  <2>4. CASE UploadEnds(p)
    <3>1. CASE task[p].own = f
      <4>1. file' = [file EXCEPT ![f].type = "MANUAL"] BY <2>0, <2>4, <3>1 DEF UploadEnds
      <4> QED BY <2>0, <4>1 DEF Shape
    <3>2. CASE task[p].own # f BY <2>0, <2>4, <3>2, UploadEndsOK
    <3> QED BY <3>1, <3>2
  <2>5. CASE \/ DumpReads(p) \/ DumpEnds(p) \/ DumpFails(p) \/ BackupDone(p)
    <3>1. task[p].pc \in Dumping
      BY <2>5 DEF DumpReads, DumpEnds, DumpFails, BackupDone, Dumping
    <3>2. task[p].own # f BY <3>1 DEF Making
    <3> QED BY <2>0, <2>5, <3>2, DumpReadsOK, DumpEndsOK, DumpFailsOK, BackupDoneOK
  <2>6. CASE (\E type \in {"MANUAL", "SCHEDULED"} : BeginBackup(p, type)) \/ Validated(p)
    <3>1. StartsDump BY <2>6 DEF BeginBackup, Validated
    <3> QED BY <2>0, <3>1, StartsDumpOK
  <2>7. CASE ListWrites(p) BY <2>0, <2>7, ListWritesOK
  <2>8. CASE \E whole \in BOOLEAN : BeginUpload(p, whole)
    <3>1. \A g \in Files : g # made + 1 => file'[g] = file[g] BY <2>8, BeginUploadOK
    <3>2. made \in Nat BY OwnsAreNumbers
    <3> QED BY <2>0, <2>1, <3>1, <3>2
  <2>9. CASE \/ \E g \in Files : BeginRestore(p, g) \/ BeginList(p, g)
             \/ ValidationFails(p) \/ RestoreResumes(p) \/ Reset(p) \/ LoadStarts(p) \/ LoadEnds(p)
             \/ LoadStops(p) \/ RestoreFails(p) \/ RestoreDone(p) \/ RestoreThrows(p)
    BY <2>0, <2>9 DEF BeginRestore, BeginList, ValidationFails, RestoreResumes, Reset, LoadStarts,
                      LoadEnds, LoadStops, RestoreFails, RestoreDone, RestoreThrows
  <2> QED BY <2>2, <2>3, <2>4, <2>5, <2>6, <2>7, <2>8, <2>9 DEF Steps
<1>2. DumpInv /\ [Next]_vars =>
        [\A f \in Files :
           Listed(f) /\ file[f].whole /\ ~Making(f) /\ ~file'[f].there /\ f \notin removed' =>
             /\ file[f].type = "SCHEDULED"
             /\ Cardinality({g \in Scheduled : g > f /\ file'[g].there}) >= RetentionCount]_vars
  BY <1>1
<1> QED BY <1>2, DumpInvAlways, PTL DEF Spec, OnlyOldScheduledPruned
=============================================================================
