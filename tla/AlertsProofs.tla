---------------------------- MODULE AlertsProofs ----------------------------
(***************************************************************************)
(* Proofs about Alerts for every number of requests, alerts, care logs,    *)
(* lecturers, levels and absences, and every overlap of the handlers.      *)
(***************************************************************************)
EXTENDS Alerts, FiniteSetTheorems, TLAPS

USE AlertsAssumption

-----------------------------------------------------------------------------
(* Types.                                                                  *)

Open == {"OPEN", "ACKNOWLEDGED"}

\* What a request can be doing, with what it has read by then.
Work ==
  {p \in ProcRecord :
     /\ p.op = "none" => p = Idle
     /\ p.op \in Ops => p.at # "idle"
     /\ p.op # "send"
     /\ p.at \in {"read", "tell"} => p.op \in {"raise", "review"}
     /\ p.at = "commit" => p.op = "uncare"
     /\ p.at = "read" => p.alert = 0
     /\ p.at = "tell" => p.alert # 0 /\ p.n \in 0..4
     /\ p.op = "raise" => p.n \in 0..4
     /\ p.op \in {"raise", "review"} /\ p.at = "write" /\ p.alert # 0 => p.seen.st \in Open
     /\ p.op = "ack" => p.seen.st = "OPEN"
     /\ p.op \in {"ack", "resolve", "care", "uncare", "delete"} => p.alert # 0
     /\ p.op \in {"care", "uncare"} => p.by \in Staff
     /\ p.op = "uncare" => p.n \in Logs}

LogRecord == [alert : 0..MaxAlerts, by : Staff \cup {None}]

Shape ==
  /\ alert \in [Alerts -> AlertRecord]
  /\ made \in 0..MaxAlerts /\ logs \in 0..MaxLogs
  /\ log \in [Logs -> LogRecord]
  /\ \A l \in Logs : log[l].alert # 0 => log[l].by \in Staff
  /\ lecturer \in Lecturers
  /\ absent \in Absences /\ exempt \in BOOLEAN
  /\ lock \in Requests \cup {None}
  /\ due \in [Alerts -> 0..4] /\ told \in [Alerts -> 0..4] /\ lost \in [Alerts -> 0..4]
  /\ blind \subseteq Alerts /\ handed \subseteq Alerts
  /\ proc \in [Requests -> Work]

\* The advisory lock is held from the read of raise to the end of its transaction.
LockHeld == \A r \in Requests : lock = r <=> proc[r].op = "raise" /\ proc[r].at = "write"

\* A step of r leaves the other requests where they are, and may end what r was doing.
Others(r) == \A q \in Requests : q # r => proc'[q] = proc[q]
Done(r) == Others(r) /\ proc'[r].at \in {"idle", "tell"}

\* Names for the fields' sets, which the provers need not see into.
Level == 0..4
Stages == {"none", "OPEN", "ACKNOWLEDGED", "RESOLVED", "deleted"}
RowNumbers == 0..MaxAlerts
Steps == {"idle", "read", "write", "commit", "tell"}
OpNames == Ops \cup {"none"}
People == Staff \cup {None}

LEMMA RecordFields ==
  /\ AlertRecord = [st : Stages, level : Level, source : {"none", "MANUAL", "AUTO_ATTENDANCE"},
                    by : {"none", "raise", "review", "send"}, cared : Level]
  /\ LogRecord = [alert : RowNumbers, by : People]
  /\ 0 \in Level /\ "OPEN" \in Stages /\ "ACKNOWLEDGED" \in Stages /\ "RESOLVED" \in Stages
  /\ "deleted" \in Stages /\ Level \subseteq Nat
  /\ ProcRecord = [op : OpNames, at : Steps, alert : RowNumbers, n : Nat, seen : AlertRecord,
                   known : RowNumbers, by : People, mark : BOOLEAN]
  /\ Ops \subseteq OpNames /\ Alerts \subseteq RowNumbers /\ Logs \subseteq Nat
  /\ Staff \subseteq People /\ None \in People
  /\ "read" \in Steps /\ "write" \in Steps /\ "commit" \in Steps /\ "tell" \in Steps
  BY DEF AlertRecord, ProcRecord, LogRecord, Stages, Level, RowNumbers, Steps, OpNames, People, Alerts, Logs

LEMMA IdleIsWork == Idle \in Work /\ Idle.op = "none" /\ Idle.at = "idle" /\ Idle.alert = 0
  BY DEF Work, ProcRecord, Idle, AlertRecord, NoAlert, Ops

\* A request goes on from one record to another.
LEMMA GotoOK ==
  ASSUME Shape, NEW r \in Requests, NEW rec \in Work, Goto(r, rec)
  PROVE  proc' \in [Requests -> Work] /\ proc'[r] = rec /\ Others(r)
  BY DEF Shape, Goto, Others

LEMMA TellsOK ==
  ASSUME Shape, NEW r \in Requests, proc[r].op \in {"raise", "review"},
         NEW a \in Alerts, NEW level \in 0..4, Tells(r, a, level)
  PROVE  /\ proc' \in [Requests -> Work] /\ Done(r) /\ proc'[r].at = "tell"
         /\ proc'[r].op = proc[r].op /\ proc'[r].alert = a /\ proc'[r].n = level
<1> DEFINE op == proc[r].op
           rec == [Idle EXCEPT !.op = op, !.at = "tell", !.alert = a, !.n = level]
<1>1. Goto(r, rec) BY DEF Tells
<1>2. op \in {"raise", "review"} OBVIOUS
<1>3. op = proc[r].op OBVIOUS
<1> HIDE DEF op
<1>4. rec.op = op /\ rec.at = "tell" /\ rec.alert = a /\ rec.n = level BY DEF Idle
<1>5. Idle \in ProcRecord BY IdleIsWork DEF Work
<1>6. rec \in ProcRecord
  <2> HIDE DEF Idle
  <2>1. op \in OpNames /\ a \in RowNumbers /\ level \in Nat BY <1>2, RecordFields DEF Ops
  <2> QED BY <1>5, <2>1, RecordFields
<1> HIDE DEF rec
<1>7. rec \in Work BY <1>2, <1>4, <1>6 DEF Work, Ops, Alerts
<1> QED BY <1>1, <1>3, <1>4, <1>7, GotoOK DEF Done

LEMMA EndsOK ==
  ASSUME Shape, NEW r \in Requests, Ends(r)
  PROVE  proc' \in [Requests -> Work] /\ Done(r) /\ proc'[r] = Idle /\ proc'[r].op = "none"
  BY IdleIsWork, GotoOK DEF Ends, Done

\* Whoever neither enters nor leaves the transaction of raise leaves the lock alone.
LEMMA KeepsLock ==
  ASSUME LockHeld, NEW r \in Requests, Others(r),
         ~(proc[r].op = "raise" /\ proc[r].at = "write"),
         ~(proc'[r].op = "raise" /\ proc'[r].at = "write"), lock' = lock
  PROVE  LockHeld'
  BY DEF LockHeld, Others

LEMMA ReleasesLock ==
  ASSUME LockHeld, NEW r \in Requests, Others(r),
         proc[r].op = "raise", proc[r].at = "write",
         ~(proc'[r].op = "raise" /\ proc'[r].at = "write"), lock' = None
  PROVE  LockHeld'
  BY DEF LockHeld, Others

LEMMA InitOK ==
  ASSUME Init
  PROVE  Shape /\ LockHeld
<1>1. Idle \in Work /\ Idle.op = "none" BY IdleIsWork
<1>2. NoAlert \in AlertRecord BY DEF NoAlert, AlertRecord
<1>3. NoLog \in LogRecord /\ NoLog.alert = 0 BY DEF NoLog, LogRecord
<1>4. absent \in Absences /\ exempt \in BOOLEAN BY DEF Init
<1>5. Shape
  <2> HIDE DEF Idle
  <2> QED BY <1>1, <1>2, <1>3, <1>4 DEF Init, Shape
<1>6. LockHeld BY <1>1 DEF Init, LockHeld
<1> QED BY <1>5, <1>6

\* The start of a handler that takes no lock and writes no row.
LEMMA StartsOK ==
  ASSUME Shape, LockHeld, NEW r \in Requests, proc[r] = Idle, NEW rec \in Work, Goto(r, rec),
         rec.op # "raise" \/ rec.at = "read",
         UNCHANGED <<alert, made, absent, exempt, lock, blind, caseVars, newsVars>>
  PROVE  Shape' /\ LockHeld' /\ Others(r) /\ proc'[r] = rec
<1>1. proc' \in [Requests -> Work] /\ proc'[r] = rec /\ Others(r) BY GotoOK
<1>2. LockHeld' BY <1>1, IdleIsWork, KeepsLock
<1>3. Shape' BY <1>1 DEF Shape, caseVars, newsVars
<1> QED BY <1>1, <1>2, <1>3

LEMMA BeginRaiseOK ==
  ASSUME Shape, LockHeld, NEW r \in Requests, NEW requested \in RaiseLevels, NEW system \in RaiseLevels,
         BeginRaise(r, requested, system)
  PROVE  Shape' /\ LockHeld' /\ Others(r) /\ proc'[r].at = "read"
<1> DEFINE n == IF system > requested THEN system ELSE requested
           rec == [Idle EXCEPT !.op = "raise", !.at = "read", !.n = n]
<1>1. n \in 0..4 OBVIOUS
<1> HIDE DEF n
<1>2. rec.op = "raise" /\ rec.at = "read" /\ rec.n = n /\ rec.alert = 0 BY DEF Idle
<1>3. rec \in ProcRecord
  <2>1. Idle \in ProcRecord BY IdleIsWork DEF Work
  <2>2. n \in Nat /\ "raise" \in Ops BY <1>1 DEF Ops
  <2> HIDE DEF Idle
  <2> QED BY <2>1, <2>2, RecordFields
<1>4. Goto(r, rec) /\ proc[r] = Idle BY DEF BeginRaise, Starts, n
<1> HIDE DEF rec
<1>5. rec \in Work BY <1>1, <1>2, <1>3 DEF Work, Ops
<1> QED BY <1>2, <1>4, <1>5, StartsOK DEF BeginRaise

\* What raise and the review read before they write.
Found(r) ==
  \/ OpenAlerts = {} /\ proc'[r].alert = 0 /\ proc'[r].known = made
  \/ proc'[r].alert \in OpenAlerts /\ proc'[r].seen = alert[proc'[r].alert]

LEMMA RaiseReadsOK ==
  ASSUME Shape, LockHeld, NEW r \in Requests, RaiseReads(r)
  PROVE  /\ Shape' /\ LockHeld' /\ Others(r)
         /\ proc'[r].op = "raise" /\ proc'[r].at = "write" /\ Found(r)
<1>1. proc[r] \in Work /\ proc[r].op = "raise" /\ proc[r].at = "read" BY DEF Shape, RaiseReads
<1>2. proc[r] \in ProcRecord /\ proc[r].alert = 0 /\ made \in RowNumbers
  BY <1>1 DEF Work, Shape, RowNumbers
<1>3. PICK rec \in Work :
         /\ Goto(r, rec) /\ rec.op = "raise" /\ rec.at = "write"
         /\ \/ OpenAlerts = {} /\ rec.alert = 0 /\ rec.known = made
            \/ rec.alert \in OpenAlerts /\ rec.seen = alert[rec.alert]
  <2>1. CASE OpenAlerts = {}
    <3> DEFINE rec == [proc[r] EXCEPT !.at = "write", !.known = made]
    <3>1. Goto(r, rec) BY <2>1 DEF RaiseReads
    <3>2. rec \in ProcRecord BY <1>2, RecordFields
    <3>3. rec.op = "raise" /\ rec.at = "write" /\ rec.alert = 0 /\ rec.n = proc[r].n /\ rec.known = made
      BY <1>1, <1>2, RecordFields
    <3> HIDE DEF rec
    <3>4. rec \in Work BY <1>1, <3>2, <3>3 DEF Work, Ops
    <3> QED BY <2>1, <3>1, <3>3, <3>4
  <2>2. CASE OpenAlerts # {}
    <3>1. PICK a \in Highest : Goto(r, [proc[r] EXCEPT !.at = "write", !.alert = a, !.seen = alert[a]])
      BY <2>2 DEF RaiseReads
    <3> DEFINE seen == alert[a]
               rec == [proc[r] EXCEPT !.at = "write", !.alert = a, !.seen = seen]
    <3>2. a \in OpenAlerts /\ a \in Alerts /\ seen \in AlertRecord /\ seen.st \in Open
      BY DEF Highest, OpenAlerts, IsOpen, Open, Shape
    <3>3. Goto(r, rec) BY <3>1
    <3>4. seen = alert[a] OBVIOUS
    <3> HIDE DEF seen
    <3>5. rec \in ProcRecord BY <1>2, <3>2, RecordFields
    <3>6. rec.op = "raise" /\ rec.at = "write" /\ rec.n = proc[r].n /\ rec.alert = a /\ rec.seen = seen
      BY <1>1, <1>2, RecordFields
    <3> HIDE DEF rec
    <3>7. rec \in Work BY <1>1, <3>2, <3>5, <3>6 DEF Work, Ops
    <3> QED BY <3>2, <3>3, <3>4, <3>6, <3>7
  <2> QED BY <2>1, <2>2
<1>4. proc' \in [Requests -> Work] /\ proc'[r] = rec /\ Others(r) BY <1>3, GotoOK
<1>5. Shape' BY <1>4 DEF RaiseReads, Shape, caseVars, newsVars
<1>6. LockHeld' BY <1>3, <1>4 DEF RaiseReads, LockHeld, Others
<1> QED BY <1>3, <1>4, <1>5, <1>6 DEF Found

LEMMA NewAlertOK ==
  ASSUME NEW level \in 0..4, NEW source \in {"MANUAL", "AUTO_ATTENDANCE"}, NEW by \in {"raise", "review", "send"}
  PROVE  /\ NewAlert(level, source, by) \in AlertRecord
         /\ NewAlert(level, source, by).st = "OPEN" /\ NewAlert(level, source, by).cared = 0
         /\ NewAlert(level, source, by).level = level /\ NewAlert(level, source, by).source = source
         /\ NewAlert(level, source, by).by = by
  BY DEF NewAlert, AlertRecord

\* A further row.
LEMMA AddedOK ==
  ASSUME Shape, made < MaxAlerts, NEW row \in AlertRecord
  PROVE  /\ made + 1 \in Alerts /\ made + 1 \in 0..MaxAlerts
         /\ Added(row) \in [Alerts -> AlertRecord] /\ Added(row)[made + 1] = row
         /\ \A b \in Alerts : b # made + 1 => Added(row)[b] = alert[b]
  BY DEF Shape, Added, Alerts

LEMMA BlindsOK ==
  ASSUME Shape, NEW a \in Alerts, NEW p \in BOOLEAN, Blinds(a, p)
  PROVE  blind' \subseteq Alerts /\ blind \subseteq blind' /\ (p => a \in blind')
  BY DEF Shape, Blinds

LEMMA EscalatedOK ==
  ASSUME Shape, NEW a \in Alerts, NEW level \in 0..4
  PROVE  /\ Escalated(a, level) \in AlertRecord /\ Escalated(a, level).st = "OPEN"
         /\ Escalated(a, level).level = level /\ Escalated(a, level).cared = 0
         /\ Escalated(a, level).source = alert[a].source /\ Escalated(a, level).by = alert[a].by
<1>1. alert[a] \in AlertRecord BY DEF Shape
<1>2. level \in Level BY DEF Level
<1> QED BY <1>1, <1>2, RecordFields DEF Escalated

LEMMA StatusOK ==
  ASSUME Shape, NEW a \in Alerts, NEW st \in Stages
  PROVE  LET row == [alert[a] EXCEPT !.st = st] IN
         /\ row \in AlertRecord /\ row.st = st /\ row.level = alert[a].level
         /\ row.cared = alert[a].cared /\ row.source = alert[a].source /\ row.by = alert[a].by
<1>1. alert[a] \in AlertRecord BY DEF Shape
<1> QED BY <1>1, RecordFields

LEMMA RaiseCreatesOK ==
  ASSUME Shape, LockHeld, NEW r \in Requests, RaiseCreates(r)
  PROVE  Shape' /\ LockHeld' /\ Done(r) /\ proc'[r].at = "tell" /\ proc'[r].alert = made + 1
         /\ proc'[r].n = proc[r].n /\ proc[r].n \in 0..4
<1>1. proc[r].op = "raise" /\ proc[r].at = "write" /\ proc[r].n \in 0..4
  BY DEF RaiseCreates, Shape, Work
<1>2. made + 1 \in Alerts /\ made + 1 \in 0..MaxAlerts BY DEF RaiseCreates, Shape, Alerts
<1>3. /\ proc' \in [Requests -> Work] /\ Done(r) /\ proc'[r].at = "tell"
      /\ proc'[r].alert = made + 1 /\ proc'[r].n = proc[r].n
  BY <1>1, <1>2, TellsOK DEF RaiseCreates
<1>4. alert' \in [Alerts -> AlertRecord]
  BY <1>1, <1>2, NewAlertOK DEF RaiseCreates, Added, Shape
<1>5. blind' \subseteq Alerts BY <1>2 DEF RaiseCreates, Blinds, Shape
<1>6. Shape' BY <1>2, <1>3, <1>4, <1>5 DEF RaiseCreates, Shape, caseVars, newsVars
<1>7. LockHeld' BY <1>1, <1>3, ReleasesLock DEF RaiseCreates, Done
<1> QED BY <1>1, <1>3, <1>6, <1>7

LEMMA RaiseEscalatesOK ==
  ASSUME Shape, LockHeld, NEW r \in Requests, RaiseEscalates(r)
  PROVE  /\ Shape' /\ LockHeld' /\ Done(r) /\ proc'[r].at = "tell" /\ proc'[r].alert = proc[r].alert
         /\ proc'[r].n = proc[r].n /\ proc[r].n \in 0..4 /\ proc[r].alert \in Alerts
         /\ proc[r].seen.st \in Open
<1> DEFINE a == proc[r].alert
<1>1. proc[r].op = "raise" /\ proc[r].at = "write" /\ proc[r].n \in 0..4 /\ proc[r].seen.st \in Open
  BY DEF RaiseEscalates, Shape, Work
<1>2. a \in Alerts BY DEF RaiseEscalates, Shape, Work, ProcRecord, Alerts
<1>3. /\ proc' \in [Requests -> Work] /\ Done(r) /\ proc'[r].at = "tell"
      /\ proc'[r].alert = a /\ proc'[r].n = proc[r].n
  BY <1>1, <1>2, TellsOK DEF RaiseEscalates
<1>4. alert' \in [Alerts -> AlertRecord]
  BY <1>1, <1>2, EscalatedOK DEF RaiseEscalates, Shape
<1>5. blind' \subseteq Alerts BY <1>2 DEF RaiseEscalates, Blinds, Shape
<1>6. Shape' BY <1>3, <1>4, <1>5 DEF RaiseEscalates, Shape, caseVars, newsVars
<1>7. LockHeld' BY <1>1, <1>3, ReleasesLock DEF RaiseEscalates, Done
<1> QED BY <1>1, <1>2, <1>3, <1>6, <1>7

LEMMA RaiseMergesOK ==
  ASSUME Shape, LockHeld, NEW r \in Requests, RaiseMerges(r)
  PROVE  Shape' /\ LockHeld' /\ Done(r)
<1>1. Shape' BY EndsOK DEF RaiseMerges, Shape, caseVars, newsVars
<1>2. LockHeld' BY EndsOK, ReleasesLock DEF RaiseMerges, Done
<1> QED BY <1>1, <1>2, EndsOK DEF RaiseMerges

\* Reached takes the higher level.
LEMMA ReachedOK ==
  ASSUME NEW f \in [Alerts -> 0..4], NEW a \in Alerts, NEW level \in 0..4
  PROVE  /\ Reached(f, a, level) \in [Alerts -> 0..4] /\ Reached(f, a, level)[a] >= level
         /\ \A b \in Alerts : Reached(f, a, level)[b] >= f[b]
  BY DEF Reached

LEMMA AnnouncesOK ==
  ASSUME Shape, LockHeld, NEW r \in Requests, Announces(r)
  PROVE  /\ Shape' /\ LockHeld' /\ Done(r) /\ proc'[r].op = "none"
         /\ proc[r].alert \in Alerts /\ proc[r].n \in 0..4
<1>1. proc[r].alert \in Alerts /\ proc[r].n \in 0..4
  BY DEF Announces, Shape, Work, ProcRecord, Alerts
<1>2. told' \in [Alerts -> 0..4] BY <1>1, ReachedOK DEF Announces, Shape
<1>3. Shape' BY <1>2, EndsOK DEF Announces, Shape, caseVars
<1>4. LockHeld' BY EndsOK, KeepsLock DEF Announces, Done
<1> QED BY <1>1, <1>3, <1>4, EndsOK DEF Announces

\* resolve and remove start with one alert.
LEMMA BeginsPlainOK ==
  ASSUME Shape, LockHeld, NEW r \in Requests, proc[r] = Idle,
         NEW op \in {"resolve", "delete"}, NEW a \in Alerts,
         Goto(r, [Idle EXCEPT !.op = op, !.at = "write", !.alert = a]),
         UNCHANGED <<alert, made, absent, exempt, lock, blind, caseVars, newsVars>>
  PROVE  Shape' /\ LockHeld' /\ Others(r) /\ proc'[r].op = op
<1> DEFINE rec == [Idle EXCEPT !.op = op, !.at = "write", !.alert = a]
<1>1. rec.op = op /\ rec.at = "write" /\ rec.alert = a BY DEF Idle
<1>2. rec \in ProcRecord
  <2>1. Idle \in ProcRecord BY IdleIsWork DEF Work
  <2>2. op \in Ops BY DEF Ops
  <2> HIDE DEF Idle
  <2> QED BY <2>1, <2>2, RecordFields
<1>3. Goto(r, rec) OBVIOUS
<1> HIDE DEF rec
<1>4. rec \in Work BY <1>1, <1>2 DEF Work, Ops, Alerts
<1> QED BY <1>1, <1>3, <1>4, StartsOK

LEMMA BeginAckOK ==
  ASSUME Shape, LockHeld, NEW r \in Requests, NEW a \in Alerts, BeginAck(r, a)
  PROVE  Shape' /\ LockHeld' /\ Others(r) /\ proc'[r].op = "ack"
<1> DEFINE seen == alert[a]
           rec == [Idle EXCEPT !.op = "ack", !.at = "write", !.alert = a, !.seen = seen]
<1>1. Goto(r, rec) /\ proc[r] = Idle BY DEF BeginAck, Starts
<1>2. seen \in AlertRecord /\ seen.st = "OPEN" BY DEF Shape, BeginAck
<1> HIDE DEF seen
<1>3. rec.op = "ack" /\ rec.at = "write" /\ rec.alert = a /\ rec.seen = seen BY DEF Idle
<1>4. rec \in ProcRecord
  <2>1. Idle \in ProcRecord BY IdleIsWork DEF Work
  <2>2. "ack" \in Ops BY DEF Ops
  <2> HIDE DEF Idle
  <2> QED BY <1>2, <2>1, <2>2, RecordFields
<1> HIDE DEF rec
<1>5. rec \in Work BY <1>2, <1>3, <1>4 DEF Work, Ops, Alerts
<1> QED BY <1>1, <1>3, <1>5, StartsOK DEF BeginAck

LEMMA BeginResolveOK ==
  ASSUME Shape, LockHeld, NEW r \in Requests, NEW a \in Alerts, BeginResolve(r, a)
  PROVE  Shape' /\ LockHeld' /\ Others(r) /\ proc'[r].op = "resolve"
  BY BeginsPlainOK DEF BeginResolve, Starts

LEMMA BeginDeleteOK ==
  ASSUME Shape, LockHeld, NEW r \in Requests, NEW a \in Alerts, BeginDelete(r, a)
  PROVE  Shape' /\ LockHeld' /\ Others(r) /\ proc'[r].op = "delete"
  BY BeginsPlainOK DEF BeginDelete, Starts

LEMMA BeginCareOK ==
  ASSUME Shape, LockHeld, NEW r \in Requests, NEW a \in Alerts, NEW s \in Staff, BeginCare(r, a, s)
  PROVE  Shape' /\ LockHeld' /\ Others(r) /\ proc'[r].op = "care"
<1> DEFINE seen == alert[a]
           mark == Owns(s) /\ alert[a].cared = 0
           rec == [Idle EXCEPT !.op = "care", !.at = "write", !.alert = a, !.seen = seen,
                               !.by = s, !.mark = mark]
<1>1. Goto(r, rec) /\ proc[r] = Idle BY DEF BeginCare, Starts
<1>2. seen \in AlertRecord BY DEF Shape
<1>3. mark \in BOOLEAN OBVIOUS
<1> HIDE DEF seen, mark
<1>4. rec.op = "care" /\ rec.at = "write" /\ rec.alert = a /\ rec.by = s BY DEF Idle
<1>5. rec \in ProcRecord
  <2>1. Idle \in ProcRecord BY IdleIsWork DEF Work
  <2>2. "care" \in Ops BY DEF Ops
  <2> HIDE DEF Idle
  <2> QED BY <1>2, <1>3, <2>1, <2>2, RecordFields
<1> HIDE DEF rec
<1>6. rec \in Work BY <1>4, <1>5 DEF Work, Ops, Alerts
<1> QED BY <1>1, <1>4, <1>6, StartsOK DEF BeginCare

LEMMA BeginUncareOK ==
  ASSUME Shape, LockHeld, NEW r \in Requests, NEW l \in Logs, BeginUncare(r, l)
  PROVE  /\ Shape' /\ LockHeld' /\ Others(r)
         /\ proc'[r].op = "uncare" /\ proc'[r].at = "write" /\ proc'[r].alert = log[l].alert
         /\ proc'[r].n = l /\ proc'[r].by = log[l].by
<1> DEFINE a == log[l].alert
           s == log[l].by
           mark == Owns(log[l].by) /\ alert[log[l].alert].cared # 0
           rec == [Idle EXCEPT !.op = "uncare", !.at = "write", !.alert = a, !.n = l, !.by = s, !.mark = mark]
<1>1. Goto(r, rec) /\ proc[r] = Idle BY DEF BeginUncare, Starts
<1>2. a \in RowNumbers /\ a # 0 /\ s \in Staff BY RecordFields DEF BeginUncare, Shape
<1>3. mark \in BOOLEAN OBVIOUS
<1>4. a = log[l].alert /\ s = log[l].by OBVIOUS
<1> HIDE DEF a, s, mark
<1>5. rec.op = "uncare" /\ rec.at = "write" /\ rec.alert = a /\ rec.n = l /\ rec.by = s BY DEF Idle
<1>6. rec \in ProcRecord
  <2>1. Idle \in ProcRecord BY IdleIsWork DEF Work
  <2>2. "uncare" \in Ops /\ l \in Nat BY DEF Ops, Logs
  <2> HIDE DEF Idle
  <2> QED BY <1>2, <1>3, <2>1, <2>2, RecordFields
<1> HIDE DEF rec
<1>7. rec \in Work BY <1>2, <1>5, <1>6 DEF Work, Ops
<1> QED BY <1>1, <1>4, <1>5, <1>7, StartsOK DEF BeginUncare

LEMMA AcknowledgeOK ==
  ASSUME Shape, LockHeld, NEW r \in Requests, Acknowledge(r)
  PROVE  Shape' /\ LockHeld' /\ Done(r) /\ proc[r].alert \in Alerts /\ proc[r].seen.st = "OPEN"
<1> DEFINE a == proc[r].alert
<1>1. a \in Alerts /\ proc[r].seen.st = "OPEN" BY DEF Acknowledge, Shape, Work, ProcRecord, Alerts, Ops
<1>2. [alert[a] EXCEPT !.st = "ACKNOWLEDGED"] \in AlertRecord BY <1>1, RecordFields, StatusOK
<1>3. alert' \in [Alerts -> AlertRecord] BY <1>1, <1>2 DEF Acknowledge, Shape
<1>4. blind' \subseteq Alerts BY <1>1 DEF Acknowledge, Blinds, Shape
<1>5. Shape' BY <1>3, <1>4, EndsOK DEF Acknowledge, Shape, caseVars, newsVars
<1>6. LockHeld' BY EndsOK, KeepsLock DEF Acknowledge, Done
<1> QED BY <1>1, <1>5, <1>6, EndsOK DEF Acknowledge

LEMMA ResolveOK ==
  ASSUME Shape, LockHeld, NEW r \in Requests, Resolve(r)
  PROVE  Shape' /\ LockHeld' /\ Done(r) /\ proc[r].alert \in Alerts
<1> DEFINE a == proc[r].alert
<1>1. a \in Alerts BY DEF Resolve, Shape, Work, ProcRecord, Alerts, Ops
<1>2. [alert[a] EXCEPT !.st = "RESOLVED"] \in AlertRecord BY <1>1, RecordFields, StatusOK
<1>3. alert' \in [Alerts -> AlertRecord] BY <1>1, <1>2 DEF Resolve, Shape
<1>4. Shape' BY <1>3, EndsOK DEF Resolve, Shape, caseVars, newsVars
<1>5. LockHeld' BY EndsOK, KeepsLock DEF Resolve, Done
<1> QED BY <1>1, <1>4, <1>5, EndsOK DEF Resolve

LEMMA NoLogOK == NoLog \in LogRecord /\ NoLog.alert = 0
  BY DEF NoLog, LogRecord

LEMMA DeleteOK ==
  ASSUME Shape, LockHeld, NEW r \in Requests, Delete(r)
  PROVE  Shape' /\ LockHeld' /\ Done(r) /\ proc[r].alert \in Alerts
<1> DEFINE a == proc[r].alert
<1>1. a \in Alerts BY DEF Delete, Shape, Work, ProcRecord, Alerts, Ops
<1>2. [NoAlert EXCEPT !.st = "deleted"] \in AlertRecord BY DEF NoAlert, AlertRecord
<1>3. alert' \in [Alerts -> AlertRecord] BY <1>1, <1>2 DEF Delete, Shape
<1>4. /\ log' \in [Logs -> LogRecord]
      /\ \A l \in Logs : log'[l].alert # 0 => log'[l].by \in Staff
  BY NoLogOK DEF Delete, Shape
<1>5. Shape' BY <1>3, <1>4, EndsOK DEF Delete, Shape, newsVars
<1>6. LockHeld' BY EndsOK, KeepsLock DEF Delete, Done
<1> QED BY <1>1, <1>5, <1>6, EndsOK DEF Delete

\* What a care log makes of its alert.
LEMMA CaredOK ==
  ASSUME Shape, NEW r \in Requests, proc[r].alert \in Alerts
  PROVE  /\ Cared(r) \in AlertRecord
         /\ Cared(r).level = alert[proc[r].alert].level /\ Cared(r).source = alert[proc[r].alert].source
         /\ Cared(r).by = alert[proc[r].alert].by
         /\ ~proc[r].mark => Cared(r) = alert[proc[r].alert]
         /\ proc[r].mark => Cared(r).cared = proc[r].seen.level
         /\ \/ Cared(r).st = alert[proc[r].alert].st
            \/ proc[r].mark /\ proc[r].seen.st = "OPEN" /\ Cared(r).st = "ACKNOWLEDGED"
<1> DEFINE row == alert[proc[r].alert]
           seen == proc[r].seen
           st == IF seen.st = "OPEN" THEN "ACKNOWLEDGED" ELSE row.st
           level == seen.level
<1> DEFINE mark == proc[r].mark
<1>1. row \in AlertRecord /\ seen \in AlertRecord /\ mark \in BOOLEAN BY DEF Shape, Work, ProcRecord
<1>2. st \in Stages /\ level \in Level BY <1>1, RecordFields
<1>3. CASE mark
  <2>1. Cared(r) = [row EXCEPT !.cared = level, !.st = st] BY <1>1, <1>3, RecordFields DEF Cared
  <2>2. (st = row.st \/ (seen.st = "OPEN" /\ st = "ACKNOWLEDGED")) /\ level = proc[r].seen.level OBVIOUS
  <2> HIDE DEF level, st, row
  <2>3. /\ Cared(r) \in AlertRecord /\ Cared(r).level = row.level /\ Cared(r).source = row.source
        /\ Cared(r).by = row.by /\ Cared(r).cared = level /\ Cared(r).st = st
    BY <1>1, <1>2, <2>1, RecordFields
  <2> HIDE DEF mark
  <2>4. mark => Cared(r).cared = proc[r].seen.level BY <2>2, <2>3
  <2>5. Cared(r).st = row.st \/ (proc[r].seen.st = "OPEN" /\ Cared(r).st = "ACKNOWLEDGED")
    BY <2>2, <2>3
  <2>6. ~mark => Cared(r) = row BY <1>3
  <2> QED BY <1>3, <2>3, <2>4, <2>5, <2>6 DEF row, mark
<1>4. CASE ~mark
  <2>1. Cared(r) = row BY <1>4 DEF Cared
  <2> HIDE DEF mark
  <2>2. mark => Cared(r).cared = proc[r].seen.level BY <1>4
  <2> HIDE DEF row
  <2>3. /\ Cared(r) \in AlertRecord /\ Cared(r).level = row.level /\ Cared(r).source = row.source
        /\ Cared(r).by = row.by /\ Cared(r).st = row.st
    BY <1>1, <2>1
  <2> QED BY <2>1, <2>2, <2>3 DEF row, mark
<1> QED BY <1>3, <1>4

LEMMA CareOK ==
  ASSUME Shape, LockHeld, NEW r \in Requests, Care(r)
  PROVE  /\ Shape' /\ LockHeld' /\ Done(r) /\ proc[r].alert \in Alerts /\ proc[r].by \in Staff
         /\ logs + 1 \in Logs
<1> DEFINE a == proc[r].alert
<1>1. a \in Alerts /\ proc[r].by \in Staff
  BY DEF Care, Shape, Work, ProcRecord, Alerts, Ops
<1>2. Cared(r) \in AlertRecord BY <1>1, CaredOK
<1>3. alert' \in [Alerts -> AlertRecord] BY <1>1, <1>2 DEF Care, Shape
<1>4. logs + 1 \in Logs /\ logs' \in 0..MaxLogs BY DEF Care, Shape, Logs
<1>5. [alert |-> a, by |-> proc[r].by] \in LogRecord BY <1>1 DEF Alerts, LogRecord
<1>6. /\ log' \in [Logs -> LogRecord]
      /\ \A l \in Logs : log'[l].alert # 0 => log'[l].by \in Staff
  BY <1>1, <1>4, <1>5 DEF Care, Shape
<1>7. blind' \subseteq Alerts BY <1>1 DEF Care, Blinds, Shape
<1>8. Shape' BY <1>3, <1>4, <1>6, <1>7, EndsOK DEF Care, Shape, newsVars
<1>9. LockHeld' BY EndsOK, KeepsLock DEF Care, Done
<1> QED BY <1>1, <1>4, <1>8, <1>9, EndsOK DEF Care

LEMMA UncareCountsOK ==
  ASSUME Shape, LockHeld, NEW r \in Requests, UncareCounts(r)
  PROVE  /\ Shape' /\ LockHeld' /\ Others(r)
         /\ proc'[r].op = "uncare" /\ proc'[r].at = "commit" /\ proc'[r].alert = proc[r].alert
         /\ proc'[r].n = proc[r].n /\ proc'[r].by = proc[r].by
<1> DEFINE mark == proc[r].mark /\ LastLog(r)
           rec == [proc[r] EXCEPT !.at = "commit", !.mark = mark]
<1>1. proc[r] \in Work /\ proc[r] \in ProcRecord /\ proc[r].op = "uncare"
  BY DEF UncareCounts, Shape, Work
<1>2. proc[r].alert # 0 /\ proc[r].by \in Staff /\ proc[r].n \in Logs BY <1>1 DEF Work
<1>3. mark \in BOOLEAN BY <1>1, RecordFields
<1>4. Goto(r, rec) BY <1>1, RecordFields DEF UncareCounts
<1> HIDE DEF mark
<1>5. rec \in ProcRecord BY <1>1, <1>3, RecordFields
<1>6. /\ rec.op = "uncare" /\ rec.at = "commit" /\ rec.alert = proc[r].alert
      /\ rec.n = proc[r].n /\ rec.by = proc[r].by
  BY <1>1, RecordFields
<1> HIDE DEF rec
<1>7. rec \in Work BY <1>2, <1>5, <1>6 DEF Work, Ops
<1>8. proc' \in [Requests -> Work] /\ proc'[r] = rec /\ Others(r) BY <1>4, <1>7, GotoOK
<1>9. LockHeld' BY <1>1, <1>6, <1>8, KeepsLock DEF UncareCounts
<1>10. Shape' BY <1>8 DEF UncareCounts, Shape, caseVars, newsVars
<1> QED BY <1>6, <1>8, <1>9, <1>10

LEMMA UncaredOK ==
  ASSUME Shape, NEW a \in Alerts
  PROVE  LET row == [alert[a] EXCEPT !.cared = 0] IN
         /\ row \in AlertRecord /\ row.st = alert[a].st /\ row.level = alert[a].level
         /\ row.cared = 0 /\ row.source = alert[a].source /\ row.by = alert[a].by
<1>1. alert[a] \in AlertRecord BY DEF Shape
<1> QED BY <1>1, RecordFields

LEMMA UncareOK ==
  ASSUME Shape, LockHeld, NEW r \in Requests, Uncare(r)
  PROVE  Shape' /\ LockHeld' /\ Done(r) /\ proc[r].alert \in Alerts /\ proc[r].n \in Logs
<1> DEFINE a == proc[r].alert
<1>1. a \in Alerts /\ proc[r].n \in Logs
  BY DEF Uncare, Shape, Work, ProcRecord, Alerts, Ops
<1>2. [alert[a] EXCEPT !.cared = 0] \in AlertRecord BY <1>1, UncaredOK
<1>3. alert' \in [Alerts -> AlertRecord]
  <2>1. [alert EXCEPT ![a].cared = 0] = [alert EXCEPT ![a] = [alert[a] EXCEPT !.cared = 0]] OBVIOUS
  <2> QED BY <1>1, <1>2, <2>1 DEF Uncare, Shape
<1>4. /\ log' \in [Logs -> LogRecord]
      /\ \A l \in Logs : log'[l].alert # 0 => log'[l].by \in Staff
  BY <1>1, NoLogOK DEF Uncare, Shape
<1>5. blind' \subseteq Alerts BY <1>1 DEF Uncare, Blinds, Shape
<1>6. Shape' BY <1>3, <1>4, <1>5, EndsOK DEF Uncare, Shape, newsVars
<1>7. LockHeld' BY EndsOK, KeepsLock DEF Uncare, Done
<1> QED BY <1>1, <1>6, <1>7, EndsOK DEF Uncare

LEMMA BeginReviewOK ==
  ASSUME Shape, LockHeld, NEW r \in Requests, BeginReview(r)
  PROVE  Shape' /\ LockHeld' /\ Others(r) /\ proc'[r].at = "read"
<1> DEFINE rec == [Idle EXCEPT !.op = "review", !.at = "read"]
<1>1. Goto(r, rec) /\ proc[r] = Idle BY DEF BeginReview, Starts
<1>2. rec.op = "review" /\ rec.at = "read" /\ rec.alert = 0 BY DEF Idle
<1>3. rec \in ProcRecord
  <2>1. Idle \in ProcRecord BY IdleIsWork DEF Work
  <2>2. "review" \in Ops BY DEF Ops
  <2> HIDE DEF Idle
  <2> QED BY <2>1, <2>2, RecordFields
<1> HIDE DEF rec
<1>4. rec \in Work BY <1>2, <1>3 DEF Work, Ops
<1>5. proc' \in [Requests -> Work] /\ proc'[r] = rec /\ Others(r) BY <1>1, <1>4, GotoOK
<1>6. LockHeld' BY <1>1, <1>2, <1>5, IdleIsWork, KeepsLock DEF BeginReview
<1>7. \A a \in Alerts : [alert[a] EXCEPT !.st = "RESOLVED"] \in AlertRecord BY RecordFields, StatusOK
<1>8. alert' \in [Alerts -> AlertRecord] BY <1>7 DEF BeginReview, Shape
<1>9. Shape' BY <1>5, <1>8 DEF BeginReview, Shape, caseVars, newsVars
<1> QED BY <1>2, <1>5, <1>6, <1>9

LEMMA ReviewLoadsOK ==
  ASSUME Shape, LockHeld, NEW r \in Requests, ReviewLoads(r)
  PROVE  /\ Shape' /\ LockHeld' /\ Others(r)
         /\ \/ proc'[r].at = "idle"
            \/ proc'[r].op = "review" /\ proc'[r].at = "write" /\ Found(r)
<1> DEFINE skips == exempt \/ LevelFor(absent) = 0 \/ lecturer = None
<1>1. proc[r] \in Work /\ proc[r].op = "review" /\ proc[r].at = "read" BY DEF Shape, ReviewLoads
<1>2. proc[r] \in ProcRecord /\ absent \in Nat /\ made \in RowNumbers
  BY <1>1 DEF Work, Shape, RowNumbers
<1>3. PICK rec \in Work :
         /\ Goto(r, rec)
         /\ \/ rec = Idle
            \/ /\ rec.op = "review" /\ rec.at = "write"
               /\ \/ OpenAlerts = {} /\ rec.alert = 0 /\ rec.known = made
                  \/ rec.alert \in OpenAlerts /\ rec.seen = alert[rec.alert]
  <2>1. CASE skips
    BY <2>1, IdleIsWork DEF ReviewLoads, Ends
  <2>2. CASE ~skips /\ OpenAlerts = {}
    <3> DEFINE rec == [proc[r] EXCEPT !.at = "write", !.n = absent, !.known = made]
    <3>1. Goto(r, rec) BY <2>2 DEF ReviewLoads
    <3>2. rec \in ProcRecord BY <1>2, RecordFields
    <3>3. rec.op = "review" /\ rec.at = "write" /\ rec.alert = 0 /\ rec.known = made
      <4>1. proc[r].alert = 0 BY <1>1 DEF Work
      <4> QED BY <4>1, <1>1, <1>2, RecordFields
    <3> HIDE DEF rec
    <3>4. rec \in Work BY <3>2, <3>3 DEF Work, Ops
    <3> QED BY <2>2, <3>1, <3>3, <3>4
  <2>3. CASE ~skips /\ OpenAlerts # {}
    <3>1. PICK a \in Highest : Goto(r, [proc[r] EXCEPT !.at = "write", !.n = absent, !.alert = a, !.seen = alert[a]])
      BY <2>3 DEF ReviewLoads
    <3> DEFINE seen == alert[a]
               rec == [proc[r] EXCEPT !.at = "write", !.n = absent, !.alert = a, !.seen = seen]
    <3>2. a \in OpenAlerts /\ a \in Alerts /\ seen \in AlertRecord /\ seen.st \in Open
      BY DEF Highest, OpenAlerts, IsOpen, Open, Shape
    <3>3. Goto(r, rec) BY <3>1
    <3>4. seen = alert[a] OBVIOUS
    <3> HIDE DEF seen
    <3>5. rec \in ProcRecord BY <1>2, <3>2, RecordFields
    <3>6. rec.op = "review" /\ rec.at = "write" /\ rec.alert = a /\ rec.seen = seen
      BY <1>1, <1>2, RecordFields
    <3> HIDE DEF rec
    <3>7. rec \in Work BY <3>2, <3>5, <3>6 DEF Work, Ops
    <3> QED BY <3>2, <3>3, <3>4, <3>6, <3>7
  <2> HIDE DEF skips
  <2> QED BY <2>1, <2>2, <2>3
<1>4. proc' \in [Requests -> Work] /\ proc'[r] = rec /\ Others(r) BY <1>3, GotoOK
<1>5. LockHeld' BY <1>1, <1>3, <1>4, IdleIsWork, KeepsLock DEF ReviewLoads
<1>6. Shape' BY <1>4 DEF ReviewLoads, Shape, caseVars, newsVars
<1> QED BY <1>3, <1>4, <1>5, <1>6, IdleIsWork DEF Found

LEMMA LevelForOK ==
  ASSUME NEW days \in Nat
  PROVE  LevelFor(days) \in {0, 2, 3}
  BY DEF LevelFor

\* What a review writes with.
LEMMA ReviewWrites ==
  ASSUME Shape, NEW r \in Requests, proc[r].op = "review"
  PROVE  proc[r].n \in Nat /\ LevelFor(proc[r].n) \in {0, 2, 3} /\ proc[r].alert \in Alerts \cup {0}
  BY LevelForOK DEF Shape, Work, ProcRecord, Alerts

\* A review creates an alert, or the index refuses it.
ReviewCreated(r) ==
  LET level == LevelFor(proc[r].n) IN
  /\ alert' = Added(NewAlert(level, "AUTO_ATTENDANCE", "review")) /\ IndexAllows(alert')
  /\ made' = made + 1 /\ Tells(r, made + 1, level) /\ Blinds(made + 1, Crossed(r, "raise"))
  /\ proc'[r].at = "tell" /\ proc'[r].alert = made + 1 /\ proc'[r].n = level /\ level \in 0..4

LEMMA ReviewCreatesOK ==
  ASSUME Shape, LockHeld, NEW r \in Requests, ReviewCreates(r)
  PROVE  Shape' /\ LockHeld' /\ Done(r) /\ (ReviewCreated(r) \/ UNCHANGED <<alert, made, blind>>)
<1> DEFINE level == LevelFor(proc[r].n)
           row == NewAlert(level, "AUTO_ATTENDANCE", "review")
<1>1. proc[r].op = "review" BY DEF ReviewCreates
<1>2. level \in 0..4 BY <1>1, ReviewWrites
<1>3. row \in AlertRecord BY <1>2, NewAlertOK
<1>4. made + 1 \in Alerts /\ made + 1 \in 0..MaxAlerts BY DEF ReviewCreates, Shape, Alerts
<1>5. CASE /\ alert' = Added(row) /\ IndexAllows(Added(row)) /\ made' = made + 1
           /\ Tells(r, made + 1, level) /\ Blinds(made + 1, Crossed(r, "raise"))
  <2>0. IndexAllows(alert') BY <1>5
  <2> HIDE DEF level, row
  <2>1. /\ proc' \in [Requests -> Work] /\ Done(r) /\ proc'[r].at = "tell"
        /\ proc'[r].alert = made + 1 /\ proc'[r].n = level
    BY <1>1, <1>2, <1>4, <1>5, TellsOK
  <2>2. alert' \in [Alerts -> AlertRecord] BY <1>3, <1>4, <1>5 DEF Added, Shape
  <2>3. blind' \subseteq Alerts BY <1>4, <1>5 DEF Blinds, Shape
  <2>4. Shape' BY <1>4, <1>5, <2>1, <2>2, <2>3 DEF ReviewCreates, Shape, caseVars, newsVars
  <2>5. LockHeld' BY <1>1, <2>1, KeepsLock DEF ReviewCreates, Done
  <2>6. ReviewCreated(r) BY <1>2, <1>5, <2>0, <2>1 DEF ReviewCreated, level, row
  <2> QED BY <2>1, <2>4, <2>5, <2>6
<1>6. CASE Ends(r) /\ UNCHANGED <<alert, made, blind>>
  <2>1. Shape' BY <1>6, EndsOK DEF ReviewCreates, Shape, caseVars, newsVars
  <2>2. LockHeld' BY <1>1, <1>6, EndsOK, KeepsLock DEF ReviewCreates, Done
  <2> QED BY <1>6, <2>1, <2>2, EndsOK
<1> QED BY <1>5, <1>6 DEF ReviewCreates

LEMMA ReviewUpgradesOK ==
  ASSUME Shape, LockHeld, NEW r \in Requests, ReviewUpgrades(r)
  PROVE  /\ Shape' /\ LockHeld' /\ Done(r) /\ proc'[r].at = "tell" /\ proc'[r].alert = proc[r].alert
         /\ proc'[r].n = 3 /\ proc[r].alert \in Alerts /\ proc[r].seen.st \in Open
         /\ proc[r].seen.level < 3
<1> DEFINE a == proc[r].alert
<1>1. proc[r].op = "review" /\ a # 0 /\ proc[r].seen.st \in Open BY DEF ReviewUpgrades, Shape, Work
<1>2. a \in Alerts BY <1>1, ReviewWrites
<1>3. 3 \in 0..4 OBVIOUS
<1>4. /\ proc' \in [Requests -> Work] /\ Done(r) /\ proc'[r].at = "tell"
      /\ proc'[r].alert = a /\ proc'[r].n = 3
  BY <1>1, <1>2, <1>3, TellsOK DEF ReviewUpgrades
<1>5. alert' \in [Alerts -> AlertRecord]
  BY <1>2, <1>3, EscalatedOK DEF ReviewUpgrades, Shape
<1>6. blind' \subseteq Alerts BY <1>2 DEF ReviewUpgrades, Blinds, Shape
<1>7. Shape' BY <1>4, <1>5, <1>6 DEF ReviewUpgrades, Shape, caseVars, newsVars
<1>8. LockHeld' BY <1>1, <1>4, KeepsLock DEF ReviewUpgrades, Done
<1>9. proc[r].seen.level < 3
  <2>1. proc[r].seen.level \in 0..4 BY DEF Shape, Work, ProcRecord, AlertRecord
  <2> QED BY <1>1, <2>1, ReviewWrites DEF ReviewUpgrades, Upgrades
<1> QED BY <1>1, <1>2, <1>4, <1>7, <1>8, <1>9

LEMMA ReviewRefreshesOK ==
  ASSUME Shape, LockHeld, NEW r \in Requests, ReviewRefreshes(r)
  PROVE  Shape' /\ LockHeld' /\ Done(r)
<1>1. Shape' BY EndsOK DEF ReviewRefreshes, Shape, caseVars, newsVars
<1>2. LockHeld' BY EndsOK, KeepsLock DEF ReviewRefreshes, Done
<1> QED BY <1>1, <1>2, EndsOK DEF ReviewRefreshes

LEMMA AnalysisSendsOK ==
  ASSUME Shape, LockHeld, NEW level \in RaiseLevels, AnalysisSends(level)
  PROVE  Shape' /\ LockHeld'
<1>1. level \in 0..4 OBVIOUS
<1>2. made + 1 \in Alerts /\ made + 1 \in 0..MaxAlerts BY DEF AnalysisSends, Shape, Alerts
<1>3. NewAlert(level, "MANUAL", "send") \in AlertRecord BY <1>1, NewAlertOK
<1>4. alert' \in [Alerts -> AlertRecord] BY <1>2, <1>3 DEF AnalysisSends, Added, Shape
<1>5. due' \in [Alerts -> 0..4] BY <1>1, <1>2 DEF AnalysisSends, Shape
<1>6. Shape' BY <1>1, <1>2, <1>4, <1>5 DEF AnalysisSends, Shape, caseVars
<1>7. LockHeld' BY DEF AnalysisSends, LockHeld
<1> QED BY <1>6, <1>7

LEMMA AnalysisEndsOK ==
  ASSUME Shape, LockHeld, NEW a \in Alerts, AnalysisDelivers(a) \/ AnalysisFails(a)
  PROVE  Shape' /\ LockHeld' /\ due[a] \in 0..4
<1>1. due[a] \in 0..4 /\ due' \in [Alerts -> 0..4] BY DEF AnalysisDelivers, AnalysisFails, Shape
<1>2. told' \in [Alerts -> 0..4] /\ lost' \in [Alerts -> 0..4]
  BY <1>1, ReachedOK DEF AnalysisDelivers, AnalysisFails, Shape
<1>3. Shape' BY <1>1, <1>2 DEF AnalysisDelivers, AnalysisFails, Shape, caseVars
<1>4. LockHeld' BY DEF AnalysisDelivers, AnalysisFails, LockHeld
<1> QED BY <1>1, <1>3, <1>4

LEMMA FailsOK ==
  ASSUME Shape, LockHeld, NEW r \in Requests, Fails(r)
  PROVE  /\ Shape' /\ LockHeld' /\ Done(r) /\ proc'[r].op = "none"
         /\ proc[r].at = "tell" => proc[r].alert \in Alerts /\ proc[r].n \in 0..4
<1>1. proc[r].at = "tell" => proc[r].alert \in Alerts /\ proc[r].n \in 0..4
  BY DEF Shape, Work, ProcRecord, Alerts
<1>2. lock' \in Requests \cup {None} BY DEF Fails, Shape
<1>3. lost' \in [Alerts -> 0..4] BY <1>1, ReachedOK DEF Fails, Shape
<1>4. Shape' BY <1>2, <1>3, EndsOK DEF Fails, Shape, caseVars
<1>5. LockHeld' BY EndsOK DEF Fails, LockHeld, Done, Others
<1> QED BY <1>1, <1>4, <1>5, EndsOK DEF Fails

LEMMA WorldOK ==
  ASSUME Shape, LockHeld, Imported \/ LecturerChanges
  PROVE  Shape' /\ LockHeld'
<1>1. CASE Imported BY <1>1 DEF Imported, Shape, LockHeld, caseVars, newsVars
<1>2. CASE LecturerChanges BY <1>2 DEF LecturerChanges, Shape, LockHeld, newsVars
<1> QED BY <1>1, <1>2

-----------------------------------------------------------------------------
(* The steps by what they do.                                              *)

\* No row, log or lecturer changes.
Quiet == UNCHANGED <<alert, made, blind, caseVars>>

\* The steps of a request that write rows.
Writes(r) ==
  \/ RaiseCreates(r) \/ RaiseEscalates(r) \/ Acknowledge(r) \/ Resolve(r) \/ Delete(r)
  \/ Care(r) \/ Uncare(r) \/ BeginReview(r) \/ ReviewCreates(r) \/ ReviewUpgrades(r)

\* A deletion of a log takes up the log, or goes on with it.
TakesLog(q) ==
  /\ proc'[q].op = "uncare"
  /\ \/ /\ proc'[q].at = "write" /\ proc'[q].n \in Logs /\ log[proc'[q].n].alert # 0
        /\ proc'[q].alert = log[proc'[q].n].alert /\ proc'[q].by = log[proc'[q].n].by
     \/ /\ proc[q].op = "uncare" /\ proc'[q].n = proc[q].n
        /\ proc'[q].alert = proc[q].alert /\ proc'[q].by = proc[q].by

\* What a request has read after a step.
Takes(q) ==
  \/ proc'[q] = proc[q]
  \/ proc'[q].at \in {"idle", "read", "tell"}
  \/ proc'[q].op \in {"ack", "resolve", "delete", "care"}
  \/ Quiet /\ proc'[q].op \in {"raise", "review"} /\ proc'[q].at = "write" /\ Found(q)
  \/ Quiet /\ TakesLog(q)

Stepped == Shape' /\ LockHeld' /\ \A q \in Requests : Takes(q)

LEMMA BeginsStep ==
  ASSUME Shape, LockHeld, NEW r \in Requests,
         \/ \E requested, system \in RaiseLevels : BeginRaise(r, requested, system)
         \/ \E a \in Alerts : BeginAck(r, a) \/ BeginResolve(r, a) \/ BeginDelete(r, a)
         \/ \E a \in Alerts, s \in Staff : BeginCare(r, a, s)
  PROVE  Stepped /\ Quiet
<1>1. ASSUME NEW requested \in RaiseLevels, NEW system \in RaiseLevels, BeginRaise(r, requested, system)
      PROVE  Stepped /\ Quiet
  BY <1>1, BeginRaiseOK DEF Stepped, Takes, Others, Quiet, BeginRaise
<1>2. ASSUME NEW a \in Alerts, BeginAck(r, a) PROVE Stepped /\ Quiet
  BY <1>2, BeginAckOK DEF Stepped, Takes, Others, Quiet, BeginAck
<1>3. ASSUME NEW a \in Alerts, BeginResolve(r, a) PROVE Stepped /\ Quiet
  BY <1>3, BeginResolveOK DEF Stepped, Takes, Others, Quiet, BeginResolve
<1>4. ASSUME NEW a \in Alerts, BeginDelete(r, a) PROVE Stepped /\ Quiet
  BY <1>4, BeginDeleteOK DEF Stepped, Takes, Others, Quiet, BeginDelete
<1>5. ASSUME NEW a \in Alerts, NEW s \in Staff, BeginCare(r, a, s) PROVE Stepped /\ Quiet
  BY <1>5, BeginCareOK DEF Stepped, Takes, Others, Quiet, BeginCare
<1> QED BY <1>1, <1>2, <1>3, <1>4, <1>5

LEMMA ReadsStep ==
  ASSUME Shape, LockHeld, NEW r \in Requests,
         RaiseReads(r) \/ ReviewLoads(r) \/ UncareCounts(r) \/ \E l \in Logs : BeginUncare(r, l)
  PROVE  Stepped /\ Quiet
<1>1. CASE RaiseReads(r)
  <2>1. Quiet BY <1>1 DEF Quiet, RaiseReads
  <2> QED BY <1>1, <2>1, RaiseReadsOK DEF Stepped, Takes, Others
<1>2. CASE ReviewLoads(r)
  <2>1. Quiet BY <1>2 DEF Quiet, ReviewLoads
  <2> QED BY <1>2, <2>1, ReviewLoadsOK DEF Stepped, Takes, Others
<1>3. CASE UncareCounts(r)
  <2>1. Quiet /\ proc[r].op = "uncare" BY <1>3 DEF Quiet, UncareCounts
  <2> QED BY <1>3, <2>1, UncareCountsOK DEF Stepped, Takes, TakesLog, Others
<1>4. ASSUME NEW l \in Logs, BeginUncare(r, l) PROVE Stepped /\ Quiet
  <2>1. Quiet /\ log[l].alert # 0 BY <1>4 DEF Quiet, BeginUncare
  <2> QED BY <1>4, <2>1, BeginUncareOK DEF Stepped, Takes, TakesLog, Others
<1> QED BY <1>1, <1>2, <1>3, <1>4

LEMMA EndsStep ==
  ASSUME Shape, LockHeld, NEW r \in Requests,
         RaiseMerges(r) \/ ReviewRefreshes(r) \/ Announces(r) \/ Fails(r)
  PROVE  Stepped /\ Quiet
<1>1. Shape' /\ LockHeld' /\ Done(r) BY RaiseMergesOK, ReviewRefreshesOK, AnnouncesOK, FailsOK
<1>2. Quiet BY DEF Quiet, RaiseMerges, ReviewRefreshes, Announces, Fails
<1> QED BY <1>1, <1>2 DEF Stepped, Takes, Done, Others

LEMMA WritesStep ==
  ASSUME Shape, LockHeld, NEW r \in Requests, Writes(r)
  PROVE  Stepped
<1>1. CASE BeginReview(r) BY <1>1, BeginReviewOK DEF Stepped, Takes, Others
<1>2. CASE ~BeginReview(r)
  <2>1. Shape' /\ LockHeld' /\ Done(r)
    BY <1>2, RaiseCreatesOK, RaiseEscalatesOK, AcknowledgeOK, ResolveOK, DeleteOK, CareOK, UncareOK,
       ReviewCreatesOK, ReviewUpgradesOK DEF Writes
  <2> QED BY <2>1 DEF Stepped, Takes, Done, Others
<1> QED BY <1>1, <1>2

LEMMA RestStep ==
  ASSUME Shape, LockHeld,
         \/ UNCHANGED vars \/ Imported \/ LecturerChanges
         \/ \E level \in RaiseLevels : AnalysisSends(level)
         \/ \E a \in Alerts : AnalysisDelivers(a) \/ AnalysisFails(a)
  PROVE  /\ Stepped
         /\ Quiet \/ LecturerChanges \/ \E level \in RaiseLevels : AnalysisSends(level)
<1>1. CASE UNCHANGED vars
  <2>1. Shape' /\ LockHeld' BY <1>1 DEF vars, caseVars, newsVars, Shape, LockHeld
  <2> QED BY <1>1, <2>1 DEF vars, Stepped, Takes, Quiet
<1>2. CASE Imported BY <1>2, WorldOK DEF Imported, Stepped, Takes, Quiet
<1>3. CASE LecturerChanges BY <1>3, WorldOK DEF LecturerChanges, Stepped, Takes
<1>4. ASSUME NEW level \in RaiseLevels, AnalysisSends(level) PROVE Stepped
  BY <1>4, AnalysisSendsOK DEF AnalysisSends, Stepped, Takes
<1>5. ASSUME NEW a \in Alerts, AnalysisDelivers(a) \/ AnalysisFails(a) PROVE Stepped /\ Quiet
  BY <1>5, AnalysisEndsOK DEF AnalysisDelivers, AnalysisFails, Stepped, Takes, Quiet
<1> QED BY <1>1, <1>2, <1>3, <1>4, <1>5

LEMMA StepOK ==
  ASSUME Shape, LockHeld, [Next]_vars
  PROVE  /\ Stepped
         /\ \/ Quiet \/ LecturerChanges
            \/ \E level \in RaiseLevels : AnalysisSends(level)
            \/ \E r \in Requests : Writes(r)
<1>1. CASE \/ UNCHANGED vars \/ Imported \/ LecturerChanges
           \/ \E level \in RaiseLevels : AnalysisSends(level)
           \/ \E a \in Alerts : AnalysisDelivers(a) \/ AnalysisFails(a)
  BY <1>1, RestStep
<1>2. ASSUME NEW r \in Requests,
             \/ \E requested, system \in RaiseLevels : BeginRaise(r, requested, system)
             \/ \E a \in Alerts : BeginAck(r, a) \/ BeginResolve(r, a) \/ BeginDelete(r, a)
             \/ \E a \in Alerts, s \in Staff : BeginCare(r, a, s)
      PROVE  Stepped /\ Quiet
  BY <1>2, BeginsStep
<1>3. ASSUME NEW r \in Requests,
             \/ Raise(r) \/ Review(r) \/ Announces(r) \/ BeginReview(r) \/ Fails(r)
             \/ Acknowledge(r) \/ Resolve(r) \/ Delete(r) \/ Care(r) \/ UncareCounts(r) \/ Uncare(r)
             \/ \E l \in Logs : BeginUncare(r, l)
      PROVE  Stepped /\ (Quiet \/ Writes(r))
  BY <1>3, ReadsStep, EndsStep, WritesStep DEF Raise, Review, Writes
<1> QED BY <1>1, <1>2, <1>3 DEF Next

\* raise in alerts.service.ts: the rows and requests have their types, and the advisory lock
\* belongs to exactly one raise, from its read to the end of its transaction, however handlers
\* overlap and fail.
THEOREM TypeCorrect == Spec => []TypeOK
<1>1. Init => Shape /\ LockHeld BY InitOK
<1>2. Shape /\ LockHeld /\ [Next]_vars => Shape' /\ LockHeld' BY StepOK DEF Stepped
<1>3. Shape /\ LockHeld => TypeOK BY DEF Shape, LockHeld, LogRecord, TypeOK, Work
<1> QED BY <1>1, <1>2, <1>3, PTL DEF Spec

-----------------------------------------------------------------------------
(* What a step does to a row.                                              *)

\* A care log of the lecturer marks the alert.
Marks(r, b) == Care(r) /\ proc[r].mark /\ proc[r].alert = b

Stays(b) ==
  /\ alert'[b].source = alert[b].source /\ alert'[b].by = alert[b].by /\ alert'[b].level = alert[b].level
  /\ alert'[b].st # alert[b].st =>
       Exists(b) /\ alert'[b].st \in Open \cup {"RESOLVED"} /\ (alert[b].st = "RESOLVED" => b \in blind')
  /\ alert'[b].cared # 0 /\ b \notin blind' =>
       \/ alert'[b].cared = alert[b].cared
       \/ alert'[b].cared = alert[b].level /\ \E r \in Requests : Marks(r, b)

Gone(b) == alert'[b].st = "deleted" /\ alert'[b].cared = 0

\* r is about to announce the level of b.
WillTell(r, b) == proc'[r].at = "tell" /\ proc'[r].alert = b /\ proc'[r].n = alert'[b].level

WentUp(r, b) ==
  /\ Exists(b) /\ alert'[b].st = "OPEN" /\ alert'[b].cared = 0 /\ WillTell(r, b)
  /\ alert'[b].source = alert[b].source /\ alert'[b].by = alert[b].by
  /\ alert'[b].level > proc[r].seen.level
  /\ b \in blind' \/ (alert[b].level = proc[r].seen.level /\ alert[b].st # "RESOLVED")

IsNew(b, by) ==
  /\ b = made + 1 /\ made' = made + 1 /\ alert'[b].st = "OPEN" /\ alert'[b].cared = 0
  /\ alert'[b].by = by /\ (alert'[b].source = "AUTO_ATTENDANCE" <=> by = "review")

Created(r, b) ==
  /\ WillTell(r, b)
  /\ \/ RaiseCreates(r) /\ IsNew(b, "raise") /\ (Crossed(r, "review") => b \in blind')
     \/ ReviewCreates(r) /\ IsNew(b, "review") /\ (Crossed(r, "raise") => b \in blind')

Sent(b) == IsNew(b, "send") /\ due'[b] = alert'[b].level

Row(b) ==
  \/ Stays(b) \/ Gone(b) \/ Sent(b)
  \/ \E r \in Requests : WentUp(r, b) \/ Created(r, b)

LEMMA SameRow ==
  ASSUME Shape, NEW b \in Alerts, alert'[b] = alert[b]
  PROVE  Stays(b)
  BY DEF Stays

LEMMA CreatedRow ==
  ASSUME Shape, LockHeld, NEW r \in Requests, RaiseCreates(r) \/ ReviewCreates(r), NEW b \in Alerts
  PROVE  blind \subseteq blind' /\ made <= made' /\ Row(b)
<1>1. CASE RaiseCreates(r)
  <2> DEFINE row == NewAlert(proc[r].n, "MANUAL", "raise")
  <2>1. /\ proc'[r].at = "tell" /\ proc'[r].alert = made + 1 /\ proc'[r].n = proc[r].n
        /\ proc[r].n \in 0..4
    BY <1>1, RaiseCreatesOK
  <2>2. made < MaxAlerts /\ alert' = Added(row) /\ made' = made + 1 /\ made \in Nat
    BY <1>1 DEF RaiseCreates, Shape
  <2>3. /\ row \in AlertRecord /\ row.st = "OPEN" /\ row.cared = 0 /\ row.level = proc[r].n
        /\ row.source = "MANUAL" /\ row.by = "raise"
    BY <2>1, NewAlertOK
  <2> HIDE DEF row
  <2>4. made + 1 \in Alerts /\ alert'[made + 1] = row /\ (b # made + 1 => alert'[b] = alert[b])
    BY <2>2, <2>3, AddedOK
  <2>5. blind \subseteq blind' /\ (Crossed(r, "review") => made + 1 \in blind')
    BY <1>1 DEF RaiseCreates, Blinds
  <2>6. CASE b = made + 1
    <3>1. WillTell(r, b) BY <2>1, <2>3, <2>4, <2>6 DEF WillTell
    <3>2. IsNew(b, "raise") BY <2>2, <2>3, <2>4, <2>6 DEF IsNew
    <3> QED BY <1>1, <2>2, <2>5, <2>6, <3>1, <3>2 DEF Row, Created
  <2> QED BY <2>2, <2>4, <2>5, <2>6, SameRow DEF Row
<1>2. CASE ReviewCreates(r)
  <2>1. CASE ReviewCreated(r)
    <3> DEFINE level == LevelFor(proc[r].n)
               row == NewAlert(level, "AUTO_ATTENDANCE", "review")
    <3>1. /\ proc'[r].at = "tell" /\ proc'[r].alert = made + 1 /\ proc'[r].n = level /\ level \in 0..4
          /\ alert' = Added(row) /\ made' = made + 1
      BY <2>1 DEF ReviewCreated
    <3>2. made < MaxAlerts /\ made \in Nat BY <1>2 DEF ReviewCreates, Shape
    <3>3. blind \subseteq blind' /\ (Crossed(r, "raise") => made + 1 \in blind')
      BY <2>1 DEF ReviewCreated, Blinds
    <3> HIDE DEF level
    <3>4. /\ row \in AlertRecord /\ row.st = "OPEN" /\ row.cared = 0 /\ row.level = level
          /\ row.source = "AUTO_ATTENDANCE" /\ row.by = "review"
      BY <3>1, NewAlertOK
    <3> HIDE DEF row
    <3>5. made + 1 \in Alerts /\ alert'[made + 1] = row /\ (b # made + 1 => alert'[b] = alert[b])
      BY <3>1, <3>2, <3>4, AddedOK
    <3>6. CASE b = made + 1
      <4>1. WillTell(r, b) BY <3>1, <3>4, <3>5, <3>6 DEF WillTell
      <4>2. IsNew(b, "review") BY <3>1, <3>4, <3>5, <3>6 DEF IsNew
      <4> QED BY <1>2, <3>1, <3>2, <3>3, <3>6, <4>1, <4>2 DEF Row, Created
    <3> QED BY <3>1, <3>2, <3>3, <3>5, <3>6, SameRow DEF Row
  <2>2. CASE UNCHANGED <<alert, made, blind>> BY <2>2, SameRow DEF Row, Shape
  <2> QED BY <1>2, <2>1, <2>2, ReviewCreatesOK
<1> QED BY <1>1, <1>2

LEMMA RaisedRow ==
  ASSUME Shape, LockHeld, NEW r \in Requests, RaiseEscalates(r) \/ ReviewUpgrades(r), NEW b \in Alerts
  PROVE  blind \subseteq blind' /\ made <= made' /\ Row(b)
<1> DEFINE a == proc[r].alert
<1>1. PICK level \in 0..4 :
         /\ a \in Alerts /\ Exists(a) /\ alert' = [alert EXCEPT ![a] = Escalated(a, level)]
         /\ proc'[r].at = "tell" /\ proc'[r].alert = a /\ proc'[r].n = level
         /\ level > proc[r].seen.level /\ Blinds(a, LevelMoved(r) \/ Closed(r)) /\ made' = made
         /\ proc[r].seen.st \in Open
  <2>1. CASE RaiseEscalates(r) BY <2>1, RaiseEscalatesOK DEF RaiseEscalates, CanUpdate
  <2>2. CASE ReviewUpgrades(r)
    <3>1. /\ a \in Alerts /\ proc'[r].at = "tell" /\ proc'[r].alert = a /\ proc'[r].n = 3
          /\ 3 > proc[r].seen.level /\ proc[r].seen.st \in Open
      BY <2>2, ReviewUpgradesOK
    <3>2. /\ Exists(a) /\ alert' = [alert EXCEPT ![a] = Escalated(a, 3)] /\ made' = made
          /\ Blinds(a, LevelMoved(r) \/ Closed(r))
      BY <2>2 DEF ReviewUpgrades, CanUpdate
    <3>3. 3 \in 0..4 OBVIOUS
    <3> QED BY <3>1, <3>2, <3>3
  <2> QED BY <2>1, <2>2
<1> DEFINE row == Escalated(a, level)
<1>2. /\ row \in AlertRecord /\ row.st = "OPEN" /\ row.level = level /\ row.cared = 0
      /\ row.source = alert[a].source /\ row.by = alert[a].by
  BY <1>1, EscalatedOK
<1> HIDE DEF row
<1>3. alert'[a] = row /\ (b # a => alert'[b] = alert[b]) BY <1>1 DEF Shape, row
<1>4. blind \subseteq blind' /\ made <= made' BY <1>1 DEF Blinds, Shape
<1>5. CASE b = a
  <2>1. b \in blind' \/ (alert[b].level = proc[r].seen.level /\ alert[b].st # "RESOLVED")
    BY <1>1, <1>5 DEF Blinds, LevelMoved, Closed, Open
  <2>2. WillTell(r, b) BY <1>1, <1>2, <1>3, <1>5 DEF WillTell
  <2>3. WentUp(r, b) BY <1>1, <1>2, <1>3, <1>5, <2>1, <2>2 DEF WentUp
  <2> QED BY <1>4, <2>3 DEF Row
<1> QED BY <1>3, <1>4, <1>5, SameRow DEF Row

LEMMA StatusRow ==
  ASSUME Shape, LockHeld, NEW r \in Requests,
         Acknowledge(r) \/ Resolve(r) \/ BeginReview(r), NEW b \in Alerts
  PROVE  blind \subseteq blind' /\ made <= made' /\ Row(b)
<1>1. ASSUME NEW st \in {"ACKNOWLEDGED", "RESOLVED"}, alert'[b] = [alert[b] EXCEPT !.st = st],
             Exists(b), alert[b].st = "RESOLVED" => b \in blind' \/ st = "RESOLVED"
      PROVE  Stays(b)
  <2>1. st \in Stages BY RecordFields
  <2> DEFINE row == [alert[b] EXCEPT !.st = st]
  <2>2. /\ row.st = st /\ row.level = alert[b].level /\ row.cared = alert[b].cared
        /\ row.source = alert[b].source /\ row.by = alert[b].by
    BY <2>1, StatusOK
  <2> HIDE DEF row
  <2>3. alert'[b] = row BY <1>1 DEF row
  <2> QED BY <1>1, <2>2, <2>3 DEF Stays, Open
<1>2. CASE Acknowledge(r)
  <2> DEFINE a == proc[r].alert
  <2>1. a \in Alerts /\ proc[r].seen.st = "OPEN" BY <1>2, AcknowledgeOK
  <2>2. /\ alert' = [alert EXCEPT ![a] = [alert[a] EXCEPT !.st = "ACKNOWLEDGED"]]
        /\ Exists(a) /\ Blinds(a, Closed(r)) /\ made' = made
    BY <1>2 DEF Acknowledge, CanUpdate
  <2>3. b = a => (alert'[b] = [alert[b] EXCEPT !.st = "ACKNOWLEDGED"])
                  /\ (alert[b].st = "RESOLVED" => b \in blind')
    BY <2>1, <2>2 DEF Shape, Blinds, Closed
  <2>4. b # a => alert'[b] = alert[b] BY <2>2 DEF Shape
  <2>5. blind \subseteq blind' /\ made <= made' BY <2>2 DEF Blinds, Shape
  <2> QED BY <1>1, <2>2, <2>3, <2>4, <2>5, SameRow DEF Row
<1>3. CASE Resolve(r)
  <2> DEFINE a == proc[r].alert
  <2>1. a \in Alerts BY <1>3, ResolveOK
  <2>2. /\ alert' = [alert EXCEPT ![a].st = "RESOLVED"] /\ Exists(a) /\ made' = made /\ blind' = blind
    BY <1>3 DEF Resolve
  <2>3. b = a => alert'[b] = [alert[b] EXCEPT !.st = "RESOLVED"] BY <2>1, <2>2 DEF Shape
  <2>4. b # a => alert'[b] = alert[b] BY <2>2 DEF Shape
  <2> QED BY <1>1, <2>2, <2>3, <2>4, SameRow DEF Row, Shape
<1>4. CASE BeginReview(r)
  <2>1. made' = made /\ blind' = blind BY <1>4 DEF BeginReview
  <2>2. alert'[b] = alert[b] \/ (Exists(b) /\ alert'[b] = [alert[b] EXCEPT !.st = "RESOLVED"])
    BY <1>4 DEF BeginReview, IsOpen, Exists
  <2> QED BY <1>1, <2>1, <2>2, SameRow DEF Row, Shape
<1> QED BY <1>2, <1>3, <1>4

LEMMA LogRow ==
  ASSUME Shape, LockHeld, NEW r \in Requests, Delete(r) \/ Care(r) \/ Uncare(r), NEW b \in Alerts
  PROVE  blind \subseteq blind' /\ made <= made' /\ Row(b)
<1> DEFINE a == proc[r].alert
<1>1. CASE Delete(r)
  <2>1. a \in Alerts BY <1>1, DeleteOK
  <2>2. /\ alert' = [alert EXCEPT ![a] = [NoAlert EXCEPT !.st = "deleted"]]
        /\ made' = made /\ blind' = blind
    BY <1>1 DEF Delete
  <2>3. b = a => alert'[b].st = "deleted" /\ alert'[b].cared = 0 BY <2>1, <2>2 DEF Shape, NoAlert
  <2>4. b # a => alert'[b] = alert[b] BY <2>2 DEF Shape
  <2> QED BY <2>2, <2>3, <2>4, SameRow DEF Row, Gone, Shape
<1>2. CASE Care(r)
  <2>1. a \in Alerts BY <1>2, CareOK
  <2>2. /\ alert' = [alert EXCEPT ![a] = Cared(r)] /\ Exists(a) /\ made' = made
        /\ Blinds(a, proc[r].mark /\ (LevelMoved(r) \/ Closed(r) \/ ~Owns(proc[r].by)))
    BY <1>2 DEF Care, CanUpdate
  <2>3. blind \subseteq blind' /\ made <= made' BY <2>2 DEF Blinds, Shape
  <2>4. b # a => alert'[b] = alert[b] BY <2>2 DEF Shape
  <2>5. CASE b = a
    <3>1. alert'[b] = Cared(r) BY <2>1, <2>2, <2>5 DEF Shape
    <3>2. CASE proc[r].mark
      <4>1. /\ Cared(r).level = alert[a].level /\ Cared(r).source = alert[a].source
            /\ Cared(r).by = alert[a].by /\ Cared(r).cared = proc[r].seen.level
            /\ Cared(r).st = alert[a].st \/ (proc[r].seen.st = "OPEN" /\ Cared(r).st = "ACKNOWLEDGED")
        BY <2>1, <3>2, CaredOK
      <4>2. LevelMoved(r) \/ Closed(r) => a \in blind' BY <2>2, <3>2 DEF Blinds
      <4>3. Marks(r, b) BY <1>2, <2>5, <3>2 DEF Marks
      <4>4. b \notin blind' => proc[r].seen.level = alert[b].level BY <2>5, <4>2 DEF LevelMoved
      <4>5. alert[b].st = "RESOLVED" /\ proc[r].seen.st = "OPEN" => b \in blind' BY <2>5, <4>2 DEF Closed
      <4>6. Stays(b) BY <2>2, <2>5, <3>1, <4>1, <4>3, <4>4, <4>5 DEF Stays, Open
      <4> QED BY <2>3, <4>6 DEF Row
    <3>3. CASE ~proc[r].mark BY <2>1, <2>3, <2>5, <3>1, <3>3, CaredOK, SameRow DEF Row
    <3> QED BY <3>2, <3>3
  <2> QED BY <2>3, <2>4, <2>5, SameRow DEF Row
<1>3. CASE Uncare(r)
  <2>1. a \in Alerts BY <1>3, UncareOK
  <2>2. /\ alert' = alert \/ alert' = [alert EXCEPT ![a].cared = 0]
        /\ made' = made /\ Blinds(a, KeepsMark(r))
    BY <1>3 DEF Uncare
  <2>3. blind \subseteq blind' /\ made <= made' BY <2>2 DEF Blinds, Shape
  <2>4. alert'[b] = alert[b] \/ alert'[b] = [alert[b] EXCEPT !.cared = 0] BY <2>1, <2>2 DEF Shape
  <2>5. CASE alert'[b] = [alert[b] EXCEPT !.cared = 0]
    <3> DEFINE row == [alert[b] EXCEPT !.cared = 0]
    <3>1. /\ row.st = alert[b].st /\ row.level = alert[b].level
          /\ row.cared = 0 /\ row.source = alert[b].source /\ row.by = alert[b].by
      BY UncaredOK
    <3> HIDE DEF row
    <3>2. alert'[b] = row BY <2>5 DEF row
    <3>3. Stays(b) BY <3>1, <3>2 DEF Stays
    <3> QED BY <2>3, <3>3 DEF Row
  <2> QED BY <2>3, <2>4, <2>5, SameRow DEF Row
<1> QED BY <1>1, <1>2, <1>3

LEMMA SentRow ==
  ASSUME Shape, LockHeld, NEW level \in RaiseLevels, AnalysisSends(level), NEW b \in Alerts
  PROVE  blind \subseteq blind' /\ made <= made' /\ Row(b)
<1> DEFINE row == NewAlert(level, "MANUAL", "send")
<1>1. level \in 0..4 OBVIOUS
<1>2. /\ made < MaxAlerts /\ alert' = Added(row) /\ made' = made + 1 /\ made \in Nat /\ blind' = blind
      /\ due' = [due EXCEPT ![made + 1] = level] /\ due \in [Alerts -> 0..4]
  BY DEF AnalysisSends, Shape
<1>3. /\ row \in AlertRecord /\ row.st = "OPEN" /\ row.cared = 0 /\ row.level = level
      /\ row.source = "MANUAL" /\ row.by = "send"
  BY <1>1, NewAlertOK
<1> HIDE DEF row
<1>4. made + 1 \in Alerts /\ alert'[made + 1] = row /\ (b # made + 1 => alert'[b] = alert[b])
  BY <1>2, <1>3, AddedOK
<1>5. CASE b = made + 1
  <2>1. IsNew(b, "send") BY <1>2, <1>3, <1>4, <1>5 DEF IsNew
  <2>2. due'[b] = alert'[b].level BY <1>2, <1>3, <1>4, <1>5
  <2> QED BY <1>2, <2>1, <2>2 DEF Row, Sent
<1> QED BY <1>2, <1>4, <1>5, SameRow DEF Row

LEMMA Rows ==
  ASSUME Shape, LockHeld, [Next]_vars, NEW b \in Alerts
  PROVE  blind \subseteq blind' /\ made <= made' /\ Row(b)
<1>1. CASE Quiet \/ LecturerChanges
  <2>1. alert' = alert /\ made' = made /\ blind' = blind BY <1>1 DEF Quiet, LecturerChanges
  <2> QED BY <2>1, SameRow DEF Row, Shape
<1>2. ASSUME NEW level \in RaiseLevels, AnalysisSends(level)
      PROVE  blind \subseteq blind' /\ made <= made' /\ Row(b)
  BY <1>2, SentRow
<1>3. ASSUME NEW r \in Requests, Writes(r)
      PROVE  blind \subseteq blind' /\ made <= made' /\ Row(b)
  BY <1>3, CreatedRow, RaisedRow, StatusRow, LogRow DEF Writes
<1> QED BY <1>1, <1>2, <1>3, StepOK

-----------------------------------------------------------------------------
(* The alerts have the numbers up to made.                                 *)

Numbered == \A b \in Alerts : b > made => ~Exists(b)

LEMMA NumberedStep ==
  ASSUME Shape, LockHeld, Numbered, [Next]_vars
  PROVE  Numbered'
<1> SUFFICES ASSUME NEW b \in Alerts, b > made' PROVE ~Exists(b)'
  BY DEF Numbered
<1>1. Row(b) /\ made <= made' BY Rows
<1>2. (b > made /\ b # made + 1) \/ (made' = made /\ b > made)
  BY <1>1, StepOK DEF Shape, Stepped, Alerts
<1>3. ~Exists(b) BY <1>2 DEF Numbered
<1>4. ~IsNew(b, "send") /\ ~IsNew(b, "raise") /\ ~IsNew(b, "review") BY DEF IsNew, Alerts, Shape
<1> QED BY <1>1, <1>3, <1>4 DEF Row, Stays, Gone, Sent, WentUp, Created, Exists

Inv == Shape /\ LockHeld /\ Numbered

LEMMA InitInv ==
  ASSUME Init
  PROVE  Inv
<1>1. Shape /\ LockHeld BY InitOK
<1>2. Numbered BY DEF Init, Numbered, Exists, NoAlert
<1> QED BY <1>1, <1>2 DEF Inv

LEMMA InitRows ==
  ASSUME Init, NEW a \in Alerts
  PROVE  ~Exists(a) /\ alert[a].cared = 0 /\ ~IsOpen(a)
<1>1. alert[a] = NoAlert BY DEF Init
<1> QED BY <1>1 DEF NoAlert, Exists, IsOpen

LEMMA InvStep ==
  ASSUME Inv, [Next]_vars
  PROVE  Inv'
  BY StepOK, NumberedStep DEF Inv, Stepped

-----------------------------------------------------------------------------
(* Every level is announced.                                               *)

Announced(a) ==
  \/ told[a] >= alert[a].level \/ lost[a] >= alert[a].level \/ due[a] >= alert[a].level
  \/ \E r \in Requests : proc[r].at = "tell" /\ proc[r].alert = a /\ proc[r].n = alert[a].level

\* A step that takes nothing from what was or will be announced.
KeepsNews ==
  /\ told' = told /\ lost' = lost
  /\ \A a \in Alerts : a = made + 1 \/ due'[a] = due[a]
  /\ \A r \in Requests : proc[r].at = "tell" => proc'[r] = proc[r]

LEMMA KeepsNewsStep ==
  ASSUME Shape, LockHeld, [Next]_vars
  PROVE  \/ KeepsNews
         \/ \E r \in Requests : Announces(r) \/ Fails(r)
         \/ \E a \in Alerts : AnalysisDelivers(a) \/ AnalysisFails(a)
<1>1. CASE UNCHANGED vars BY <1>1 DEF vars, newsVars, KeepsNews
<1>2. CASE Imported \/ LecturerChanges BY <1>2 DEF Imported, LecturerChanges, newsVars, KeepsNews
<1>3. ASSUME NEW level \in RaiseLevels, AnalysisSends(level) PROVE KeepsNews
  BY <1>3 DEF AnalysisSends, KeepsNews, Shape
<1>4. ASSUME NEW r \in Requests,
             \/ \E requested, system \in RaiseLevels : BeginRaise(r, requested, system)
             \/ \E a \in Alerts : BeginAck(r, a) \/ BeginResolve(r, a) \/ BeginDelete(r, a)
             \/ \E a \in Alerts, s \in Staff : BeginCare(r, a, s)
             \/ \E l \in Logs : BeginUncare(r, l)
             \/ BeginReview(r)
      PROVE  KeepsNews
  <2>1. proc[r] = Idle /\ UNCHANGED newsVars
    BY <1>4 DEF BeginRaise, BeginAck, BeginResolve, BeginDelete, BeginCare, BeginUncare, BeginReview, Starts
  <2>2. \E rec : proc' = [proc EXCEPT ![r] = rec]
    BY <1>4 DEF BeginRaise, BeginAck, BeginResolve, BeginDelete, BeginCare, BeginUncare, BeginReview, Goto
  <2>3. proc \in [Requests -> Work] BY DEF Shape
  <2> QED BY <2>1, <2>2, <2>3, IdleIsWork DEF newsVars, KeepsNews
<1>5. ASSUME NEW r \in Requests,
             \/ Raise(r) \/ Review(r) \/ Acknowledge(r) \/ Resolve(r) \/ Delete(r)
             \/ Care(r) \/ UncareCounts(r) \/ Uncare(r)
      PROVE  KeepsNews
  <2>1. proc[r].at # "tell"
    <3>1. proc[r] \in Work BY DEF Shape
    <3> QED BY <1>5, <3>1 DEF Work, Raise, RaiseReads, RaiseCreates, RaiseEscalates, RaiseMerges,
         Review, ReviewLoads, ReviewCreates, ReviewUpgrades, ReviewRefreshes,
         Acknowledge, Resolve, Delete, Care, UncareCounts, Uncare
  <2>2. UNCHANGED newsVars
    BY <1>5 DEF Raise, RaiseReads, RaiseCreates, RaiseEscalates, RaiseMerges,
         Review, ReviewLoads, ReviewCreates, ReviewUpgrades, ReviewRefreshes,
         Acknowledge, Resolve, Delete, Care, UncareCounts, Uncare
  <2>3. Others(r)
    BY <1>5, RaiseReadsOK, RaiseCreatesOK, RaiseEscalatesOK, RaiseMergesOK, ReviewLoadsOK, ReviewCreatesOK,
       ReviewUpgradesOK, ReviewRefreshesOK, AcknowledgeOK, ResolveOK, DeleteOK, CareOK, UncareCountsOK, UncareOK
    DEF Raise, Review, Done
  <2> QED BY <2>1, <2>2, <2>3 DEF newsVars, KeepsNews, Others
<1> QED BY <1>1, <1>2, <1>3, <1>4, <1>5 DEF Next

LEMMA AnnouncedStep ==
  ASSUME Inv, [Next]_vars, NEW b \in Alerts, Exists(b)', Exists(b) => Announced(b)
  PROVE  Announced(b)'
<1> USE DEF Inv
<1>0. Shape' BY StepOK DEF Stepped
<1>1. Row(b) BY Rows
<1>2. ASSUME NEW r \in Requests, WillTell(r, b) PROVE Announced(b)'
  BY <1>2 DEF WillTell, Announced
<1>3. CASE Sent(b)
  <2>1. due'[b] = alert'[b].level /\ alert'[b].level \in Int BY <1>0, <1>3 DEF Sent, Shape, AlertRecord
  <2> QED BY <2>1 DEF Announced
<1>4. CASE Stays(b)
  <2>1. Announced(b) /\ alert'[b].level = alert[b].level /\ alert[b].level \in 0..4 /\ Exists(b)
    BY <1>4 DEF Stays, Exists, Shape, AlertRecord
  <2>2. told[b] \in 0..4 /\ lost[b] \in 0..4 /\ due[b] \in 0..4 BY DEF Shape
  <2>3. CASE KeepsNews /\ b # made + 1 BY <2>1, <2>2, <2>3 DEF KeepsNews, Announced
  <2>4. ASSUME NEW r \in Requests, Announces(r) \/ Fails(r) PROVE Announced(b)'
    <3> DEFINE a == proc[r].alert
    <3>1. \A q \in Requests : q # r => proc'[q] = proc[q] BY <2>4, AnnouncesOK, FailsOK DEF Done, Others
    <3>2. /\ due' = due /\ told'[b] >= told[b] /\ lost'[b] >= lost[b]
          /\ proc[r].at = "tell" /\ a = b => told'[b] >= proc[r].n \/ lost'[b] >= proc[r].n
      <4>1. CASE Announces(r)
        <5>1. a \in Alerts /\ proc[r].n \in 0..4 /\ told \in [Alerts -> 0..4] BY <4>1, AnnouncesOK DEF Shape
        <5>2. told' = Reached(told, a, proc[r].n) /\ lost' = lost /\ due' = due BY <4>1 DEF Announces
        <5> HIDE DEF a
        <5>3. told'[b] >= told[b] /\ told'[a] >= proc[r].n BY <5>1, <5>2, ReachedOK
        <5> QED BY <2>2, <5>2, <5>3
      <4>2. CASE Fails(r)
        <5>1. /\ proc[r].at = "tell" => a \in Alerts /\ proc[r].n \in 0..4
              /\ lost \in [Alerts -> 0..4]
          BY <4>2, FailsOK DEF Shape
        <5>2. /\ told' = told /\ due' = due
              /\ lost' = IF proc[r].at = "tell" THEN Reached(lost, a, proc[r].n) ELSE lost
          BY <4>2 DEF Fails
        <5> HIDE DEF a
        <5>3. CASE proc[r].at = "tell"
          <6>1. lost'[b] >= lost[b] /\ lost'[a] >= proc[r].n BY <5>1, <5>2, <5>3, ReachedOK
          <6> QED BY <2>2, <5>2, <6>1
        <5>4. CASE proc[r].at # "tell" BY <2>2, <5>2, <5>4
        <5> QED BY <5>3, <5>4
      <4> QED BY <2>4, <4>1, <4>2
    <3>3. told'[b] \in 0..4 /\ lost'[b] \in 0..4 BY <1>0 DEF Shape
    <3> QED BY <2>1, <2>2, <3>1, <3>2, <3>3 DEF Announced
  <2>5. ASSUME NEW a \in Alerts, AnalysisDelivers(a) \/ AnalysisFails(a) PROVE Announced(b)'
    <3>1. due[a] \in 0..4 /\ proc' = proc BY <2>5, AnalysisEndsOK DEF AnalysisDelivers, AnalysisFails
    <3>2. /\ told'[b] >= told[b] /\ lost'[b] >= lost[b]
          /\ a = b => told'[b] >= due[b] \/ lost'[b] >= due[b]
          /\ a # b => due'[b] = due[b]
      <4>0. told \in [Alerts -> 0..4] /\ lost \in [Alerts -> 0..4] /\ due \in [Alerts -> 0..4] BY DEF Shape
      <4>1. CASE AnalysisDelivers(a)
        <5>1. /\ told' = Reached(told, a, due[a]) /\ lost' = lost /\ due' = [due EXCEPT ![a] = 0]
          BY <4>1 DEF AnalysisDelivers
        <5>2. told'[b] >= told[b] /\ told'[a] >= due[a] BY <3>1, <4>0, <5>1, ReachedOK
        <5> QED BY <2>2, <4>0, <5>1, <5>2
      <4>2. CASE AnalysisFails(a)
        <5>1. /\ lost' = Reached(lost, a, due[a]) /\ told' = told /\ due' = [due EXCEPT ![a] = 0]
          BY <4>2 DEF AnalysisFails
        <5>2. lost'[b] >= lost[b] /\ lost'[a] >= due[a] BY <3>1, <4>0, <5>1, ReachedOK
        <5> QED BY <2>2, <4>0, <5>1, <5>2
      <4> QED BY <2>5, <4>1, <4>2
    <3>3. told'[b] \in 0..4 /\ lost'[b] \in 0..4 BY <1>0 DEF Shape
    <3> QED BY <2>1, <2>2, <3>1, <3>2, <3>3 DEF Announced
  <2>6. b # made + 1 BY <2>1 DEF Numbered, Shape
  <2> QED BY <2>3, <2>4, <2>5, <2>6, KeepsNewsStep
<1>5. CASE Gone(b) BY <1>5 DEF Gone, Exists
<1> QED BY <1>1, <1>2, <1>3, <1>4, <1>5 DEF Row, WentUp, Created

\* raise, upgradeAlert and commitSend: the level of every alert was announced, is being
\* announced, is left to the delivery that announces it, or was lost with the request or the
\* delivery that had it to announce; merges, refreshes and overlaps swallow none.
THEOREM LevelIsAnnounced == Spec => []LevelAnnounced
<1>1. Init => Inv /\ LevelAnnounced BY InitInv, InitRows DEF LevelAnnounced
<1>2. Inv /\ LevelAnnounced /\ [Next]_vars => Inv' /\ LevelAnnounced'
  <2> SUFFICES ASSUME Inv, LevelAnnounced, [Next]_vars PROVE Inv' /\ LevelAnnounced' OBVIOUS
  <2>1. \A b \in Alerts : Exists(b) => Announced(b) BY DEF LevelAnnounced, Announced
  <2>2. \A b \in Alerts : Exists(b)' => Announced(b)' BY <2>1, AnnouncedStep
  <2> QED BY <2>2, InvStep DEF LevelAnnounced, Announced
<1> QED BY <1>1, <1>2, PTL DEF Spec

-----------------------------------------------------------------------------
(* Care is for the level, and alerts move forward.                         *)

LEMMA CareStep ==
  ASSUME Inv, CaredForLevel, [Next]_vars
  PROVE  CaredForLevel'
<1> SUFFICES ASSUME NEW b \in Alerts, alert'[b].cared # 0, b \notin blind'
             PROVE  alert'[b].cared = alert'[b].level
  BY DEF CaredForLevel
<1>1. Row(b) /\ blind \subseteq blind' BY Rows DEF Inv
<1>2. Stays(b) BY <1>1 DEF Row, Gone, Sent, WentUp, Created, IsNew
<1>3. (alert'[b].cared = alert[b].cared \/ alert'[b].cared = alert[b].level) /\ alert'[b].level = alert[b].level
  BY <1>2 DEF Stays
<1> QED BY <1>1, <1>3 DEF CaredForLevel

\* raise, upgradeAlert, markOwnerCared: an alert marked as cared for was cared for at the level
\* it has, whatever handlers overlap, unless a handler has written it over a change.
THEOREM CareIsForTheLevel == Spec => []CaredForLevel
<1>1. Init => Inv /\ CaredForLevel BY InitInv, InitRows DEF CaredForLevel
<1>2. Inv /\ CaredForLevel /\ [Next]_vars => Inv' /\ CaredForLevel' BY InvStep, CareStep
<1> QED BY <1>1, <1>2, PTL DEF Spec

\* decideRaise, decideAction, resolve, acknowledge, markOwnerCared: no step lowers an alert or
\* opens a resolved one, whatever handlers overlap, unless it writes over a change.
THEOREM AlertMovesForward == Spec => AlertOnlyMovesForward
<1>1. Init => Inv BY InitInv
<1>2. Inv /\ [Next]_vars => Inv' BY InvStep
<1>3. ASSUME Inv, [Next]_vars, NEW a \in Alerts, Exists(a), alert'[a].st # "deleted", a \notin blind'
      PROVE  /\ alert'[a].level >= alert[a].level
             /\ alert[a].st = "RESOLVED" => alert'[a].st = "RESOLVED"
  <2>1. Row(a) BY <1>3, Rows DEF Inv
  <2>2. ~Sent(a) /\ \A r \in Requests : ~Created(r, a)
    BY <1>3 DEF Inv, Numbered, Shape, Sent, Created, IsNew
  <2>3. alert[a].level \in 0..4 BY <1>3 DEF Inv, Shape, AlertRecord
  <2>4. alert'[a].level \in 0..4 BY <1>3, InvStep DEF Inv, Shape, AlertRecord
  <2>5. CASE Stays(a) BY <1>3, <2>3, <2>5 DEF Stays
  <2>6. ASSUME NEW r \in Requests, WentUp(r, a)
        PROVE  alert'[a].level >= alert[a].level /\ alert[a].st # "RESOLVED"
    BY <1>3, <2>3, <2>4, <2>6 DEF WentUp
  <2> QED BY <1>3, <2>1, <2>2, <2>5, <2>6 DEF Row, Gone
<1>4. Inv /\ [Next]_vars =>
        [\A a \in Alerts : Exists(a) /\ alert'[a].st # "deleted" /\ a \notin blind' =>
            /\ alert'[a].level >= alert[a].level
            /\ alert[a].st = "RESOLVED" => alert'[a].st = "RESOLVED"]_vars
  BY <1>3
<1> QED BY <1>1, <1>2, <1>4, PTL DEF Spec, AlertOnlyMovesForward

-----------------------------------------------------------------------------
(* Raises and reviews leave one open alert.                                *)

Origin ==
  \A a \in Alerts : Exists(a) =>
     /\ alert[a].by \in {"raise", "review", "send"}
     /\ alert[a].source = "AUTO_ATTENDANCE" <=> alert[a].by = "review"

\* The open alerts a raise or a review that is about to create one has not seen.
Lone(r) ==
  proc[r].op \in {"raise", "review"} /\ proc[r].at = "write" /\ proc[r].alert = 0 =>
     /\ proc[r].known <= made
     /\ \A b \in OpenAlerts : b \notin blind /\ alert[b].by # "send" =>
          IF proc[r].op = "raise" THEN b > proc[r].known /\ alert[b].by = "review"
          ELSE b > proc[r].known \/ alert[b].by = "review"

OnceInv == Origin /\ IndexAllows(alert) /\ RaisedOnce /\ \A r \in Requests : Lone(r)

Automatic(rows) == {a \in Alerts : rows[a].source = "AUTO_ATTENDANCE" /\ rows[a].st \in {"OPEN", "ACKNOWLEDGED"}}

LEMMA AutomaticFinite ==
  ASSUME NEW rows
  PROVE  IsFiniteSet(Automatic(rows))
<1>1. IsFiniteSet(Alerts) BY FS_Interval DEF Alerts
<1>2. Automatic(rows) \subseteq Alerts BY DEF Automatic
<1> QED BY <1>1, <1>2, FS_Subset

\* The partial unique index.
LEMMA IndexMeans ==
  ASSUME NEW rows, IndexAllows(rows), NEW a \in Automatic(rows), NEW b \in Automatic(rows)
  PROVE  a = b
<1> DEFINE S == Automatic(rows)
<1>1. Cardinality(S) <= 1 BY DEF IndexAllows, Automatic
<1>2. IsFiniteSet(S) BY AutomaticFinite
<1> HIDE DEF S
<1>3. a \in S /\ b \in S BY DEF S
<1>4. IsFiniteSet(S \ {a}) /\ Cardinality(S \ {a}) = Cardinality(S) - 1
  BY <1>2, <1>3, FS_RemoveElement
<1>5. Cardinality(S) \in Nat /\ Cardinality(S \ {a}) \in Nat BY <1>2, <1>4, FS_CardinalityType
<1>6. Cardinality(S \ {a}) = 0 BY <1>1, <1>4, <1>5
<1>7. S \ {a} = {} BY <1>4, <1>6, FS_EmptySet
<1> QED BY <1>3, <1>7

LEMMA IndexKept ==
  ASSUME NEW rows, NEW later, IndexAllows(rows), Automatic(later) \subseteq Automatic(rows)
  PROVE  IndexAllows(later)
<1>1. IsFiniteSet(Automatic(rows)) BY AutomaticFinite
<1>2. Cardinality(Automatic(rows)) <= 1 BY DEF IndexAllows, Automatic
<1>3. IsFiniteSet(Automatic(later)) /\ Cardinality(Automatic(later)) <= Cardinality(Automatic(rows))
  BY <1>1, FS_Subset
<1>4. Cardinality(Automatic(rows)) \in Nat /\ Cardinality(Automatic(later)) \in Nat
  BY <1>1, <1>3, FS_CardinalityType
<1>5. Cardinality(Automatic(later)) <= 1 BY <1>2, <1>3, <1>4
<1> QED BY <1>5 DEF IndexAllows, Automatic

LEMMA IndexStep ==
  ASSUME Inv, IndexAllows(alert), [Next]_vars
  PROVE  IndexAllows(alert')
<1> USE DEF Inv
<1>1. CASE Quiet \/ LecturerChanges
  <2>1. alert' = alert BY <1>1 DEF Quiet, LecturerChanges
  <2> QED BY <2>1
<1>2. ASSUME NEW level \in RaiseLevels, AnalysisSends(level) PROVE IndexAllows(alert')
  <2>1. alert' = Added(NewAlert(level, "MANUAL", "send")) /\ made < MaxAlerts
    BY <1>2 DEF AnalysisSends
  <2>2. \A b \in Alerts : alert'[b].source = "AUTO_ATTENDANCE" => alert'[b] = alert[b]
    <3>1. level \in 0..4 OBVIOUS
    <3> QED BY <2>1, <3>1, AddedOK, NewAlertOK
  <2>3. Automatic(alert') \subseteq Automatic(alert) BY <2>2 DEF Automatic
  <2> QED BY <2>3, IndexKept
<1>3. ASSUME NEW r \in Requests, Writes(r) PROVE IndexAllows(alert')
  <2>1. CASE RaiseEscalates(r) \/ ReviewUpgrades(r) \/ Acknowledge(r) \/ Care(r)
    BY <2>1 DEF RaiseEscalates, ReviewUpgrades, Acknowledge, Care, CanUpdate
  <2>2. CASE ReviewCreates(r)
    <3>1. ReviewCreated(r) \/ alert' = alert BY <2>2, ReviewCreatesOK
    <3> QED BY <3>1 DEF ReviewCreated
  <2>3. CASE RaiseCreates(r)
    <3>1. alert' = Added(NewAlert(proc[r].n, "MANUAL", "raise")) /\ made < MaxAlerts
      BY <2>3 DEF RaiseCreates
    <3>2. \A b \in Alerts : alert'[b].source = "AUTO_ATTENDANCE" => alert'[b] = alert[b]
      <4>1. proc[r].n \in 0..4 BY <2>3, RaiseCreatesOK
      <4> QED BY <3>1, <4>1, AddedOK, NewAlertOK
    <3>3. Automatic(alert') \subseteq Automatic(alert) BY <3>2 DEF Automatic
    <3> QED BY <3>3, IndexKept
  <2>4. CASE Resolve(r) \/ BeginReview(r)
    <3>1. \A b \in Alerts : alert'[b] = alert[b] \/ alert'[b] = [alert[b] EXCEPT !.st = "RESOLVED"]
      BY <2>4, ResolveOK DEF Resolve, BeginReview, Shape
    <3>2. \A b \in Alerts : LET row == [alert[b] EXCEPT !.st = "RESOLVED"] IN row.st = "RESOLVED"
      BY RecordFields, StatusOK
    <3>3. Automatic(alert') \subseteq Automatic(alert) BY <3>1, <3>2 DEF Automatic
    <3> QED BY <3>3, IndexKept
  <2>5. CASE Delete(r)
    <3>1. \A b \in Alerts : alert'[b] = alert[b] \/ alert'[b].st = "deleted"
      BY <2>5, DeleteOK DEF Delete, Shape, NoAlert
    <3>2. Automatic(alert') \subseteq Automatic(alert) BY <3>1 DEF Automatic
    <3> QED BY <3>2, IndexKept
  <2>6. CASE Uncare(r)
    <3>1. \A b \in Alerts : alert'[b] = alert[b] \/ alert'[b] = [alert[b] EXCEPT !.cared = 0]
      BY <2>6, UncareOK DEF Uncare, Shape
    <3>2. \A b \in Alerts : alert'[b].st = alert[b].st /\ alert'[b].source = alert[b].source
      BY <3>1, UncaredOK
    <3>3. Automatic(alert') \subseteq Automatic(alert) BY <3>2 DEF Automatic
    <3> QED BY <3>3, IndexKept
  <2> QED BY <1>3, <2>1, <2>2, <2>3, <2>4, <2>5, <2>6 DEF Writes
<1> QED BY <1>1, <1>2, <1>3, StepOK

LEMMA OriginStep ==
  ASSUME Inv, Origin, [Next]_vars
  PROVE  Origin'
<1> SUFFICES ASSUME NEW b \in Alerts, Exists(b)'
             PROVE  /\ alert'[b].by \in {"raise", "review", "send"}
                    /\ alert'[b].source = "AUTO_ATTENDANCE" <=> alert'[b].by = "review"
  BY DEF Origin
<1>1. Row(b) BY Rows DEF Inv
<1>2. CASE Exists(b) /\ alert'[b].by = alert[b].by /\ alert'[b].source = alert[b].source
  BY <1>2 DEF Origin
<1>3. CASE Sent(b) \/ \E r \in Requests : Created(r, b) BY <1>3 DEF Sent, Created, IsNew
<1> QED BY <1>1, <1>2, <1>3 DEF Row, Stays, Gone, WentUp, Exists

\* An open alert that no handler has written over was open before, or is the new one.
Old(b) == b \in OpenAlerts /\ b \notin blind /\ alert'[b].by = alert[b].by /\ alert'[b].source = alert[b].source

LEMMA OldOrNew ==
  ASSUME Inv, [Next]_vars, NEW b \in Alerts, IsOpen(b)', b \notin blind', alert'[b].by # "send"
  PROVE  Old(b) \/ \E r \in Requests : Created(r, b)
<1>1. Row(b) /\ blind \subseteq blind' BY Rows DEF Inv
<1>2. CASE Stays(b) BY <1>1, <1>2 DEF Stays, Old, OpenAlerts, IsOpen, Exists, Open
<1>3. ASSUME NEW r \in Requests, WentUp(r, b) PROVE Old(b)
  BY <1>1, <1>3 DEF WentUp, Old, OpenAlerts, IsOpen, Exists
<1>4. ~Gone(b) /\ ~Sent(b) BY DEF Gone, Sent, IsNew, IsOpen
<1> QED BY <1>1, <1>2, <1>3, <1>4 DEF Row

\* Who creates an alert is alone, or has not seen it.
LEMMA CreatesAlone ==
  ASSUME Inv, OnceInv, [Next]_vars, NEW r \in Requests, NEW a \in Alerts, Created(r, a), a \notin blind',
         NEW b \in Alerts, Old(b), a # b, alert[b].by # "send", IsOpen(b)'
  PROVE  FALSE
<1>1. Lone(r) BY DEF OnceInv
<1>2. b \in OpenAlerts /\ b \notin blind BY DEF Old
<1>3. CASE RaiseCreates(r) /\ (Crossed(r, "review") => a \in blind')
  <2>1. proc[r].op = "raise" /\ proc[r].at = "write" /\ proc[r].alert = 0 BY <1>3 DEF RaiseCreates
  <2>2. b > proc[r].known /\ alert[b].by = "review" BY <1>1, <1>2, <2>1 DEF Lone
  <2> QED BY <1>2, <1>3, <2>2 DEF Crossed
<1>4. CASE ReviewCreates(r) /\ IsNew(a, "review") /\ (Crossed(r, "raise") => a \in blind')
  <2>1. proc[r].op = "review" /\ proc[r].at = "write" /\ proc[r].alert = 0 BY <1>4 DEF ReviewCreates
  <2>2. b > proc[r].known \/ alert[b].by = "review" BY <1>1, <1>2, <2>1 DEF Lone
  <2>3. Exists(b) BY <1>2 DEF OpenAlerts, IsOpen, Exists
  <2>4. CASE alert[b].by = "review"
    <3>1. alert[b].source = "AUTO_ATTENDANCE" BY <2>3, <2>4 DEF OnceInv, Origin
    <3>2. a \in Automatic(alert') /\ b \in Automatic(alert')
      BY <1>4, <3>1 DEF Old, Automatic, IsOpen, IsNew
    <3>3. IndexAllows(alert') BY IndexStep DEF OnceInv
    <3> QED BY <3>2, <3>3, IndexMeans
  <2>5. CASE alert[b].by # "review"
    <3>1. alert[b].by = "raise" BY <2>3, <2>5 DEF OnceInv, Origin
    <3> QED BY <1>2, <1>4, <2>2, <2>5, <3>1 DEF Crossed
  <2> QED BY <2>4, <2>5
<1> QED BY <1>3, <1>4 DEF Created

LEMMA RaisedOnceStep ==
  ASSUME Inv, OnceInv, [Next]_vars
  PROVE  RaisedOnce'
<1> SUFFICES ASSUME NEW a \in Alerts, NEW b \in Alerts, IsOpen(a)', IsOpen(b)', a # b,
                    a \notin blind', b \notin blind', alert'[a].by # "send", alert'[b].by # "send"
             PROVE  FALSE
  BY DEF RaisedOnce, OpenAlerts
<1>1. Old(a) \/ \E r \in Requests : Created(r, a) BY OldOrNew
<1>2. Old(b) \/ \E r \in Requests : Created(r, b) BY OldOrNew
<1>3. CASE Old(a) /\ Old(b) BY <1>3 DEF OnceInv, RaisedOnce, Old
<1>4. ASSUME NEW r \in Requests, Created(r, a), NEW q \in Requests, Created(q, b) PROVE FALSE
  BY <1>4 DEF Created, IsNew
<1>5. ASSUME NEW r \in Requests, Created(r, a), Old(b) PROVE FALSE
  BY <1>5, CreatesAlone DEF Old
<1>6. ASSUME NEW r \in Requests, Created(r, b), Old(a) PROVE FALSE
  BY <1>6, CreatesAlone DEF Old
<1> QED BY <1>1, <1>2, <1>3, <1>4, <1>5, <1>6

LEMMA LoneStep ==
  ASSUME Inv, OnceInv, [Next]_vars, NEW q \in Requests
  PROVE  Lone(q)'
<1> SUFFICES ASSUME proc'[q].op \in {"raise", "review"}, proc'[q].at = "write", proc'[q].alert = 0
             PROVE  /\ proc'[q].known <= made'
                    /\ \A b \in OpenAlerts' : b \notin blind' /\ alert'[b].by # "send" =>
                         IF proc'[q].op = "raise" THEN b > proc'[q].known /\ alert'[b].by = "review"
                         ELSE b > proc'[q].known \/ alert'[b].by = "review"
  BY DEF Lone
<1>1. Takes(q) BY StepOK DEF Inv, Stepped
<1>2. CASE Quiet /\ Found(q)
  <2>1. OpenAlerts = {} /\ proc'[q].known = made BY <1>2 DEF Found, OpenAlerts, Alerts
  <2>2. OpenAlerts' = OpenAlerts /\ made' = made BY <1>2 DEF Quiet, OpenAlerts, IsOpen
  <2> QED BY <2>1, <2>2 DEF Inv, Shape
<1>3. CASE proc'[q] = proc[q]
  <2>1. Lone(q) BY DEF OnceInv
  <2>2. made \in Nat /\ made' \in Nat /\ proc[q].known \in Nat
    BY InvStep DEF Inv, Shape, Work, ProcRecord
  <2>3. proc'[q].known <= made'
    <3>1. MaxAlerts = 0 \/ 1 \in Alerts BY DEF Alerts
    <3>2. made <= made'
      <4>1. CASE 1 \in Alerts BY <4>1, Rows DEF Inv
      <4>2. CASE MaxAlerts = 0 BY <4>2, InvStep DEF Inv, Shape
      <4> QED BY <3>1, <4>1, <4>2
    <3> QED BY <1>3, <2>1, <2>2, <3>2 DEF Lone
  <2>4. ASSUME NEW b \in Alerts, IsOpen(b)', b \notin blind', alert'[b].by # "send"
        PROVE  IF proc'[q].op = "raise" THEN b > proc'[q].known /\ alert'[b].by = "review"
               ELSE b > proc'[q].known \/ alert'[b].by = "review"
    <3>1. Old(b) \/ \E r \in Requests : Created(r, b) BY <2>4, OldOrNew
    <3>2. CASE Old(b) BY <1>3, <2>1, <2>4, <3>2 DEF Lone, Old
    <3>3. ASSUME NEW r \in Requests, Created(r, b)
          PROVE  b > proc'[q].known /\ (proc'[q].op = "raise" => alert'[b].by = "review")
      <4>1. b = made + 1 /\ proc'[r].at = "tell" BY <3>3 DEF Created, IsNew, WillTell
      <4>2. b > proc'[q].known BY <1>3, <2>1, <2>2, <4>1 DEF Lone
      <4>3. CASE RaiseCreates(r)
        <5>1. proc'[q].op # "raise"
          BY <1>3, <4>1, <4>3 DEF RaiseCreates, Inv, LockHeld
        <5> QED BY <4>2, <5>1
      <4>4. CASE IsNew(b, "review") BY <4>2, <4>4 DEF IsNew
      <4> QED BY <3>3, <4>3, <4>4 DEF Created
    <3> QED BY <3>1, <3>2, <3>3
  <2> QED BY <2>3, <2>4 DEF OpenAlerts
<1> QED BY <1>1, <1>2, <1>3 DEF Takes, TakesLog

LEMMA OnceStep ==
  ASSUME Inv, OnceInv, [Next]_vars
  PROVE  OnceInv'
  BY IndexStep, OriginStep, RaisedOnceStep, LoneStep DEF OnceInv, IndexAllows

\* raise and createAlert, with the advisory lock and the partial unique index: however raises,
\* reviews, sends, resolutions and deletions overlap, two open alerts of raises and reviews mean
\* that a raise and a review crossed, or that a handler wrote over a resolution.
THEOREM OneIsRaised == Spec => []RaisedOnce
<1>1. Init => Inv /\ OnceInv
  <2> SUFFICES ASSUME Init PROVE Inv /\ OnceInv OBVIOUS
  <2>1. OpenAlerts = {} /\ \A a \in Alerts : ~Exists(a) BY InitRows DEF OpenAlerts
  <2>2. Automatic(alert) = {} BY <2>1 DEF Automatic, OpenAlerts, IsOpen
  <2>3. Cardinality(Automatic(alert)) = 0 BY <2>2, FS_EmptySet
  <2>4. IndexAllows(alert) BY <2>3 DEF IndexAllows, Automatic
  <2>5. \A r \in Requests : proc[r].at = "idle" BY IdleIsWork DEF Init
  <2> QED BY <2>1, <2>4, <2>5, InitInv DEF OnceInv, Origin, RaisedOnce, Lone
<1>2. Inv /\ OnceInv /\ [Next]_vars => Inv' /\ OnceInv' BY InvStep, OnceStep
<1>3. OnceInv => RaisedOnce BY DEF OnceInv
<1> QED BY <1>1, <1>2, <1>3, PTL DEF Spec

-----------------------------------------------------------------------------
(* Care has its log.                                                       *)

Written == \A l \in Logs : log[l].alert # 0 => l <= logs

Entry(q) == [alert |-> proc[q].alert, by |-> proc[q].by]

\* The log a deletion is about is there as it was read, or gone.
UncareSees(q) ==
  proc[q].op = "uncare" => proc[q].n <= logs /\ log[proc[q].n] \in {NoLog, Entry(q)}

LogInv == Written /\ (\A q \in Requests : UncareSees(q)) /\ CaredHasLog

LEMMA LogsStep ==
  ASSUME Inv, [Next]_vars
  PROVE  \/ UNCHANGED <<log, logs>>
         \/ \E r \in Requests : Care(r) \/ Uncare(r) \/ Delete(r)
<1>1. CASE Quiet \/ LecturerChanges BY <1>1 DEF Quiet, LecturerChanges, caseVars
<1>2. CASE \E level \in RaiseLevels : AnalysisSends(level) BY <1>2 DEF AnalysisSends, caseVars
<1>3. ASSUME NEW r \in Requests, Writes(r)
      PROVE  UNCHANGED <<log, logs>> \/ Care(r) \/ Uncare(r) \/ Delete(r)
  BY <1>3 DEF Writes, RaiseCreates, RaiseEscalates, Acknowledge, Resolve, BeginReview, ReviewCreates,
     ReviewUpgrades, caseVars
<1> QED BY <1>1, <1>2, <1>3, StepOK DEF Inv

\* What becomes of a log: it stays or is deleted, or is the next one.
LogKept(l) == log'[l] = log[l] \/ log'[l] = NoLog \/ l = logs + 1

LEMMA LogsKept ==
  ASSUME Inv, [Next]_vars, NEW l \in Logs
  PROVE  LogKept(l) /\ logs <= logs' /\ (l = logs + 1 => log'[l] = log[l] \/ log'[l] = NoLog \/ logs' = logs + 1)
<1>1. CASE UNCHANGED <<log, logs>> BY <1>1 DEF LogKept, Inv, Shape
<1>2. ASSUME NEW r \in Requests, Care(r)
      PROVE  LogKept(l) /\ logs <= logs' /\ (l = logs + 1 => log'[l] = log[l] \/ log'[l] = NoLog \/ logs' = logs + 1)
  BY <1>2 DEF Care, LogKept, Inv, Shape
<1>3. ASSUME NEW r \in Requests, Uncare(r) \/ Delete(r)
      PROVE  LogKept(l) /\ logs <= logs' /\ (l = logs + 1 => log'[l] = log[l] \/ log'[l] = NoLog \/ logs' = logs + 1)
  BY <1>3 DEF Uncare, Delete, LogKept, Inv, Shape
<1> QED BY <1>1, <1>2, <1>3, LogsStep

LEMMA WrittenStep ==
  ASSUME Inv, Written, [Next]_vars
  PROVE  Written'
<1> SUFFICES ASSUME NEW l \in Logs, log'[l].alert # 0 PROVE l <= logs'
  BY DEF Written
<1>1. logs \in Nat /\ logs' \in Nat /\ l \in Nat BY InvStep DEF Inv, Shape, Logs
<1>2. LogKept(l) /\ logs <= logs' /\ (l = logs + 1 => log'[l] = log[l] \/ log'[l] = NoLog \/ logs' = logs + 1)
  BY LogsKept
<1> QED BY <1>1, <1>2, NoLogOK DEF Written, LogKept

LEMMA UncareSeesStep ==
  ASSUME Inv, LogInv, [Next]_vars, NEW q \in Requests
  PROVE  UncareSees(q)'
<1> SUFFICES ASSUME proc'[q].op = "uncare"
             PROVE  proc'[q].n <= logs' /\ log'[proc'[q].n] \in {NoLog, Entry(q)'}
  BY DEF UncareSees
<1> DEFINE n == proc'[q].n
<1>1. logs \in Nat /\ logs' \in Nat /\ n \in Logs
  BY InvStep DEF Inv, Shape, Work
<1>2. LogKept(n) /\ logs <= logs' BY <1>1, LogsKept
<1>3. Takes(q) BY StepOK DEF Inv, Stepped
<1>4. n <= logs /\ log[n] \in {NoLog, Entry(q)'}
  <2>1. CASE proc'[q] = proc[q] BY <2>1 DEF LogInv, UncareSees, Entry
  <2>2. CASE /\ proc[q].op = "uncare" /\ proc'[q].n = proc[q].n
             /\ proc'[q].alert = proc[q].alert /\ proc'[q].by = proc[q].by
    BY <2>2 DEF LogInv, UncareSees, Entry
  <2>3. CASE /\ log[n].alert # 0 /\ proc'[q].alert = log[n].alert /\ proc'[q].by = log[n].by
    <3>1. log[n] \in LogRecord BY <1>1 DEF Inv, Shape
    <3>2. log[n] = [alert |-> log[n].alert, by |-> log[n].by] BY <3>1, RecordFields
    <3> QED BY <1>1, <2>3, <3>2 DEF LogInv, Written, Entry
  <2>4. CASE proc'[q].at \in {"idle", "read", "tell"}
    <3>1. proc'[q] \in Work BY InvStep DEF Inv, Shape
    <3> QED BY <2>4, <3>1 DEF Work, Ops
  <2> QED BY <1>3, <2>1, <2>2, <2>3, <2>4 DEF Takes, TakesLog
<1>5. n # logs + 1 BY <1>1, <1>4 DEF Logs
<1>6. n \in Nat BY <1>1 DEF Logs
<1> QED BY <1>1, <1>2, <1>4, <1>5, <1>6 DEF LogKept

\* Whose mark stays still has a log.
LEMMA KeepsWitness ==
  ASSUME Inv, LogInv, [Next]_vars, NEW b \in Alerts, NEW l \in Logs,
         log[l] = [alert |-> b, by |-> lecturer], lecturer' = lecturer,
         alert[b].cared # 0, alert'[b].cared # 0, b \notin blind'
  PROVE  \E k \in Logs : log'[k] = [alert |-> b, by |-> lecturer]
<1>1. CASE UNCHANGED <<log, logs>> BY <1>1
<1>2. ASSUME NEW r \in Requests, Care(r) PROVE log'[l] = log[l]
  <2>1. b # 0 BY DEF Alerts
  <2>2. l <= logs BY <2>1 DEF LogInv, Written
  <2>3. l # logs + 1 BY <2>2 DEF Logs, Inv, Shape
  <2> QED BY <1>2, <2>3 DEF Care, Inv, Shape
<1>3. ASSUME NEW r \in Requests, Delete(r) PROVE log'[l] = log[l]
  <2>1. proc[r].alert \in Alerts BY <1>3, DeleteOK DEF Inv
  <2>2. b # proc[r].alert BY <1>3, <2>1 DEF Delete, NoAlert, Inv, Shape
  <2> QED BY <1>3, <2>2 DEF Delete, Inv, Shape
<1>4. ASSUME NEW r \in Requests, Uncare(r)
      PROVE  \E k \in Logs : log'[k] = [alert |-> b, by |-> lecturer]
  <2> DEFINE a == proc[r].alert
             n == proc[r].n
  <2>1. a \in Alerts /\ n \in Logs BY <1>4, UncareOK DEF Inv
  <2>2. \A k \in Logs : k # n => log'[k] = log[k] BY <1>4 DEF Uncare, Inv, Shape
  <2>3. CASE l = n
    <3>1. log[n] \in {NoLog, [alert |-> a, by |-> proc[r].by]}
      BY <1>4 DEF LogInv, UncareSees, Entry, Uncare
    <3>2. b # 0 BY DEF Alerts
    <3>3. a = b /\ proc[r].by = lecturer BY <2>3, <3>1, <3>2 DEF NoLog
    <3>4. ~proc[r].mark
      <4>1. CASE proc[r].mark
        <5>1. alert' = [alert EXCEPT ![a].cared = 0] BY <1>4, <4>1 DEF Uncare
        <5>2. alert'[b] = [alert[b] EXCEPT !.cared = 0] BY <2>1, <3>3, <5>1 DEF Inv, Shape
        <5> QED BY <5>2, UncaredOK DEF Inv
      <4> QED BY <4>1
    <3>5. ~KeepsMark(r) BY <1>4, <3>3 DEF Uncare, Blinds
    <3>6. ~LastLog(r) BY <3>3, <3>4, <3>5 DEF KeepsMark, Owns
    <3>7. PICK k \in Logs : log[k] = [alert |-> a, by |-> proc[r].by] /\ k # n
      BY <3>6 DEF LastLog
    <3> QED BY <2>2, <3>3, <3>7
  <2> QED BY <2>2, <2>3
<1> QED BY <1>1, <1>2, <1>3, <1>4, LogsStep

LEMMA CaredHasLogStep ==
  ASSUME Inv, LogInv, [Next]_vars
  PROVE  CaredHasLog'
<1> SUFFICES ASSUME NEW b \in Alerts, alert'[b].cared # 0, b \notin blind', b \notin handed'
             PROVE  \E l \in Logs : log'[l] = [alert |-> b, by |-> lecturer']
  BY DEF CaredHasLog
<1>1. Row(b) /\ blind \subseteq blind' BY Rows DEF Inv
<1>2. Stays(b) BY <1>1 DEF Row, Gone, Sent, WentUp, Created, IsNew
<1>3. ASSUME NEW r \in Requests, Marks(r, b)
      PROVE  \E l \in Logs : log'[l] = [alert |-> b, by |-> lecturer']
  <2>1. Owns(proc[r].by) BY <1>3 DEF Marks, Care, Blinds
  <2>2. logs + 1 \in Logs BY <1>3, CareOK DEF Marks, Inv
  <2>3. log'[logs + 1] = [alert |-> b, by |-> proc[r].by] BY <1>3, <2>2 DEF Marks, Care, Inv, Shape
  <2>4. lecturer' = lecturer BY <1>3 DEF Marks, Care
  <2> QED BY <2>1, <2>2, <2>3, <2>4 DEF Owns
<1>4. CASE alert'[b].cared = alert[b].cared
  <2>1. lecturer' = lecturer /\ handed' = handed
    <3>1. CASE Quiet BY <3>1 DEF Quiet, caseVars
    <3>2. CASE \E level \in RaiseLevels : AnalysisSends(level) BY <3>2 DEF AnalysisSends, caseVars
    <3>3. ASSUME NEW r \in Requests, Writes(r) PROVE lecturer' = lecturer /\ handed' = handed
      BY <3>3 DEF Writes, RaiseCreates, RaiseEscalates, Acknowledge, Resolve, BeginReview, ReviewCreates,
         ReviewUpgrades, Delete, Care, Uncare, caseVars
    <3>4. ~LecturerChanges BY <1>4 DEF LecturerChanges
    <3> QED BY <3>1, <3>2, <3>3, <3>4, StepOK DEF Inv
  <2>2. PICK l \in Logs : log[l] = [alert |-> b, by |-> lecturer]
    BY <1>1, <1>4, <2>1 DEF LogInv, CaredHasLog
  <2> QED BY <1>4, <2>1, <2>2, KeepsWitness
<1> QED BY <1>2, <1>3, <1>4 DEF Stays

\* remove and resetOwnerCaredIfLast in care-logs.service.ts: while the section has the lecturer
\* who cared, an alert marked as cared for has a care log of theirs, whatever handlers overlap,
\* unless two deletions of logs, or a deletion and a change of lecturer, did not see each
\* other, or the care was written over a change.
THEOREM CareHasItsLog == Spec => []CaredHasLog
<1>1. Init => Inv /\ LogInv
  <2> SUFFICES ASSUME Init PROVE Inv /\ LogInv OBVIOUS
  <2>1. Written BY NoLogOK DEF Init, Written
  <2>2. \A q \in Requests : proc[q].op = "none" BY IdleIsWork DEF Init
  <2>3. CaredHasLog BY InitRows DEF CaredHasLog
  <2> QED BY <2>1, <2>2, <2>3, InitInv DEF LogInv, UncareSees
<1>2. Inv /\ LogInv /\ [Next]_vars => Inv' /\ LogInv'
  BY InvStep, WrittenStep, UncareSeesStep, CaredHasLogStep DEF LogInv
<1>3. LogInv => CaredHasLog BY DEF LogInv
<1> QED BY <1>1, <1>2, <1>3, PTL DEF Spec
=============================================================================
