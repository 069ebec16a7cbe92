------------------------------- MODULE Alerts -------------------------------
(***************************************************************************)
(* The alerts of one student in one class section and term: the handlers   *)
(* of AlertsService, CareLogsService and AttendanceReviewService, split    *)
(* where they read in one statement and write in a later one.              *)
(*                                                                         *)
(* raise is the only handler that takes a lock, and reviewTerm has a       *)
(* unique index behind it; the others write by id whatever has happened    *)
(* since they read.  The history variable blind names the alerts to which  *)
(* that happened, and the properties are about the others.                 *)
(***************************************************************************)
EXTENDS Integers, FiniteSets

CONSTANTS
  Requests,     \* HTTP requests and import commits that can be in flight
  Handlers,     \* the handlers that are called
  MaxAlerts,    \* bound on the alerts created
  MaxLogs,      \* bound on the care logs that answer an alert
  Lecturers,    \* whom the section may be given to, None if to nobody
  RaiseLevels,  \* levels that are asked for or computed from the risk score
  Absences,     \* what absentSessions of the enrollment may be
  None

Ops == {"raise", "ack", "resolve", "care", "uncare", "delete", "review", "send"}

ASSUME AlertsAssumption ==
  /\ MaxAlerts \in Nat /\ MaxLogs \in Nat
  /\ RaiseLevels \subseteq 1..4 /\ Absences \subseteq Nat
  /\ Handlers \subseteq Ops
  /\ None \notin Requests

VARIABLES
  alert,    \* rows of the table, by order of creation
  made,     \* number of alerts created
  log,      \* the alert each care log answers and its author
  logs,     \* number of care logs written
  lecturer, \* lecturerId of the section
  absent,   \* absentSessions of the enrollment
  exempt,   \* attendanceRateRequired = 0
  lock,     \* the holder of pg_advisory_xact_lock
  due,      \* level at which the delivery of an analysis is still to announce the alert
  told,     \* highest level at which each alert was announced
  lost,     \* highest level whose announcement died with its request or failed for good
  proc,     \* what each request is doing and what it has read
  blind,    \* alerts written over a change, or created beside an alert, that came after
            \* the handler had read
  handed    \* alerts that counted as cared for when the section changed its lecturer

caseVars == <<log, logs, lecturer, handed>>
newsVars == <<due, told, lost>>
vars == <<alert, made, absent, exempt, lock, proc, blind, caseVars, newsVars>>

Alerts == 1..MaxAlerts
Logs == 1..MaxLogs
Staff == Lecturers \ {None}

\* cared is 0 while ownerCaredAt is null, else the level the lecturer cared for.
NoAlert == [st |-> "none", level |-> 0, source |-> "none", by |-> "none", cared |-> 0]
AlertRecord == [st : {"none", "OPEN", "ACKNOWLEDGED", "RESOLVED", "deleted"},
                level : 0..4,
                source : {"none", "MANUAL", "AUTO_ATTENDANCE"},
                by : {"none", "raise", "review", "send"},
                cared : 0..4]

NoLog == [alert |-> 0, by |-> None]

\* alert is the row a request works on (0: none), seen that row as it was read,
\* known the number of alerts then, n the level to raise to, the absences read or
\* the care log, by the author of that log, and mark whether ownerCaredAt is to
\* be set or cleared, as decided so far.
Idle == [op |-> "none", at |-> "idle", alert |-> 0, n |-> 0, seen |-> NoAlert,
         known |-> 0, by |-> None, mark |-> FALSE]
ProcRecord == [op : Ops \cup {"none"}, at : {"idle", "read", "write", "commit", "tell"},
               alert : 0..MaxAlerts, n : Nat, seen : AlertRecord,
               known : 0..MaxAlerts, by : Staff \cup {None}, mark : BOOLEAN]

TypeOK ==
  /\ alert \in [Alerts -> AlertRecord]
  /\ made \in 0..MaxAlerts /\ logs \in 0..MaxLogs
  /\ log \in [Logs -> [alert : 0..MaxAlerts, by : Staff \cup {None}]]
  /\ lecturer \in Lecturers
  /\ absent \in Absences /\ exempt \in BOOLEAN
  /\ lock \in Requests \cup {None}
  /\ due \in [Alerts -> 0..4] /\ told \in [Alerts -> 0..4] /\ lost \in [Alerts -> 0..4]
  /\ blind \subseteq Alerts /\ handed \subseteq Alerts
  /\ proc \in [Requests -> ProcRecord]
  /\ \A r \in Requests : lock = r <=> proc[r].op = "raise" /\ proc[r].at = "write"

Init ==
  /\ alert = [a \in Alerts |-> NoAlert]
  /\ made = 0
  /\ log = [l \in Logs |-> NoLog]
  /\ logs = 0
  /\ lecturer \in Lecturers
  /\ absent \in Absences
  /\ exempt = FALSE
  /\ lock = None
  /\ due = [a \in Alerts |-> 0]
  /\ told = [a \in Alerts |-> 0]
  /\ lost = [a \in Alerts |-> 0]
  /\ blind = {} /\ handed = {}
  /\ proc = [r \in Requests |-> Idle]

-----------------------------------------------------------------------------
Exists(a) == alert[a].st \in {"OPEN", "ACKNOWLEDGED", "RESOLVED"}
IsOpen(a) == alert[a].st \in {"OPEN", "ACKNOWLEDGED"}
OpenAlerts == {a \in Alerts : IsOpen(a)}
Highest == {a \in OpenAlerts : \A b \in OpenAlerts : alert[b].level <= alert[a].level}

\* A request that does nothing yet starts a handler.
Starts(r, op) == proc[r] = Idle /\ op \in Handlers

Goto(r, rec) == proc' = [proc EXCEPT ![r] = rec]
Ends(r) == Goto(r, Idle)

\* Mutant: the announcement names the level before the escalation.
TellsOldLevel(r, a, level) ==
  Goto(r, [Idle EXCEPT !.op = proc[r].op, !.at = "tell", !.alert = a,
                       !.n = IF proc[r].alert = 0 THEN level ELSE proc[r].seen.level])

Tells(r, a, level) == Goto(r, [Idle EXCEPT !.op = proc[r].op, !.at = "tell", !.alert = a, !.n = level])

\* The partial unique index: one unresolved AUTO_ATTENDANCE alert.
IndexAllows(rows) ==
  Cardinality({a \in Alerts : rows[a].source = "AUTO_ATTENDANCE"
                              /\ rows[a].st \in {"OPEN", "ACKNOWLEDGED"}}) <= 1

NewAlert(level, source, by) ==
  [st |-> "OPEN", level |-> level, source |-> source, by |-> by, cared |-> 0]
Added(rec) == [alert EXCEPT ![made + 1] = rec]

\* What has become of the row a handler read: its level changed, or it was resolved.
LevelMoved(r) == alert[proc[r].alert].level # proc[r].seen.level
Closed(r) == alert[proc[r].alert].st = "RESOLVED" /\ proc[r].seen.st # "RESOLVED"

\* A raise found none open and a review has created one since, or the other way round.
Crossed(r, other) == \E a \in OpenAlerts : alert[a].by = other /\ a > proc[r].known

Blinds(a, overtaken) == blind' = IF overtaken THEN blind \cup {a} ELSE blind

\* f[a] is the highest level so far.
Reached(f, a, level) == [f EXCEPT ![a] = IF level > @ THEN level ELSE @]

\* update by id: fails when the row is gone or the index refuses the new row.
CanUpdate(a, rec) == Exists(a) /\ IndexAllows([alert EXCEPT ![a] = rec])

-----------------------------------------------------------------------------
(* AlertsService.raise                                                     *)

\* Validation and the system level are outside the transaction: the level asked
\* for is the higher of the requested and the system's.
BeginRaise(r, requested, system) ==
  /\ Starts(r, "raise")
  /\ Goto(r, [Idle EXCEPT !.op = "raise", !.at = "read",
                          !.n = IF system > requested THEN system ELSE requested])
  /\ UNCHANGED <<alert, made, absent, exempt, lock, blind, caseVars, newsVars>>

\* Mutant: the transaction does not take the lock.
RaiseReadsUnlocked(r) ==
  /\ proc[r].op = "raise" /\ proc[r].at = "read"
  /\ lock' = r
  /\ IF OpenAlerts = {}
       THEN Goto(r, [proc[r] EXCEPT !.at = "write", !.known = made])
       ELSE \E a \in Highest : Goto(r, [proc[r] EXCEPT !.at = "write", !.alert = a, !.seen = alert[a]])
  /\ UNCHANGED <<alert, made, absent, exempt, blind, caseVars, newsVars>>

RaiseReads(r) ==
  /\ proc[r].op = "raise" /\ proc[r].at = "read"
  /\ lock = None
  /\ lock' = r
  /\ IF OpenAlerts = {}
       THEN Goto(r, [proc[r] EXCEPT !.at = "write", !.known = made])
       ELSE \E a \in Highest :      \* of equal ones the newest
              /\ \A b \in Highest : b <= a
              /\ Goto(r, [proc[r] EXCEPT !.at = "write", !.alert = a, !.seen = alert[a]])
  /\ UNCHANGED <<alert, made, absent, exempt, blind, caseVars, newsVars>>

RaiseCreates(r) ==
  /\ proc[r].op = "raise" /\ proc[r].at = "write" /\ proc[r].alert = 0
  /\ made < MaxAlerts
  /\ alert' = Added(NewAlert(proc[r].n, "MANUAL", "raise"))
  /\ made' = made + 1
  /\ lock' = None
  /\ Tells(r, made + 1, proc[r].n)
  /\ Blinds(made + 1, Crossed(r, "review"))
  /\ UNCHANGED <<absent, exempt, caseVars, newsVars>>

\* Mutant: an escalation keeps the care of the lower level.
EscalatedKeepsCare(a, level) == [alert[a] EXCEPT !.level = level, !.st = "OPEN"]

Escalated(a, level) == [alert[a] EXCEPT !.level = level, !.st = "OPEN", !.cared = 0]

RaiseEscalates(r) ==
  LET a == proc[r].alert
      rec == Escalated(a, proc[r].n)
  IN
  /\ proc[r].op = "raise" /\ proc[r].at = "write"
  /\ a # 0 /\ proc[r].n > proc[r].seen.level
  /\ CanUpdate(a, rec)
  /\ alert' = [alert EXCEPT ![a] = rec]
  /\ lock' = None
  /\ Tells(r, a, proc[r].n)
  /\ Blinds(a, LevelMoved(r) \/ Closed(r))
  /\ UNCHANGED <<made, absent, exempt, caseVars, newsVars>>

\* Mutant: the lock outlives the transaction.
RaiseMergesKeepsLock(r) ==
  /\ proc[r].op = "raise" /\ proc[r].at = "write"
  /\ proc[r].alert # 0 /\ proc[r].n <= proc[r].seen.level
  /\ Ends(r)
  /\ UNCHANGED <<alert, made, absent, exempt, lock, blind, caseVars, newsVars>>

\* An open alert of the same or a higher level only gets the reason appended.
RaiseMerges(r) ==
  /\ proc[r].op = "raise" /\ proc[r].at = "write"
  /\ proc[r].alert # 0 /\ proc[r].n <= proc[r].seen.level
  /\ lock' = None
  /\ Ends(r)
  /\ UNCHANGED <<alert, made, absent, exempt, blind, caseVars, newsVars>>

\* After the transaction: recipients and enqueueOrDeliver.
Announces(r) ==
  /\ proc[r].at = "tell"
  /\ told' = Reached(told, proc[r].alert, proc[r].n)
  /\ Ends(r)
  /\ UNCHANGED <<alert, made, absent, exempt, lock, blind, caseVars, due, lost>>

-----------------------------------------------------------------------------
(* acknowledge, resolve and remove: read and check, then update by id      *)

BeginAck(r, a) ==
  /\ Starts(r, "ack")
  /\ alert[a].st = "OPEN"
  /\ Goto(r, [Idle EXCEPT !.op = "ack", !.at = "write", !.alert = a, !.seen = alert[a]])
  /\ UNCHANGED <<alert, made, absent, exempt, lock, blind, caseVars, newsVars>>

Acknowledge(r) ==
  LET a == proc[r].alert
      rec == [alert[a] EXCEPT !.st = "ACKNOWLEDGED"]
  IN
  /\ proc[r].op = "ack"
  /\ CanUpdate(a, rec)
  /\ alert' = [alert EXCEPT ![a] = rec]
  /\ Blinds(a, Closed(r))
  /\ Ends(r)
  /\ UNCHANGED <<made, absent, exempt, lock, caseVars, newsVars>>

BeginResolve(r, a) ==
  /\ Starts(r, "resolve")
  /\ IsOpen(a)
  /\ Goto(r, [Idle EXCEPT !.op = "resolve", !.at = "write", !.alert = a])
  /\ UNCHANGED <<alert, made, absent, exempt, lock, blind, caseVars, newsVars>>

Resolve(r) ==
  LET a == proc[r].alert IN
  /\ proc[r].op = "resolve" /\ Exists(a)
  /\ alert' = [alert EXCEPT ![a].st = "RESOLVED"]
  /\ Ends(r)
  /\ UNCHANGED <<made, absent, exempt, lock, blind, caseVars, newsVars>>

BeginDelete(r, a) ==
  /\ Starts(r, "delete")
  /\ Exists(a)
  /\ Goto(r, [Idle EXCEPT !.op = "delete", !.at = "write", !.alert = a])
  /\ UNCHANGED <<alert, made, absent, exempt, lock, blind, caseVars, newsVars>>

\* deleteBatch: the alert and the care logs that answer it; a log that another
\* transaction is deleting makes it wait.
Delete(r) ==
  LET a == proc[r].alert IN
  /\ proc[r].op = "delete"
  /\ \A q \in Requests : proc[q].at = "commit" => proc[q].alert # a
  /\ alert' = [alert EXCEPT ![a] = [NoAlert EXCEPT !.st = "deleted"]]
  /\ log' = [l \in Logs |-> IF log[l].alert = a THEN NoLog ELSE log[l]]
  /\ Ends(r)
  /\ UNCHANGED <<made, logs, lecturer, handed, absent, exempt, lock, blind, newsVars>>

-----------------------------------------------------------------------------
(* CareLogsService                                                         *)

\* isOwner: the staff member has the section now.
Owns(s) == lecturer = s

BeginCare(r, a, s) ==
  /\ Starts(r, "care")
  /\ Exists(a)
  /\ Goto(r, [Idle EXCEPT !.op = "care", !.at = "write", !.alert = a, !.seen = alert[a],
                          !.by = s, !.mark = Owns(s) /\ alert[a].cared = 0])
  /\ UNCHANGED <<alert, made, absent, exempt, lock, blind, caseVars, newsVars>>

\* markOwnerCared decides by the row read when the transaction began.
Cared(r) ==
  LET row == alert[proc[r].alert] IN
  IF proc[r].mark
    THEN [row EXCEPT !.cared = proc[r].seen.level,
                     !.st = IF proc[r].seen.st = "OPEN" THEN "ACKNOWLEDGED" ELSE @]
    ELSE row

Care(r) ==
  LET a == proc[r].alert IN
  /\ proc[r].op = "care"
  /\ logs < MaxLogs
  /\ CanUpdate(a, Cared(r))
  /\ log' = [log EXCEPT ![logs + 1] = [alert |-> a, by |-> proc[r].by]]
  /\ logs' = logs + 1
  /\ alert' = [alert EXCEPT ![a] = Cared(r)]
  /\ Blinds(a, proc[r].mark /\ (LevelMoved(r) \/ Closed(r) \/ ~Owns(proc[r].by)))
  /\ Ends(r)
  /\ UNCHANGED <<made, lecturer, handed, absent, exempt, lock, newsVars>>

BeginUncare(r, l) ==
  /\ Starts(r, "uncare")
  /\ log[l].alert # 0
  /\ Goto(r, [Idle EXCEPT !.op = "uncare", !.at = "write", !.alert = log[l].alert, !.n = l,
                          !.by = log[l].by,
                          !.mark = Owns(log[l].by) /\ alert[log[l].alert].cared # 0])
  /\ UNCHANGED <<alert, made, absent, exempt, lock, blind, caseVars, newsVars>>

\* Mutant: the deleted log is still counted.
LastLogCountsDeleted(r) == \A l \in Logs : log[l] # [alert |-> proc[r].alert, by |-> proc[r].by]

LastLog(r) == \A l \in Logs : log[l] = [alert |-> proc[r].alert, by |-> proc[r].by] => l = proc[r].n

\* remove: the log is deleted, which a second deletion of it waits for, and what its
\* author has left is counted; other transactions see nothing of it yet.
UncareCounts(r) ==
  /\ proc[r].op = "uncare" /\ proc[r].at = "write"
  /\ log[proc[r].n].alert # 0
  /\ \A q \in Requests : proc[q].at = "commit" => proc[q].n # proc[r].n
  /\ Goto(r, [proc[r] EXCEPT !.at = "commit", !.mark = @ /\ LastLog(r)])
  /\ UNCHANGED <<alert, made, absent, exempt, lock, blind, caseVars, newsVars>>

\* The mark stays although the log is by now the last one of the section's lecturer.
KeepsMark(r) == ~proc[r].mark /\ Owns(proc[r].by) /\ alert[proc[r].alert].cared # 0 /\ LastLog(r)

Uncare(r) ==
  LET a == proc[r].alert IN
  /\ proc[r].op = "uncare" /\ proc[r].at = "commit"
  /\ log' = [log EXCEPT ![proc[r].n] = NoLog]
  /\ alert' = IF proc[r].mark THEN [alert EXCEPT ![a].cared = 0] ELSE alert
  /\ Blinds(a, KeepsMark(r))
  /\ Ends(r)
  /\ UNCHANGED <<made, logs, lecturer, handed, absent, exempt, lock, newsVars>>

-----------------------------------------------------------------------------
(* AttendanceReviewService.reviewTerm                                      *)

\* closeExemptSubjectAlerts is one conditional statement.
BeginReview(r) ==
  /\ Starts(r, "review")
  /\ alert' = [a \in Alerts |-> IF exempt /\ IsOpen(a) /\ alert[a].source = "AUTO_ATTENDANCE"
                                 THEN [alert[a] EXCEPT !.st = "RESOLVED"] ELSE alert[a]]
  /\ Goto(r, [Idle EXCEPT !.op = "review", !.at = "read"])
  /\ UNCHANGED <<made, absent, exempt, lock, blind, caseVars, newsVars>>

\* attendanceLevelFor
LevelFor(days) == IF days >= 3 THEN 3 ELSE IF days >= 2 THEN 2 ELSE 0

\* loadRows and loadOpenAlerts: no row below two absences, in an exempt subject or in a
\* section without a lecturer.
ReviewLoads(r) ==
  /\ proc[r].op = "review" /\ proc[r].at = "read"
  /\ IF exempt \/ LevelFor(absent) = 0 \/ lecturer = None THEN Ends(r)
     ELSE IF OpenAlerts = {}
            THEN Goto(r, [proc[r] EXCEPT !.at = "write", !.n = absent, !.known = made])
            ELSE \E a \in Highest :
                   Goto(r, [proc[r] EXCEPT !.at = "write", !.n = absent, !.alert = a, !.seen = alert[a]])
  /\ UNCHANGED <<alert, made, absent, exempt, lock, blind, caseVars, newsVars>>

\* P2002 on the unique index counts as unchanged.
ReviewCreates(r) ==
  LET rows == Added(NewAlert(LevelFor(proc[r].n), "AUTO_ATTENDANCE", "review")) IN
  /\ proc[r].op = "review" /\ proc[r].at = "write" /\ proc[r].alert = 0
  /\ made < MaxAlerts
  /\ IF IndexAllows(rows)
       THEN /\ alert' = rows /\ made' = made + 1
            /\ Tells(r, made + 1, LevelFor(proc[r].n))
            /\ Blinds(made + 1, Crossed(r, "raise"))
       ELSE Ends(r) /\ UNCHANGED <<alert, made, blind>>
  /\ UNCHANGED <<absent, exempt, lock, caseVars, newsVars>>

\* Mutant: any different level is taken over.
UpgradesOnAnyChange(r) == LevelFor(proc[r].n) # proc[r].seen.level

Upgrades(r) == LevelFor(proc[r].n) > proc[r].seen.level

ReviewUpgrades(r) ==
  LET a == proc[r].alert
      rec == Escalated(a, 3)
  IN
  /\ proc[r].op = "review" /\ proc[r].at = "write"
  /\ a # 0 /\ Upgrades(r)
  /\ CanUpdate(a, rec)
  /\ alert' = [alert EXCEPT ![a] = rec]
  /\ Tells(r, a, 3)
  /\ Blinds(a, LevelMoved(r) \/ Closed(r))
  /\ UNCHANGED <<made, absent, exempt, lock, caseVars, newsVars>>

\* More absences at the same level refresh the row's count and reason, fewer do
\* nothing; nobody is told.
ReviewRefreshes(r) ==
  /\ proc[r].op = "review" /\ proc[r].at = "write"
  /\ proc[r].alert # 0 /\ ~Upgrades(r)
  /\ Ends(r)
  /\ UNCHANGED <<alert, made, absent, exempt, lock, blind, caseVars, newsVars>>

-----------------------------------------------------------------------------
(* The rest of the system                                                  *)

\* StudentAnalysesService.commitSend creates an alert in a transaction of its own and
\* leaves it to the delivery to announce it (see StudentAnalysis).
AnalysisSends(level) ==
  /\ "send" \in Handlers
  /\ made < MaxAlerts
  /\ alert' = Added(NewAlert(level, "MANUAL", "send"))
  /\ made' = made + 1
  /\ due' = [due EXCEPT ![made + 1] = level]
  /\ UNCHANGED <<absent, exempt, lock, proc, blind, caseVars, told, lost>>

\* processDelivery
AnalysisDelivers(a) ==
  /\ due[a] # 0
  /\ told' = Reached(told, a, due[a])
  /\ due' = [due EXCEPT ![a] = 0]
  /\ UNCHANGED <<alert, made, absent, exempt, lock, proc, blind, caseVars, lost>>

\* markDeliveryFailed, or a delivery that nothing takes up again: the version may be
\* sent another time, which makes another alert; this one stays as it is.
AnalysisFails(a) ==
  /\ due[a] # 0
  /\ lost' = Reached(lost, a, due[a])
  /\ due' = [due EXCEPT ![a] = 0]
  /\ UNCHANGED <<alert, made, absent, exempt, lock, proc, blind, caseVars, told>>

\* An exception, a row that is gone, the unique index or the death of the API
\* process: an open transaction rolls back.
Fails(r) ==
  /\ proc[r] # Idle
  /\ lock' = IF lock = r THEN None ELSE lock
  /\ lost' = IF proc[r].at = "tell" THEN Reached(lost, proc[r].alert, proc[r].n) ELSE lost
  /\ Ends(r)
  /\ UNCHANGED <<alert, made, absent, exempt, blind, caseVars, due, told>>

\* Imports of attendance and of the curriculum.
Imported ==
  /\ absent' \in Absences /\ exempt' \in BOOLEAN
  /\ UNCHANGED <<alert, made, lock, proc, blind, caseVars, newsVars>>

\* The section is given to somebody else, by hand or by an import.
LecturerChanges ==
  /\ lecturer' \in Lecturers \ {lecturer}
  /\ handed' = handed \cup {a \in Alerts : alert[a].cared # 0}
  /\ UNCHANGED <<alert, made, log, logs, absent, exempt, lock, proc, blind, newsVars>>

Raise(r) == RaiseReads(r) \/ RaiseCreates(r) \/ RaiseEscalates(r) \/ RaiseMerges(r)
Review(r) == ReviewLoads(r) \/ ReviewCreates(r) \/ ReviewUpgrades(r) \/ ReviewRefreshes(r)

Next ==
  \/ \E r \in Requests :
       \/ \E requested, system \in RaiseLevels : BeginRaise(r, requested, system)
       \/ \E a \in Alerts : BeginAck(r, a) \/ BeginResolve(r, a) \/ BeginDelete(r, a)
       \/ \E a \in Alerts, s \in Staff : BeginCare(r, a, s)
       \/ \E l \in Logs : BeginUncare(r, l)
       \/ BeginReview(r)
       \/ Raise(r) \/ Review(r) \/ Announces(r)
       \/ Acknowledge(r) \/ Resolve(r) \/ Delete(r) \/ Care(r) \/ UncareCounts(r) \/ Uncare(r)
       \/ Fails(r)
  \/ \E level \in RaiseLevels : AnalysisSends(level)
  \/ \E a \in Alerts : AnalysisDelivers(a) \/ AnalysisFails(a)
  \/ Imported \/ LecturerChanges

Spec == Init /\ [][Next]_vars

-----------------------------------------------------------------------------
(* Properties, for every interleaving of the handlers                      *)

\* raise and reviewTerm: neither creates an alert while one is open, not even two
\* raises or two reviews at once, so at most one of theirs is unresolved; save that a
\* raise and a review can cross, and that a resolved alert can be written over.
RaisedOnce ==
  \A a, b \in OpenAlerts : a # b =>
     "send" \in {alert[a].by, alert[b].by} \/ {a, b} \cap blind # {}

\* decideRaise, decideAction, resolve: an alert is never lowered, and a resolved
\* one is never opened again, unless a handler writes over a change it has not seen.
AlertOnlyMovesForward ==
  [][\A a \in Alerts : Exists(a) /\ alert'[a].st # "deleted" /\ a \notin blind' =>
        /\ alert'[a].level >= alert[a].level
        /\ alert[a].st = "RESOLVED" => alert'[a].st = "RESOLVED"]_vars

\* raise, upgradeAlert: an alert that went up has to be cared for again, however
\* care logs, escalations and deletions of logs follow each other; only a care log
\* that an escalation overtakes counts for a level it was not written for.
CaredForLevel ==
  \A a \in Alerts : alert[a].cared # 0 /\ a \notin blind => alert[a].cared = alert[a].level

\* CareLogsService.remove: no alert counts as cared for by the lecturer of the section
\* without a care log of theirs, unless the section has changed its lecturer while it was
\* cared for, or two deletions of logs, or a deletion or a care log and a change of
\* lecturer, did not see each other.
CaredHasLog ==
  \A a \in Alerts : alert[a].cared # 0 /\ a \notin blind \cup handed =>
     \E l \in Logs : log[l] = [alert |-> a, by |-> lecturer]

\* enqueueOrDeliver, processDelivery: the level of an alert is announced or about to
\* be; merges and refreshes never swallow one.  Excepted is a level whose announcing
\* request died or whose delivery failed for good: a later raise merges into it silently.
LevelAnnounced ==
  \A a \in Alerts : Exists(a) =>
     \/ told[a] >= alert[a].level \/ lost[a] >= alert[a].level \/ due[a] >= alert[a].level
     \/ \E r \in Requests : proc[r].at = "tell" /\ proc[r].alert = a /\ proc[r].n = alert[a].level

-----------------------------------------------------------------------------
(* What the documents say and the code does not do                         *)

\* plan-lert.md: an alert that is open is updated, no further one is created.
OneOpenAlert == Cardinality(OpenAlerts) <= 1

\* attendance-review.decision.ts: the review never lowers an alert by itself.
NeverLowered ==
  [][\A a \in Alerts : Exists(a) /\ alert'[a].st # "deleted" => alert'[a].level >= alert[a].level]_vars
=============================================================================
