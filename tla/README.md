# Fcare: a TLA+ verification of the care and early-warning core

Fcare watches over students: lecturers evaluate, attendance is imported, a risk
score is computed, alerts are raised and escalated, a language model drafts an
analysis of a student's term that a lecturer edits and sends, and everybody
concerned is told in the application, by mail and by push. The server is a NestJS
process with PostgreSQL (Prisma), Redis (BullMQ) and the language model behind it; the
client is a Next.js application.

These modules model the parts of the server, and of the client where it takes part, in
which several requests, jobs and failures work on the same rows, check them with TLC on small instances, and prove the most
important results with TLAPS for every size. Paths below are relative to `src/`; `M/`
stands for `apps/api/src/modules/`.

## 1. Inventory

| Component | State | Operations | Interacts with | What is hard | What makes it correct |
|---|---|---|---|---|---|
| Student analyses (`M/student-analyses`) | versions of a term's analysis with status, idempotency key, source hash, content, recipient rows; BullMQ jobs | create (on request; after an evaluation), generate, edit, dismiss, send, deliver, recover, reconcile | evaluations request versions; sending creates an alert and notifies | requests and jobs interleave; a failed `queue.add` falls back to running in the request; jobs retry, stall, are evicted; the source data changes between reading and writing | only the newest version is unfinished; one key, one version; nothing is sent twice for the same data; sent means everyone was told; an edit is never overwritten; a job settles its version unless its failed handler throws |
| Alerts (`M/alerts/alerts.service.ts`) | level, status, source, care mark of each alert | raise (create, escalate or merge), acknowledge, resolve, delete | announces through the dispatch service | check in one statement and write in a later one; two raises at once; a sent analysis announces its alert in a job | one open alert by raise and review; never lowered but by a handler that writes over what it has not seen; every level announced |
| Care logs (`M/care-logs`) | logs linked to alerts | create, update, delete | sets and clears the care mark of an alert | order of care, escalation, deletion and changes of the lecturer; transactions that do not see each other | a care mark is for the current level and has a log of the lecturer |
| Attendance review (`M/attendance-alerts`) | none of its own | walk a term's rows; create, upgrade, refresh or close alerts | started by imports and by hand | works on what it loaded at its start | never lowers what it has seen, never a second alert of its own |
| Notification dispatch (`M/alerts/notification-dispatch.service.ts`, `escalation.*`) | notification rows, BullMQ jobs | enqueue or deliver at once; insert, refresh, emit, mail, push | called by raise, review, analyses, discussions | slow or failing Redis: job and fallback both deliver; retries; crash in the middle | first announcement once; one fault leaves nobody out |
| Notification list, event stream, mail, push (`M/alerts/notifications*`, `M/email`, `M/push`) | read marks; open streams | list, mark as read, stream, send | fed by the dispatch | a send that fails is swallowed | covered where the dispatch hands a mail over |
| Backup and restore (`M/backup`) | dumps and metadata on disk, a lock in memory, the database itself | create, list, upload, delete, restore, scheduled backup with retention | cuts every database session | lock taken after awaits; crash between dropping and loading; rollback; a load that fails without being noticed; a second restore | a snapshot exists while the database is not whole; a failed restore loses nothing; retention deletes only what it may |
| Imports (`M/imports`, `M/excel`) | batches PENDING, COMMITTED, ... | upload, parse, preview, commit | the review follows a commit | two commits of a batch; a commit works on what it read at its start while another one or an edit by hand goes on; a review that fails is swallowed, an audit entry that fails is not | an applied batch is not offered again; class, major and department stay consistent; attendance is reviewed |
| Evaluations, risk score (`M/evaluations`, `packages/shared-types/src/risk-score.ts`, `forced-escalation.ts`) | evaluations and the criteria marked in them | create, update, remove, score | request analyses; give the level of a raise; imports bring absences, deleted alerts delete evaluations | two updates at once; arithmetic at the borders of the tables | the criteria are those of one update; a median speaks for half of the lecturers; what gets worse never lowers the level |
| Discussions (`M/discussions`) | messages, read marks | post, recall, read | notify people, query by query, after the message | recall and changes of scope racing the fan-out | a recalled text is in no notification; only people in scope are told; those who take part are |
| Sessions, consent, PIN (`M/auth`, `apps/web/src/lib/session-refresh.ts`) | refresh tokens, PIN attempts, lock | log in, refresh, log out, set and verify the PIN | every request | several tabs rotate one token; answers get lost; a right PIN races a lockout | one living token per login; a tab is thrown out only of a login somebody ended; a locked-out session stays locked |
| Monitoring (`M/monitoring`) | bounded buffer of errors, counters in the database | capture, flush, report | logger, BullMQ, Discord | flush while shutting down; bounded buffer | counted or reported as dropped |
| Statistics, master data, students, enrolments, administration, settings | rows | create, read, update, delete | database constraints | little beyond single statements | - |
| Access rules and privacy filters (`apps/api/src/casl`, `common/utils/pii-text.ts`) | none | predicates | every handler | - | - |
| Web client, infrastructure | caches of queries | render, poll, stream | the API | - | - |

`PROJECT.json` lists the same components with their status, the hazards of the code with
the line where each bites, and the properties that cover them.

## 2. Modules

| Module | Models | Used by |
|---|---|---|
| `AnalysisLedger` | abstract: what the versions of one analysis promise | refinement of `StudentAnalysis` |
| `StudentAnalysis` | detailed: requests, workers, jobs, retries, faults of `M/student-analyses` | `MCStudentAnalysis`, `StudentAnalysisProofs` |
| `Alerts` | the alerts of one student in one class section: alerts, care logs, attendance review | `MCAlerts`, `AlertsProofs` |
| `AlertDispatch` | how the levels of one alert reach its recipients | `MCAlertDispatch`, `AlertDispatchProofs` |
| `Backup` | backups, restores, retention | `MCBackup`, `BackupProofs` |
| `ImportRows` | pure: which rows of a file a parser accepts, what a committer writes for them | `Imports` |
| `Imports` | the life of import batches next to edits by hand | `MCImports`, `ImportsProofs` |
| `Sessions` | login sessions of one account in the tabs of one browser, consent, PIN | `MCSessions`, `SessionsProofs` |
| `Discussions` | the messages about one student and their notifications | `MCDiscussions`, `DiscussionsProofs` |
| `Evaluations` | the evaluations of one student in one term and the risk score | `MCEvaluations`, `EvaluationsProofs` |

The `MC` modules give the constants their small values, the `Proofs` modules hold the
theorems.

The interfaces between the modules: `Create` and `EndUpdate` of `Evaluations` ask for an
analysis, which `StudentAnalysis` has as `BeginCreate` with `Level` as its `RiskFloor`;
`CommitSend` of `StudentAnalysis` creates an alert, which `Alerts` has as `AnalysisSends`,
`DeliveryNotifies` announces it (`AnalysisDelivers`), and a delivery that is undone or
never ends leaves it unannounced (`AnalysisFails`);
`Announces` of `Alerts` is one call of `enqueueOrDeliver`, which `AlertDispatch` has as
`Announce`, and `LevelAnnounced` of `Alerts` is what `AlertDispatch` assumes: each level
is handed over. `Commits` of `Imports` writes absences, which `Evaluations` has as
`AttendanceImported` and `Alerts` as a change of the absences; `Reviews` and
`ReviewThrows` of `Imports` are the ends of the review of `Alerts`. Deleting an alert deletes evaluations (`AlertDeleted`). A restore
replaces the rows under all of them. The models are joined by these assumptions and not
run together: each of them alone already has hundreds of thousands of states.

### How a handler becomes actions

Node runs one continuation at a time, so whatever a handler does between two awaits is
one action, and a database transaction is one action where its isolation makes it one
(serializable with retries in `createVersionRecord` and `commitSend`, an advisory lock in
`raise`). A READ COMMITTED transaction that decides on what it read is two actions: one
that reads and one that commits. A process record keeps the program counter and what the
handler read before its last await. A handler that checks in one statement and writes in
a second has two actions, with the value it read in between.

### `StudentAnalysis`

`status`, `key`, `hash`, `output` are columns of a version. `alert` is the level its last
send confirmed, `epoch` numbers the rewritings of its recipient rows, `notified` has the
staff with a notification row of the version. `job` is BullMQ's record of each job id:
attempts, stalls, the worker that holds its lock. `proc` has requests and
workers; since `requestAutoAnalysis` and `commitSend` run the job's code in the request
when Redis fails, generation and delivery are steps of either (`ctx` says whose).
Contents, sources and keys are opaque values; `RiskFloor` and `ForcedFloor` are the
levels the score and the content demand. An id BullMQ still knows is not added
again (`Added`), a stalled job goes back to the queue while its old execution may still
run (`JobStalls`), and a failed handler runs only after the last attempt (`Throw`).
That handler waits for the database and Redis itself. A delivery that throws under it
queues a reconcile job (`RequeueDelivery`); what the handler's own statements throw
(`HandlerThrows`, `RequeueFails`) nobody catches, `process-crash.ts` ends the API with all
it was doing (`Dies`), and nothing takes its version up again: `dropped` has those
versions.

`AnalysisLedger` promises, without queue or workers: versions are opened in order, one is
under way at a time, a draft is closed by its successor or sent, and `sent` needs that
all addressees have been told. The mapping takes `status` to a phase and
`told` to "the matrix of the alert's level is notified"; TLC checks `ImplementsLedger`.

### `Alerts`

One student, one section, one term. `alert` has the rows in order of creation; `by` tells
which handler created a row. The lock of `raise` is `lock`; the partial unique index
behind the review is `IndexAllows`; `Fails` is any exception or death, with the open
transaction rolled back.

`acknowledge`, `resolve` and the care-log handlers run at the isolation level READ
COMMITTED without a lock and write by id what they decided on rows read before; a review
walks the term's rows with alerts it loaded at its start. Each has two actions or more, and
they overlap in any way. Then they do break each other's results: an escalation between the
two statements of `markOwnerCared` leaves a care mark for a lower level, a resolution is
overwritten, a raise and a review that cross create two alerts, two deletions of the last
two logs leave a mark without a log. The history variable `blind` names the alerts to which
it happened: a handler wrote the row over a change of its level, its resolution or a
change of the lecturer that came after the handler had read, or kept a mark whose last log
it did not know to be the last, or created an alert beside one it could not know of. The
properties are about all other alerts, and hold for them whatever else overlaps; no handler
is kept apart from another. Two more histories name what the code leaves open: `handed`
has the alerts that counted as cared for when the section changed its `lecturer` (line 244
of `care-logs.service.ts` then keeps the mark), and `lost` the highest level whose
announcement died with its request or whose delivery failed for good. `due` is the level
the delivery of a sent analysis has still to announce. The deletion of a care log is two
steps, for its transaction counts the logs left before it commits (`UncareCounts`,
`Uncare`).

### `AlertDispatch`

Each call of `enqueueOrDeliver` has the recipients of its level (`to`), perhaps a job,
and executions of `deliver` by the call itself or by workers. The timeout of 1.5 s is
`EnqueueFails` with the job stored all the same, now (`"redis"`) or later (`late`).
`Inserts` is `createManyAndReturn` with `skipDuplicates`; `Refreshes` is
`refreshForReplay`; `Tells` emits and mails and cannot fail, because email and push
swallow their errors. `told` counts per call and recipient. `cut` has the calls that the
death of the process cut short after the rows were written or before a job was stored:
nothing in the code makes up for those.

### `Backup`

`file` has a record per dump: present, finished, its type as the metadata says, its
content. `db` is the number of the last application write, or `Damaged` from
`resetDatabase` until a load ends. A task is a request or the scheduled job; a restore
runs through validate, dump (its snapshot), resume, reset, open, load, verify and, after
an error, once more from reset with the snapshot. `isLocked` follows the code: tested at
the beginning, set after the validation without a further test, lent to `createBackup`
and dropped in every `finally`. `ListWrites` is the metadata the list writes for a dump
it found without any. `pg_terminate_backend` cuts other tasks' tools (`Cut`), and
two loads at once leave a mixture (`spoilt`). `LoadStops` is what `restoreFromFile` takes for
a warning: `pg_restore` runs without `--exit-on-error`, and an exit code of 1 whose output
has no `ERROR:` (a truncated archive, a session that was cut), or a death by a signal,
counts as success over a database loaded in part (`"partly"`). Restores overlap each other
like everything else, for the lock does not keep them apart. `undo` (the snapshot of the
first of several restores that emptied the database, and what it held at the request), the
content at the request (`start`) and `overtaken` (the restores since whose request another
one has worked on the database) are history variables of the properties. A process that
dies takes its tools with it. `removed` and the counters bound the environment.

### `ImportRows` and `Imports`

The database is a function from cells (`<<"major", student>>`, `<<"result", student,
section>>`, ...) to values; a row exists when its first cell is not `None`. `FileRow` has
the fields of a row of each kind, `ValidRows` the numbers of the rows a parser accepts
(required fields, ranges, no second row of the same key). `Row` is what the committer of a
kind writes for one row given what is in the database; `Step` adds that to the writes of
the rows before it, and `Writes` folds the rows of a file in their order, as a committer
does that keeps its maps in step with its own writes. Writes are functions on some of the
cells: `c := v` is one of them, `f ++ g` puts those of `f` over those of `g`. The seven kinds are rosters, gradebooks, grade and attendance
reports, section lists, schedules, subject catalogues and lecturer lists. Which class
codes are administrative (`parseClassCode`), and the major their prefix stands for, are
constants.

A batch is there before its rows (`Uploads`, `Stages`). `ReadsBatch` is what `commit`
decides before its transaction, `Begins` the transaction's reads, from which all its
writes follow (`writes`), `Commits` its end. `fresh` are the keys it creates; when another
transaction has created one of them meanwhile, the unique key rolls it back (`RollsBack`).
`discard` decides on the status in one statement and cancels in another, with no
condition. After the commit of an attendance file the request writes the audit entry
IMPORT_COMMIT (`Audits`), runs the review, which ends (`Reviews`) or throws (`ReviewThrows`),
and in the latter case puts that on record (`Records`). `Fails` is a statement that throws:
before the commit it rolls back; at one of the two audit entries, which nobody catches, the
review or the record is lost with it. `Crash` ends all requests. In between people create
and update students by hand, with class, major and status, assign majors, import the older
Excel form, whose rows overwrite the students they name (`UpdatesStudent`, `SavesStudent`;
`Forms` is what is typed), edit grades and add students to sections. `applied` and
`byPrefix` are history variables, and `edits`, which bounds these changes, tells a step of
theirs from an import's.

### `Sessions`

`token` has the rows of `RefreshToken`: revoked or not, locked, consented, and the login
it descends from. `cookie` is what the browser holds, for all of its tabs. A request
takes the cookies when it is sent and sets them when it is answered; between the two each
statement of its handler is a step. A refresh waits for the Web Lock of
`session-refresh.ts` (`Wants`, `Posts`; without Web Locks, line 38, a browser would skip it), reads its row, revokes it and creates the next in
either order (`Promise.all`), and answers; `RefreshFails` is a statement that fails or an
answer that gets lost, at any of these points. Around it: login by password or Google,
consent, logout, change of password, locking, comparing a PIN, its counter and the
lockout, a new PIN, a forgotten PIN, and the administrator who disables the account or
resets its password or PIN. `over` has the logins somebody ended; `refused` the token for
which a tab was told that its session is over.

### `Discussions`

`fanOut` is a chain of queries after the message was committed: participants and people
mentioned (`FindsPeople`), whose accounts are active (`FindsActive`), who of those is
in the student's scope (`Filters`), whether the
message still stands (`Looks`), then the notifications of those mentioned and of the rest
(`Delivers` twice). Between any two of them the author recalls the message (one
transaction over the message and its notifications), people read the thread, sections of
the student change hands or finish, and accounts are disabled and enabled. `owed`, `awake`
and `met` are the history the properties speak of: who took part all the time, who was
active at some time since the message was sent, and who of them was in scope then or later.
Activity and scope are asked for one after the other, so somebody may be told who was never
active and in scope at the same moment: an active lecturer whose account is disabled after
the first query and who is given the section before the second.

### `Evaluations`

`row` and `marks` are the evaluations of the student and the criteria marked in them, by
section and author; `known` the absences an import brought. `create` is one statement
guarded by the unique key; `update` with criteria is a transaction in which the marks it
saw are deleted (`BeginUpdate`, kept in `seen`) and its own are written with the row
(`EndUpdate`), unless they meet the unique key of marks or the row is gone
(`UpdateRefused`). The score follows `packages/shared-types/src/risk-score.ts` with its
medians, bands, the rule for absences in several sections, the points of criteria and the
thresholds of the levels. The median is doubled to stay an integer.

## 3. Runs

| Run | Question | Result |
|---|---|---|
| `analysis_versions` | two requests and a worker create and send two versions, one fault of any kind, also under a failed handler: history and refinement | holds, 208 010 states |
| `analysis_delivery` | one version generated, edited, sent twice, with three faults: delivery and liveness | holds, 170 594 |
| `analysis_resend` | does every send settle? | violated |
| `alerts_raise` | raises, reviews, acknowledgements, resolutions and deletions overlap two at a time, with sends and their deliveries, imports and a section without lecturer | holds, 2 458 916 |
| `alerts_care` | raises, reviews, care logs and their deletions, resolutions and deletions overlap two at a time on one alert with two logs and two lecturers | holds, 3 476 288 |
| `dispatch_faults` | a raise and an escalation, two recipients, two workers, any two faults | holds, 49 327 |
| `backup_restore` | two tasks, three requests, four dumps, two mishaps, one of them perhaps a crash | holds, 698 323 |
| `imports_commit` | two users upload, commit and discard two batches of any kind, an edit by hand or a row of the older Excel form, a fault | holds, 771 532 |
| `sessions` | two tabs, three tokens, five requests, one fault | holds, 358 110 |
| `discussions` | two messages, two changes of scope or accounts, a failed query, three people | holds, 2 248 365 |
| `evaluations` | a lecturer and an administrator, two sections, four changes | holds, 89 132 |
| `evaluations_criteria` | does an update leave the criteria it sent? | violated |

### What the passing runs show

* `OnlyNewestUnfinished`, `OneVersionPerKey`, `ResendNeedsNewSource`: the three guards of
  `createVersionRecord`, evaluated in its serializable transaction, keep the history of a
  term in order although the snapshot and the first key lookup lie before the transaction.
* `SentToAllRecipients`: a stalled execution may finish a version with the recipients of
  an earlier send; the test whether all recipient rows could be linked stops it.
* `ContentOnlyChangesAsDraft`: late generations and late edits write under a condition on
  the status, which is enough.
* `GenerationSettles`, `DeliverySettles`: once BullMQ has the job, the version leaves the
  state that blocks its term, unless the job stalled past the limit or the failed handler
  itself threw and ended the process (`dropped`).
* `RaisedOnce`, `LevelAnnounced`: the lock makes raises exclude each other and the index
  reviews; two open alerts of theirs are a raise and a review that crossed, or a resolved
  one that was written over. No merge or refresh swallows a level, apart from those
  that were lost with a request or with a delivery that failed for good.
* `CaredForLevel`, `CaredHasLog`, `AlertOnlyMovesForward`: for any order and any overlap of the
  handlers, but for the alerts that `blind` and `handed` name. What a handler
  may do to an alert it has seen as it is never takes a level, a resolution or a care mark's
  log back.
* `AnnouncedOnce`: rows are the memory of who was told first, whatever executes `deliver`.
* `EveryoneTold`: any single fault short of the process's death is made up for.
* `SafeCopy`, `RestoreReturns`, `OnlyOldScheduledPruned`, `LockFreeAtRest`: the order snapshot,
  reset, load, and the rollback in the catch, hold against failing tools, retention that
  deletes the target of a running restore, deletions, listings that write metadata, and a
  crash; what remains after two failures in a row, a crash or a load that stopped half-way
  unnoticed is the snapshot on disk. `RestoreReturns` says nothing of the last, which
  reports success, nor of a restore that another one overtook; of restores that overlap, the
  snapshot of the first one to empty the database is kept.
* `AppliedNotPending`: rows and status are one transaction, and no later statement, not
  even a `discard` that decided before it, makes the batch pending again. (A batch may be
  applied twice, see below.)
* `AdminClassKept`, `DepartmentFollowsMajor`: a commit writes from what it read, perhaps
  before another commit or an edit; since a committer writes a class only when it is
  better, and major and department together, what it overwrites stays consistent. The
  exception is the major that a gradebook fills in from a class's prefix, which leaves the
  department alone (`byPrefix`). Only an edit by hand or the older Excel form takes an
  administrative class away; they ask nothing of the student they write.
* `ReviewFollows`: attendance is reviewed or the failure is on record; the death of the
  process loses it, and so does an audit entry that throws, before the review or after its
  failure.
* `RefusedOnlyWhenOver`, `OneTokenPerLogin`: in a browser with Web Locks, and as long as answers
  arrive, two tabs never rotate the same token, so no tab is thrown out.
* `RevokedStaysLocked`: `unlockSession` unlocks under a condition on `revokedAt`; a PIN
  compared before the lockout comes too late.
* `RefreshSettles`: the Web Lock is released on every path, so no tab waits for ever.
* `RecallHides`: `remove` rewrites the notifications that exist and `wasRecalled` keeps
  the fan-out from writing further ones, but for a recall after that last look.
* `ToldWereInScope`, `ParticipantsTold`: whoever is told was active at some time since the
  message was sent and in scope then or later, mentioned or not; whoever took part all the
  time is told.
* `MedianOfPoints`: rounding and bands leave the median a median: half of the lecturers
  gave a score at least as urgent, half one no more urgent.
* `WorseNeverCalmer`: no boundary between the tables lets the level fall when every
  lecturer's report stays or gets worse, by an edit or by an import that counts more absences.

### What the violations show

The findings in `PROJECT.json` quote the comment and the line of the code. `analysis_resend`:
a second send of a version whose delivery failed for good is dropped by BullMQ, because
the failed job still holds its id. `evaluations_criteria`: of two updates of one evaluation
at the same time, each deletes the criteria it sees and adds its own, so that their union
remains and the risk score rises.

### Further statements the code does not keep

The modules state, after their properties, what comments and documents say and the models
refute. To see the behaviour, put the definition into a copy of the configuration named,
as its only INVARIANT or PROPERTY.

| Definition | Says | Configuration | What the code does |
|---|---|---|---|
| `AlertNotBelowSystemLevel` | no version is sent below the level its content demands | `StudentAnalysisDelivery` | the level is checked on content that an edit may change before the send is written |
| `NeverLowered` | the review never lowers an alert | `AlertsCare` | a review writes the level it decided on, over that of a raise that committed while it walked the rows |
| `OneOpenAlert` | an open alert is updated, no further one created | `AlertsRaise` | sending an analysis creates an alert beside an open one |
| `RetryMailsOnce` | a retry of the queue mails nobody twice | `AlertDispatchFaults` | an escalation goes through `refreshForReplay`, which refreshes and mails again |
| `OneTaskAtATime` | the lock keeps two tasks apart | `BackupRestore` | a backup begun while a restore validates its file passes the lock test, and the restore does not test again |
| `AppliedOnce` | a batch is committed once | `ImportsCommit` | `commit` tests PENDING before its transaction and does not test it inside; two calls both write the rows |
| `UnauthorizedIsOver` | a refresh is answered "unauthorized" only when the session is over | `Sessions` | the answer of a rotation gets lost; the browser keeps the revoked token and the next refresh is refused |
| `RecalledNowhere` | no notification has the content of a recalled message | `Discussions` | a recall between `wasRecalled` and the last insertion is followed by notifications with the text |

### Bounds

Each bound is a constant and a guard. Two requests suffice for a race between two handlers,
the third party being a worker. In `Alerts` they do what any two handlers can do to each
other; `alerts_raise` has two alerts for what is created twice, `alerts_care` one alert with
two logs for what becomes of a row, and its view leaves out what was announced, which no
property of that run reads. Two versions show a version and its successor, the relation
all history properties are about (the theorems have any number). Two sends of a version
show a late execution of the first. Three faults: a failed delivery, a failing recovery
and Redis failing under its reconcile job are the longest chain the code has (`Attempts` 1 or
2, `StallLimit` 0 or 1 bring its ends near). Two recipients, one of them addressed at high levels only, show a recipient
added by an escalation. Two levels, one below and one above the attendance review's. Two
new dumps next to an old scheduled and an old manual one show a snapshot, a backup
that overlaps it and retention with `RetentionCount` 1; two restores have a snapshot each.

Imports: two batches are what overlaps; their files (`MCFiles`) hold for each kind the rows
its committer tells apart: the student first under a section code and then under an
administrative class, with and without a major, a second row of a key, a score out of
range, a failed attendance, a subject known by its alternative code. Of the two forms
(`MCForms`) one takes an administrative class away and the other types one in. Two majors in two
departments let class, major and department disagree. One caller is bound to a department
and reaches its own batches only.

Sessions: three tokens are a login and two rotations, or two logins; one tab has the login
page's requests, the other the requests of somebody at work, and both refresh; two wrong
PINs lock out; five requests reach a lockout between the comparison of a right PIN and its
unlocking, and one fault a lost answer. Discussions: a lecturer, a head of the department
and an officer are the three reasons to be in scope; two messages give the second one a
participant; two changes disable an account and give its owner the section, in either order
around the query about activity. Evaluations: four changes are an evaluation in each section, and two
edits of them; the inputs lie at both sides of the bands' borders and of the absences'.

`CHECK_DEADLOCK FALSE` is set for `AlertDispatch`, `Backup`, `Imports`, `Sessions` and
`Evaluations`, whose calls and requests are bounded: when they are used up and everything
has ended, the system rests. Symmetry is declared only for runs without liveness.

### Fairness

`StudentAnalysis` and `AlertDispatch` have weak fairness on the continuations of each
process (Node runs every settled promise) and on a worker taking a waiting job (a BullMQ
worker polls); `AlertDispatch` also on the stall check for a job whose worker died (BullMQ
repeats it), while in `StudentAnalysis` a stall is a fault that may or may not come.
`Imports` has weak fairness on what follows the commit of an attendance file, the audit
entry, the review and its record: they are one continuation of the request, and each call it
awaits settles. `Sessions` has it on the steps of a request under way, for a request ends
with an answer or an error, and strong fairness on the Web Lock being granted to a tab that
waits, since browsers grant it first in, first out. There is none for clients, faults,
evictions, late commands, stalls of running jobs or changes of the data. Faults are
bounded in number, so retries end. `Backup`, `Alerts`, `Discussions` and `Evaluations`
have safety properties only.

## 4. Proofs

Every theorem holds for all values of the constants that satisfy the assumptions of the
component's module, which TLC evaluates in each run. What a theorem needs beyond them is
an ASSUME of its own, and listed here.

`StudentAnalysisProofs`, for every number of requests, workers, versions, keys, attempts,
stalls, sends and faults:

* `TypeCorrect`: `TypeOK`, which also says that a job that will run has an attempt left,
  that only a running job is locked, and which fields a process at a program counter has.
* `NewestOnly`, `KeysUnique`, `ResendDiffers`. None of these invariants is inductive alone:
  a new version gets number `latest + 1`, so statuses must agree with `latest`
  (`Numbered`), and that two neighbouring sent versions differ is decided when the newer
  one is created and the older one is already sent, so it has to be said of every
  newer version whatever its status (`NewerDiffers`). `HistoryInv` conjoins these with
  the properties. `StatusMoves` classifies what a step other than `RecordVersion`
  does to statuses; `HistoryStep` needs no more than that.
* `SentTold`. The invariant `DeliveryInv` relates what an execution of the delivery has
  read to the rows it read it from: an execution of the current epoch has the level of the
  version's alert, and one that is about to finish has told all of that level. An execution of an
  older epoch knows nothing, and `RowsGone` keeps it from finishing.
* `ContentIsStable`: `ContentOnlyChangesAsDraft`. `Changes` lists what one step can do
  to the columns of the versions, whichever process takes it. It needs `EditsOK`: an update
  in progress carries a text of a lecturer.
* `ServiceImplementsLedger`: `ImplementsLedger`, the specification of `AnalysisLedger`.
  `Kept` conjoins the invariants above with `Fresh`: a version that is not finished has no
  content and no alert. Under `Kept` each kind of change is one step of the ledger, or
  leaves its variables alone; `SENT` is allowed by `DeliveryInv`.

`AlertsProofs`, for every number of requests, alerts, logs, lecturers, levels and absences,
and every overlap of the handlers:

* `TypeCorrect`: `TypeOK`, from `Shape` (which fields a request has at each of its steps) and
  `LockHeld`.
* Two lemmas carry the rest. `Rows` classifies what a step, whosever it is, does to a
  row (it stays, appears, or is deleted, marked, closed or raised by a request of a given
  kind); `StepOK` says what a request knows after it (the same, nothing, or what it has just
  read).
* `LevelIsAnnounced`: a step that writes a level leaves its request about to announce it, or
  the level due (`AnnouncedStep`), and no other step takes from what was or will be
  announced (`KeepsNews`).
* `CareIsForTheLevel` and `AlertMovesForward` follow row by row: who writes over what has
  changed since it read puts the alert into `blind`, and whoever does not knows the level
  and the status it overwrites.
* `OneIsRaised`. `RaisedOnce` is not inductive: a raise or a review that found no alert open
  creates one later. `OnceInv` adds that each alert's source tells who created it
  (`Origin`), that the index holds, and what a handler that is about to create one has not
  seen (`Lone`): for the holder of the lock alerts of reviews, sends, or those somebody wrote
  over; for a review what the index keeps apart, or the like.
* `CareHasItsLog`. `LogInv` adds that logs are numbered and that a log being deleted is as it
  was read, or gone. A step that deletes the last log of the lecturer clears the mark or
  puts the alert into `blind`.

`AlertDispatchProofs`, for every set of recipients, workers and levels and every
number of calls, attempts, stalls and faults:

* `DispatchTypeCorrect`: `TypeOK`, with the locks and attempts of jobs.
* `FirstAnnouncementOnce`: `AnnouncedOnce`. It is not inductive: what keeps a second
  execution from mailing is that it finds the recipient's row. `OnceInv` says so: while
  there is no row nobody was told and no execution holds a new notification of the first
  call, at most one execution holds it afterwards (`Holds`), and whoever does has not
  told yet. `RunsOK` adds that the first call never goes through `refreshForReplay`,
  which is what breaks `RetryMailsOnce` for escalations.

`BackupProofs`, for every number of tasks, dumps, requests, mishaps and crashes and every
retention; all properties of the run are proved:

* `TypeCorrect`; `LockIsReleased` from `Held`: a set lock has a task that will drop it.
* `RetentionKeepsNewest`, without an assumption: `DumpInv` says that no two tasks make the
  same dump and that one under way is not whole, so what retention deletes is old and what
  it counts as newer stays; that the newest of a set exists is `NewestOf`, from the
  well-foundedness of finite sets.
* `SnapshotIsKept` and `RestoreGivesBack`, for restores that overlap like everything else.
  `RestoreInv` follows the program counter of each restore: until its first reset it has lost
  nothing (`Untouched`); its snapshot is on the disk, and once it is read holds what the
  database held at the request, unless the administrator deleted it (`Snapshot`); while the
  database is damaged there is a dump to go back to (`UndoSafe`); and an attempt that ends has
  put its file's content there, unless it stopped half-way (`Returned`). Each part but
  `UndoSafe` excepts a restore that another one has overtaken since its request; that only
  restores change the database under another one, and that they overtake it by that, is
  `StepOvertakes`.

`ImportsProofs`, for files of any length and content and every number of callers, batches,
edits and faults; all safety properties of the run are proved:

* `AppliedIsNotPending` needs nothing of what a committer writes: `Settled` says that a
  batch whose rows were written is committed or cancelled, and only `upload` of a new batch
  makes one pending.
* `TypeCorrect`, `DepartmentFollows`, `AdminClassIsKept` rest on what `Writes` may contain.
  `FoldExists` shows that a fold over the row numbers is what it gives for all rows but the
  last, and one step more. It needs the fold's recursive definition to have a solution,
  which `SubsetInduction` builds along the subsets of a finite set (the well-foundedness of
  strict inclusion; the library's induction rule cannot be used, see below). By the same
  induction `WritesPatch` carries `Patch` from each row to the file: a committer writes a
  class only where the student has none or an administrative one takes its place, and,
  except for a gradebook, a major only together with its department. `Part` says it of one
  row; `RosterPart` and `GradebookPart` are the two kinds that write such cells, the
  others are `Quiet`.
* `Sound` follows these writes through transactions that overlap. `Pending` is what is still
  true of them when somebody else has written the student meanwhile: a class that is not
  administrative is written only as a fresh key, and if the student exists by then, that
  key is taken and the transaction rolls back. `EditsData` says that a form leaves major and
  department together; that a form may take an administrative class away is excepted by
  `AdminClassKept`. `byPrefix` excepts those whose major a
  gradebook took from the class code.

`SessionsProofs`, for every number of tabs, tokens, requests and faults: `TypeCorrect`,
`RevokedIsLocked` (with faults), `OneToken` and `RefusedIsOver` (before the first fault, in a
browser with Web Locks).
The invariant ties the rotation to the holder of the Web Lock (`Locked`, `Rotating`), and
says that as long as nothing failed, a refresh that will create a token leaves its login
no other one (`Alone`), and what the browser holds, or an answer under way brings it, is
usable unless that login was ended (`Usable`).

`DiscussionsProofs`, for every staff and number of messages, changes and failed queries:
`TypeCorrect`, `RecallIsHidden`, `OnlyScopeIsTold`, `ParticipantsAreTold`. The invariant
says at each query of the fan-out what the sets found so far contain (all of `owed`) and
are contained in (`awake` after the query about activity, `met` after the one about scope:
`MetCovers`), and that a recalled message whose
fan-out has not passed its last look has no notification with text.

`EvaluationsProofs`, for every staff, sections, inputs and number of updates at once, where
staff and sections are finite:

* `TypeCorrect`. Its content: no mark outlives its evaluation, and the marks an update
  will replace are marks of its evaluation still, whatever was deleted or updated
  meanwhile.
* `MedianIsFair`. `Nth` chooses the i-th score by how many rows are below it and how many
  at most equal. One of the ten scores is the first that at least i rows do not exceed
  (`NthExists`); that an earlier score is no greater follows from cardinalities. The doubled
  median lies between the two middle scores, so its band lies between theirs, and on either
  side of them is half of the rows.
* `WorseIsNeverCalmer`: each of the four terms of the score is monotone. The i-th score
  of rows that all went down is no greater; the bands and `AbsentPoint` are monotone; an
  absence that is reported after but not before would move the rule on "several
  sections", which is why the property keeps who reports; the sum over criteria counts
  pairs <<criterion, point>> (`Laid`), by `SubsetInduction`, so more criteria cannot be
  fewer points.

Only model-checked: the liveness properties `GenerationSettles`, `DeliverySettles`,
`EveryoneTold`, `ReviewFollows` and `RefreshSettles`, because fairness and ENABLED are out of
the prover's reach. Of the library's modules, those theorems that take an operator as a
parameter cannot be used with the installed provers; where an induction over a finite set
is needed (`BackupProofs`, `ImportsProofs`, `EvaluationsProofs`) the proofs state it for
the set of counterexamples, from the well-foundedness of inclusion. Recursive operators
occur nowhere in the modules.

## 5. Plan

The order follows the weight of the behaviour. Done: `StudentAnalysis` with
`AnalysisLedger`, `Alerts`, `AlertDispatch`, `Backup`, `Imports` with `ImportRows`,
`Sessions`, `Discussions`, `Evaluations`, and a module of proofs for each.

What would come next:

1. Abstract specifications: one alert as a level that only rises with the announcements
   due (`Alerts` implements it for raises); "restore is a switch from one whole
   content to another or nothing" for `Backup` without a failing rollback.
2. A second browser of the account in `Sessions`; the deletion of a thread with its
   student or alert in `Discussions`; term blocks as calendar arithmetic.
3. `ErrorCollector` of `M/monitoring`: capture, flush, shutdown with its bounded buffer.

## 6. Not modelled

Rendering, mail and push transport, the language model's providers, statistics,
single-row administration, the abilities of roles, the privacy filter and most of the
client are left out: they have no state of their own, or their state is one row under one
database constraint. The web client makes up much of the repository's lines and is forms, tables and queries;
what it contributes to concurrency, the refresh of a session by several tabs, is in
`Sessions`. Monitoring keeps a buffer it may lose. The parsers' search for headers
and the splitting of cells are string processing; the older Excel form for grades, which
writes enrolments row by row as `updateGrades` does, is left out.

Within the modelled components: texts, audit entries, previews and lists; the editing of a
care log (it touches no mark); reading and marking notifications; blocks of a term in the
review; the registration of the backup schedule; in `Imports` names and the dates of
sections; in `Sessions` browsers without Web Locks (`session-refresh.ts:38`, where `RefusedOnlyWhenOver`
and `OneTokenPerLogin` need not hold), a request that never settles, `linkGoogle`, the captcha, the expiry of refresh tokens, proofs for
destructive operations and the idle timer; in `Discussions` the deletion of a thread; in
`Evaluations` notes and the level an AI's quotation forces. PostgreSQL, BullMQ, Redis,
`pg_dump` and `pg_restore` are modelled from how the code uses them.

## 7. Running

    tlc -config StudentAnalysisVersions.cfg MCStudentAnalysis
    tlc -config StudentAnalysisDelivery.cfg MCStudentAnalysis
    tlc -config StudentAnalysisResend.cfg MCStudentAnalysis
    tlc -config AlertsRaise.cfg MCAlerts
    tlc -config AlertsCare.cfg MCAlerts
    tlc -config AlertDispatchFaults.cfg MCAlertDispatch
    tlc -config BackupRestore.cfg MCBackup
    tlc -config ImportsCommit.cfg MCImports
    tlc -config Sessions.cfg MCSessions
    tlc -config Discussions.cfg MCDiscussions
    tlc -config Evaluations.cfg MCEvaluations
    tlc -config EvaluationsCriteria.cfg MCEvaluations
    tlapm StudentAnalysisProofs.tla
    tlapm AlertsProofs.tla
    tlapm AlertDispatchProofs.tla
    tlapm BackupProofs.tla
    tlapm ImportsProofs.tla
    tlapm SessionsProofs.tla
    tlapm DiscussionsProofs.tla
    tlapm EvaluationsProofs.tla

`StudentAnalysisResend.cfg` and `EvaluationsCriteria.cfg` end with the counterexamples of
section 3, the others without an error. Operators whose comment begins with
"Mutant:" are plausible errors that each property was tested against; no specification
uses them.
