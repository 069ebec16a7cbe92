---------------------------- MODULE Discussions ----------------------------
(***************************************************************************)
(* The discussion about one student: DiscussionsService.create commits a   *)
(* message and then works out, query by query, whom to notify; remove      *)
(* recalls a message together with the notifications that quote it.  In    *)
(* between staff come into and go out of the student's scope.              *)
(*                                                                         *)
(* The queries of one Promise.all are one step: those that test the scope  *)
(* are about one person each, and the properties speak of one person at a  *)
(* time.  Other students' threads share nothing with this one.             *)
(***************************************************************************)
EXTENDS Integers, FiniteSets

CONSTANTS
  Staff,
  Officers,    \* roles that see every student
  Heads,       \* heads of the student's department
  Writers,     \* bound on who writes messages
  Readers,     \* bound on who opens the thread
  Lecturers,   \* staff whom a section of the student may be given
  Teaching,    \* those who have one when the thread begins
  Mentions,    \* what messages say: records [all, codes]
  MaxMessages, \* bound on messages
  MaxChanges,  \* bound on changes of sections and accounts
  MaxFaults    \* bound on failed queries

Messages == 1..MaxMessages

ASSUME DiscussionsAssumption ==
  /\ Officers \subseteq Staff /\ Heads \subseteq Staff /\ Lecturers \subseteq Staff
  /\ Teaching \subseteq Lecturers /\ Writers \subseteq Staff /\ Readers \subseteq Staff
  /\ Mentions \subseteq [all : BOOLEAN, codes : SUBSET Staff]
  /\ MaxMessages \in Nat /\ MaxChanges \in Nat /\ MaxFaults \in Nat

VARIABLES
  message, \* DiscussionMessage
  note,    \* the notification a member of staff has about a message
  reads,   \* staff with a DiscussionRead: who has opened the thread
  teaches, \* lecturers of the student's sections in progress
  taught,  \* lecturers of the student's finished sections
  active,  \* Staff.isActive
  fan,     \* the fan-out of each message
  late,    \* messages recalled between the fan-out's last look and its last notification
  owed,    \* per message, who took part from before it until its fan-out ended
  awake,   \* per message, who was active at some time since it was sent
  met,     \* per message, who of them was in scope then or later
  changes, faults

vars == <<message, note, reads, teaches, taught, active, fan, late, owed, awake, met, changes, faults>>

NoMessage == [state |-> "none", author |-> {}, mentions |-> [all |-> FALSE, codes |-> {}]]
Fan(pc, mentioned, others) == [pc |-> pc, mentioned |-> mentioned, others |-> others]
Over == Fan("done", {}, {})

Looking == {"people", "staff", "scope", "look"}
Delivering == {"mention", "general"}

\* author is a set: of one, or empty when there is no message.
TypeOK ==
  /\ \A m \in Messages :
       /\ message[m].state \in {"none", "sent", "recalled"}
       /\ message[m].state = "none" <=> message[m].author = {}
       /\ message[m].state = "none" <=> fan[m].pc = "none"
       /\ fan[m].pc \in {"none", "done", "failed"} \cup Looking \cup Delivering
       /\ fan[m].pc \in Delivering => fan[m].mentioned \cap fan[m].others = {}
       /\ (fan[m].mentioned \cup fan[m].others) \cap message[m].author = {}
  /\ note \in [Messages -> [Staff -> {"none", "text", "recalled"}]]
  /\ reads \subseteq Staff /\ active \subseteq Staff
  /\ teaches \subseteq Lecturers /\ taught \subseteq Lecturers
  /\ late \subseteq Messages
  /\ owed \in [Messages -> SUBSET Staff]
  /\ \A m \in Messages : met[m] \subseteq awake[m] /\ awake[m] \subseteq Staff
  /\ changes \in 0..MaxChanges /\ faults \in 0..MaxFaults

Init ==
  /\ message = [m \in Messages |-> NoMessage]
  /\ note = [m \in Messages |-> [s \in Staff |-> "none"]]
  /\ reads = {}
  /\ teaches = Teaching /\ taught = {}
  /\ active = Staff
  /\ fan = [m \in Messages |-> Fan("none", {}, {})]
  /\ late = {}
  /\ owed = [m \in Messages |-> {}] /\ awake = [m \in Messages |-> {}] /\ met = [m \in Messages |-> {}]
  /\ changes = 0 /\ faults = 0

-----------------------------------------------------------------------------
\* studentScope
InScope == Officers \cup Heads \cup teaches \cup taught

\* participantsExcept: who wrote a message that stands, or has opened the thread.
Participants == reads \cup UNION {message[m].author : m \in {i \in Messages : message[i].state = "sent"}}

\* relatedStaffIds: what "@all" stands for.
Related == teaches \cup Participants \cup (Heads \cap active)

\* mentionedIds
MentionedBy(says) == (IF says.all THEN Related ELSE {}) \cup (says.codes \cap active)

Running(m) == fan[m].pc \in Looking \cup Delivering

\* The history of who took part, was active and was in scope, kept for the properties.
Tracks ==
  /\ owed' = [m \in Messages |-> IF Running(m) THEN owed[m] \cap Participants' \cap InScope' \cap active' ELSE owed[m]]
  /\ awake' = [m \in Messages |-> IF Running(m) THEN awake[m] \cup active' ELSE awake[m]]
  /\ met' = [m \in Messages |-> IF Running(m) THEN met[m] \cup (InScope' \cap awake'[m]) ELSE met[m]]

-----------------------------------------------------------------------------
\* create, up to the message's commit.
Creates(s, m, says) ==
  /\ s \in InScope
  /\ message[m].state = "none" /\ \A older \in 1..(m - 1) : message[older].state # "none"
  /\ message' = [message EXCEPT ![m] = [state |-> "sent", author |-> {s}, mentions |-> says]]
  /\ fan' = [fan EXCEPT ![m] = Fan("people", {}, {})]
  /\ owed' = [owed EXCEPT ![m] = (Participants \cap InScope \cap active) \ {s}]
  /\ awake' = [awake EXCEPT ![m] = active]
  /\ met' = [met EXCEPT ![m] = InScope \cap active]
  /\ UNCHANGED <<note, reads, teaches, taught, active, late, changes, faults>>

\* The history of a message ends with its fan-out.
Goes(m, f) ==
  LET kept(history) == [history EXCEPT ![m] = IF f.pc \in {"done", "failed"} THEN {} ELSE @] IN
  /\ fan' = [fan EXCEPT ![m] = f]
  /\ owed' = kept(owed) /\ awake' = kept(awake) /\ met' = kept(met)

\* fanOut: participants and people mentioned, without the author.
FindsPeople(m) ==
  /\ fan[m].pc = "people"
  /\ Goes(m, Fan("staff", MentionedBy(message[m].mentions) \ message[m].author,
                          Participants \ message[m].author))
  /\ UNCHANGED <<message, note, reads, teaches, taught, active, late, changes, faults>>

\* staffInScope: whose accounts are active.
FindsActive(m) ==
  LET f == fan[m] IN
  /\ f.pc = "staff"
  /\ Goes(m, Fan("scope", f.mentioned \cap active, f.others \cap active))
  /\ UNCHANGED <<message, note, reads, teaches, taught, active, late, changes, faults>>

\* Mutant: only the participants are filtered by scope.
FiltersOthers(m) ==
  LET f == fan[m] IN
  /\ f.pc = "scope"
  /\ Goes(m, Fan("look", f.mentioned, (f.others \cap InScope) \ f.mentioned))
  /\ UNCHANGED <<message, note, reads, teaches, taught, active, late, changes, faults>>

\* Mutant: who is mentioned is told twice.
FiltersTwice(m) ==
  LET f == fan[m] IN
  /\ f.pc = "scope"
  /\ Goes(m, Fan("look", f.mentioned \cap InScope, f.others \cap InScope))
  /\ UNCHANGED <<message, note, reads, teaches, taught, active, late, changes, faults>>

\* staffInScope: who of them has the student in scope.  Nobody is left, or the message
\* is looked at once more.
Filters(m) ==
  LET f == fan[m]
      mentioned == f.mentioned \cap InScope
      others == (f.others \cap InScope) \ mentioned
  IN
  /\ f.pc = "scope"
  /\ Goes(m, IF mentioned \cup others = {} THEN Over ELSE Fan("look", mentioned, others))
  /\ UNCHANGED <<message, note, reads, teaches, taught, active, late, changes, faults>>

\* Mutant: the message is not looked at again.
LooksAway(m) ==
  /\ fan[m].pc = "look"
  /\ Goes(m, [fan[m] EXCEPT !.pc = "mention"])
  /\ UNCHANGED <<message, note, reads, teaches, taught, active, late, changes, faults>>

\* wasRecalled
Looks(m) ==
  /\ fan[m].pc = "look"
  /\ Goes(m, IF message[m].state = "recalled" THEN Over ELSE [fan[m] EXCEPT !.pc = "mention"])
  /\ UNCHANGED <<message, note, reads, teaches, taught, active, late, changes, faults>>

\* Mutant: a message with mentions is for the people it mentions.
DeliversMentions(m) ==
  LET f == fan[m] IN
  /\ f.pc \in Delivering
  /\ note' = [note EXCEPT ![m] = [s \in Staff |-> IF s \in f.mentioned THEN "text" ELSE @[s]]]
  /\ Goes(m, IF f.mentioned = {} /\ f.pc = "mention" THEN [f EXCEPT !.pc = "general"] ELSE Over)
  /\ UNCHANGED <<message, reads, teaches, taught, active, late, changes, faults>>

\* deliver, once for the mentions and once for the others; who has a notification of
\* this message keeps it (skipDuplicates).
Delivers(m) ==
  LET f == fan[m]
      to == IF f.pc = "mention" THEN f.mentioned ELSE f.others
  IN
  /\ f.pc \in Delivering
  /\ note' = [note EXCEPT ![m] = [s \in Staff |-> IF s \in to /\ @[s] = "none" THEN "text" ELSE @[s]]]
  /\ Goes(m, IF f.pc = "mention" THEN [f EXCEPT !.pc = "general"] ELSE Over)
  /\ UNCHANGED <<message, reads, teaches, taught, active, late, changes, faults>>

\* create logs whatever the fan-out throws: the message stays.
Fails(m) ==
  /\ Running(m)
  /\ faults < MaxFaults /\ faults' = faults + 1
  /\ Goes(m, Fan("failed", {}, {}))
  /\ UNCHANGED <<message, note, reads, teaches, taught, active, late, changes>>

\* Mutant: the notifications keep their text.
RemovesMessage(m) ==
  /\ message[m].author # {} /\ message[m].author \subseteq InScope
  /\ message' = [message EXCEPT ![m].state = "recalled"]
  /\ late' = IF fan[m].pc \in Delivering THEN late \cup {m} ELSE late
  /\ UNCHANGED <<note, reads, teaches, taught, active, fan, changes, faults>>
  /\ Tracks

\* remove, by the author: one transaction.
Removes(m) ==
  /\ message[m].author # {} /\ message[m].author \subseteq InScope
  /\ message' = [message EXCEPT ![m].state = "recalled"]
  /\ note' = [note EXCEPT ![m] = [s \in Staff |-> IF @[s] = "none" THEN "none" ELSE "recalled"]]
  /\ late' = IF fan[m].pc \in Delivering THEN late \cup {m} ELSE late
  /\ UNCHANGED <<reads, teaches, taught, active, fan, changes, faults>>
  /\ Tracks

MarksRead(s) ==
  /\ s \in InScope
  /\ reads' = reads \cup {s}
  /\ UNCHANGED <<message, note, teaches, taught, active, fan, late, changes, faults>>
  /\ Tracks

-----------------------------------------------------------------------------
(* Elsewhere                                                               *)

Changes == changes < MaxChanges /\ changes' = changes + 1

\* A section of the student is given to other lecturers, or finishes.
SetsTeaching(now, before) ==
  /\ Changes
  /\ now # teaches
  /\ teaches' = now /\ taught' = before
  /\ UNCHANGED <<message, note, reads, active, fan, late, faults>>
  /\ Tracks

\* An account is enabled or disabled.
SetsActive(s, on) ==
  /\ Changes
  /\ on = (s \notin active)
  /\ active' = IF on THEN active \cup {s} ELSE active \ {s}
  /\ UNCHANGED <<message, note, reads, teaches, taught, fan, late, faults>>
  /\ Tracks

Next ==
  \/ \E m \in Messages :
       \/ \E s \in Writers, says \in Mentions : Creates(s, m, says)
       \/ FindsPeople(m) \/ FindsActive(m) \/ Filters(m) \/ Looks(m) \/ Delivers(m) \/ Fails(m)
       \/ Removes(m)
  \/ \E s \in Readers : MarksRead(s)
  \/ \E s \in Staff, on \in BOOLEAN : SetsActive(s, on)
  \/ \E now \in SUBSET Lecturers : SetsTeaching(now, taught)
  \/ \E k \in teaches : SetsTeaching(teaches \ {k}, taught \cup {k})

Spec == Init /\ [][Next]_vars

-----------------------------------------------------------------------------
\* discussions.service.ts remove, wasRecalled: a recalled message is quoted by no
\* notification, unless it was recalled after the fan-out's last look at it.
RecallHides ==
  \A m \in Messages \ late : message[m].state = "recalled" => \A s \in Staff : note[m][s] # "text"

\* recipientsInScope ("RULE 2"): whoever is told of a message, mentioned or not, was active
\* at some time since it was sent and had the student in scope then or later; an account
\* that is disabled while the scope is asked for, or a section lost after that, is too late.
ToldWereInScope ==
  [][\A m \in Messages, s \in Staff : note[m][s] = "none" /\ note'[m][s] # "none" => s \in met[m]]_vars

\* fanOut: a fan-out that runs to its end, for a message that stands, has told everyone
\* who took part in the discussion from before the message until then.
ParticipantsTold ==
  [][\A m \in Messages :
       fan[m].pc # "done" /\ fan'[m].pc = "done" /\ message[m].state = "sent" =>
         \A s \in owed[m] : note'[m][s] # "none"]_vars

-----------------------------------------------------------------------------
\* discussions.service.ts remove, "both statements go in one transaction so that there is
\* no state in which the message is recalled but a notification has its content".
RecalledNowhere ==
  \A m \in Messages : message[m].state = "recalled" => \A s \in Staff : note[m][s] # "text"
=============================================================================
