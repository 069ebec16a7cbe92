-------------------------- MODULE DiscussionsProofs --------------------------
(***************************************************************************)
(* Proofs about Discussions for every staff, every number of messages,     *)
(* every order of recalls, queries, changes of scope and failed queries.   *)
(***************************************************************************)
EXTENDS Discussions, TLAPS

USE DiscussionsAssumption DEF Messages

-----------------------------------------------------------------------------
(* The inductive invariant.                                                *)

Says == [all : BOOLEAN, codes : SUBSET Staff]
MessageRecord == [state : {"none", "sent", "recalled"}, author : SUBSET Staff, mentions : Says]
FanRecord ==
  [ pc : {"none", "people", "staff", "scope", "look", "mention", "general", "done", "failed"},
    mentioned : SUBSET Staff, others : SUBSET Staff ]

Shape ==
  /\ message \in [Messages -> MessageRecord]
  /\ fan \in [Messages -> FanRecord]
  /\ note \in [Messages -> [Staff -> {"none", "text", "recalled"}]]
  /\ owed \in [Messages -> SUBSET Staff]
  /\ awake \in [Messages -> SUBSET Staff] /\ met \in [Messages -> SUBSET Staff]

\* A message exists once it has an author and a fan-out.
Sent ==
  \A m \in Messages :
    /\ message[m].state = "none" <=> message[m].author = {}
    /\ message[m].state = "none" <=> fan[m].pc = "none"

\* The author is not among the recipients, and nobody is one twice.
Apart ==
  \A m \in Messages :
    /\ fan[m].pc \in {"look"} \cup Delivering => fan[m].mentioned \cap fan[m].others = {}
    /\ (fan[m].mentioned \cup fan[m].others) \cap message[m].author = {}
    /\ owed[m] \cap message[m].author = {}

Bounded ==
  /\ reads \subseteq Staff /\ active \subseteq Staff
  /\ teaches \subseteq Lecturers /\ taught \subseteq Lecturers
  /\ late \subseteq Messages
  /\ changes \in 0..MaxChanges /\ faults \in 0..MaxFaults

\* Whoever recalls a message while its notifications are written is late.
LateKnown ==
  \A m \in Messages : message[m].state = "recalled" /\ fan[m].pc \in Delivering => m \in late

\* The recipients of a fan-out were active since the message was sent, and then in scope.
MetCovers ==
  \A m \in Messages :
    /\ met[m] \subseteq awake[m]
    /\ Running(m) => active \subseteq awake[m] /\ InScope \cap awake[m] \subseteq met[m]
    /\ fan[m].pc = "scope" => fan[m].mentioned \cup fan[m].others \subseteq awake[m]
    /\ fan[m].pc \in {"look"} \cup Delivering => fan[m].mentioned \cup fan[m].others \subseteq met[m]

\* Whom a fan-out owes a notification are among its recipients, until they have one.
OwedCovers ==
  \A m \in Messages :
    /\ Running(m) => owed[m] \subseteq Participants \cap InScope \cap active
    /\ fan[m].pc \in {"staff", "scope", "look", "mention"} => owed[m] \subseteq fan[m].mentioned \cup fan[m].others
    /\ fan[m].pc = "general" => \A s \in owed[m] : s \in fan[m].others \/ note[m][s] # "none"

Inv == Shape /\ Sent /\ Apart /\ Bounded /\ LateKnown /\ RecallHides /\ MetCovers /\ OwedCovers

-----------------------------------------------------------------------------
LEMMA InitOK ==
  ASSUME Init
  PROVE  Inv
<1> USE DEF Init, NoMessage, Fan
<1>1. Shape BY DEF Shape, MessageRecord, Says, FanRecord
<1>2. Sent BY DEF Sent
<1>3. Apart BY DEF Apart, Delivering
<1>4. Bounded BY DEF Bounded
<1>5. LateKnown /\ RecallHides BY DEF LateKnown, RecallHides
<1>6. MetCovers BY DEF MetCovers, Running, Looking, Delivering
<1>7. OwedCovers BY DEF OwedCovers, Running, Looking, Delivering
<1> QED BY <1>1, <1>2, <1>3, <1>4, <1>5, <1>6, <1>7 DEF Inv

-----------------------------------------------------------------------------
(* A new message.                                                          *)

LEMMA CreatesOK ==
  ASSUME Inv, NEW s \in Writers, NEW m \in Messages, NEW says \in Mentions, Creates(s, m, says)
  PROVE  Inv'
<1> USE DEF Inv, Creates
<1>0. s \in Staff /\ says \in Says BY DEF Says
<1>1. Shape' BY <1>0 DEF Shape, Bounded, MessageRecord, FanRecord, Fan
<1>2. message' = [message EXCEPT ![m] = message'[m]] /\ message'[m].author = {s} /\ message'[m].state = "sent"
  BY <1>0 DEF Shape
<1>3. fan' = [fan EXCEPT ![m] = Fan("people", {}, {})] OBVIOUS
<1>4. Sent' BY <1>2, <1>3 DEF Shape, Sent, Fan
<1>5. Apart' BY <1>2, <1>3 DEF Shape, Apart, Fan, Delivering
<1>6. Bounded' BY DEF Bounded
<1>7. LateKnown' BY <1>2, <1>3 DEF Shape, LateKnown, Fan, Delivering
<1>8. RecallHides' BY <1>2 DEF Shape, RecallHides
<1>9. InScope' = InScope BY DEF InScope
<1>10. MetCovers'
  <2>1. \A i \in Messages \ {m} : fan'[i] = fan[i] /\ awake'[i] = awake[i] /\ met'[i] = met[i]
    BY <1>3 DEF Shape
  <2>2. /\ fan'[m].pc = "people" /\ awake'[m] = active /\ met'[m] = InScope \cap active
        /\ active' = active
    BY <1>3 DEF Shape, Fan
  <2>3. "people" # "scope" /\ "people" \notin {"look"} \cup Delivering BY DEF Delivering
  <2>4. ASSUME NEW i \in Messages \ {m}
        PROVE  /\ met'[i] \subseteq awake'[i]
               /\ Running(i)' => active' \subseteq awake'[i] /\ InScope' \cap awake'[i] \subseteq met'[i]
               /\ fan'[i].pc = "scope" => fan'[i].mentioned \cup fan'[i].others \subseteq awake'[i]
               /\ fan'[i].pc \in {"look"} \cup Delivering => fan'[i].mentioned \cup fan'[i].others \subseteq met'[i]
    <3>1. Running(i)' <=> Running(i) BY <2>1 DEF Running
    <3> QED BY <1>9, <2>1, <2>2, <3>1 DEF MetCovers
  <2> QED BY <1>9, <2>2, <2>3, <2>4 DEF MetCovers
<1>11. Participants \subseteq Participants' BY <1>2 DEF Shape, Participants
<1>12. OwedCovers' BY <1>3, <1>9, <1>11 DEF Shape, OwedCovers, Fan, Running, Looking, Delivering
<1> QED BY <1>1, <1>4, <1>5, <1>6, <1>7, <1>8, <1>10, <1>12

-----------------------------------------------------------------------------
(* A query of a fan-out.                                                   *)

\* What holds after a step that gives message m's fan-out the state f.
LEMMA GoesShape ==
  ASSUME Inv, NEW m \in Messages, NEW f \in FanRecord, Goes(m, f), UNCHANGED <<message, note>>
  PROVE  Shape'
  BY DEF Inv, Shape, Goes

LEMMA GoesSent ==
  ASSUME Inv, NEW m \in Messages, NEW f \in FanRecord, Goes(m, f), UNCHANGED message,
         fan[m].pc # "none", f.pc # "none"
  PROVE  Sent'
  BY DEF Inv, Shape, Sent, Goes

LEMMA GoesApart ==
  ASSUME Inv, NEW m \in Messages, NEW f \in FanRecord, Goes(m, f), UNCHANGED message,
         f.pc \in {"look"} \cup Delivering => f.mentioned \cap f.others = {},
         (f.mentioned \cup f.others) \cap message[m].author = {}
  PROVE  Apart'
  BY DEF Inv, Shape, Apart, Goes

LEMMA GoesMet ==
  ASSUME Inv, NEW m \in Messages, NEW f \in FanRecord, Goes(m, f), UNCHANGED <<teaches, taught, active>>,
         Running(m),
         f.pc = "scope" => f.mentioned \cup f.others \subseteq awake[m],
         f.pc \in {"look"} \cup Delivering => f.mentioned \cup f.others \subseteq met[m]
  PROVE  MetCovers'
<1>1. InScope' = InScope BY DEF InScope
<1> QED BY <1>1 DEF Inv, Shape, MetCovers, Goes, Running, Looking, Delivering

LEMMA GoesOwed ==
  ASSUME Inv, NEW m \in Messages, NEW f \in FanRecord, Goes(m, f),
         UNCHANGED <<message, reads, teaches, taught, active>>,
         \A i \in Messages \ {m} : note'[i] = note[i],
         Running(m),
         f.pc \in {"staff", "scope", "look", "mention"} => owed[m] \subseteq f.mentioned \cup f.others,
         f.pc = "general" => \A s \in owed[m] : s \in f.others \/ note'[m][s] # "none"
  PROVE  OwedCovers'
<1>1. InScope' = InScope BY DEF InScope
<1>2. Participants' = Participants BY DEF Participants
<1>3. \A i \in Messages : owed'[i] \subseteq owed[i] BY DEF Inv, Shape, Goes
<1>4. \A i \in Messages \ {m} : fan'[i] = fan[i] BY DEF Inv, Shape, Goes
<1>5. fan'[m] = f BY DEF Inv, Shape, Goes
<1> QED BY <1>1, <1>2, <1>3, <1>4, <1>5 DEF Inv, OwedCovers, Running, Looking, Delivering

LEMMA FindsPeopleOK ==
  ASSUME Inv, NEW m \in Messages, FindsPeople(m)
  PROVE  Inv'
<1> DEFINE f == Fan("staff", MentionedBy(message[m].mentions) \ message[m].author,
                     Participants \ message[m].author)
<1>1. Participants \subseteq Staff BY DEF Inv, Shape, Bounded, MessageRecord, Participants
<1>2. MentionedBy(message[m].mentions) \subseteq Staff
  BY <1>1 DEF Inv, Shape, Bounded, MessageRecord, Says, MentionedBy, Related
<1>3. f \in FanRecord BY <1>1, <1>2 DEF Fan, FanRecord
<1>4. /\ f.pc = "staff" /\ f.others = Participants \ message[m].author
      /\ f.mentioned = MentionedBy(message[m].mentions) \ message[m].author
  BY DEF Fan
<1>5. Goes(m, f) /\ fan[m].pc = "people" BY DEF FindsPeople
<1>6. UNCHANGED <<message, note, reads, teaches, taught, active, late, changes, faults>> BY DEF FindsPeople
<1> HIDE DEF f
<1>7. Shape' BY <1>3, <1>5, <1>6, GoesShape
<1>8. Sent' BY <1>3, <1>4, <1>5, <1>6, GoesSent
<1>9. Apart' BY <1>3, <1>4, <1>5, <1>6, GoesApart DEF Delivering
<1>10. Bounded' BY <1>6 DEF Inv, Bounded
<1>11. LateKnown' BY <1>4, <1>5, <1>6 DEF Inv, Shape, LateKnown, Goes, Delivering
<1>12. RecallHides' BY <1>6 DEF Inv, RecallHides
<1>13. MetCovers' BY <1>3, <1>4, <1>5, <1>6, GoesMet DEF Running, Looking, Delivering
<1>14. owed[m] \subseteq f.mentioned \cup f.others
  BY <1>4, <1>5 DEF Inv, OwedCovers, Apart, Running, Looking
<1>15. OwedCovers' BY <1>3, <1>4, <1>5, <1>6, <1>14, GoesOwed DEF Running, Looking
<1> QED BY <1>7, <1>8, <1>9, <1>10, <1>11, <1>12, <1>13, <1>15 DEF Inv

\* What a step about message m's fan-out owes the invariant when nothing else changes.
LEMMA GoesOK ==
  ASSUME Inv, NEW m \in Messages, NEW f \in FanRecord, Goes(m, f),
         UNCHANGED <<message, note, reads, teaches, taught, active, late>>,
         changes' \in 0..MaxChanges, faults' \in 0..MaxFaults,
         Running(m), f.pc # "none",
         f.pc \in {"look"} \cup Delivering => f.mentioned \cap f.others = {},
         f.pc \in Delivering => message[m].state # "recalled",
         (f.mentioned \cup f.others) \cap message[m].author = {},
         f.pc = "scope" => f.mentioned \cup f.others \subseteq awake[m],
         f.pc \in {"look"} \cup Delivering => f.mentioned \cup f.others \subseteq met[m],
         f.pc \in {"staff", "scope", "look", "mention"} => owed[m] \subseteq f.mentioned \cup f.others,
         f.pc # "general"
  PROVE  Inv'
<1>1. fan[m].pc # "none" BY DEF Running, Looking, Delivering
<1>2. Shape' BY GoesShape
<1>3. Sent' BY <1>1, GoesSent
<1>4. Apart' BY GoesApart
<1>5. Bounded' BY DEF Inv, Bounded
<1>6. LateKnown' BY DEF Inv, Shape, LateKnown, Goes, Delivering
<1>7. RecallHides' BY DEF Inv, RecallHides
<1>8. MetCovers' BY GoesMet
<1>9. OwedCovers' BY GoesOwed
<1> QED BY <1>2, <1>3, <1>4, <1>5, <1>6, <1>7, <1>8, <1>9 DEF Inv

LEMMA FindsActiveOK ==
  ASSUME Inv, NEW m \in Messages, FindsActive(m)
  PROVE  Inv' /\ fan'[m].pc # "done"
<1> DEFINE f == Fan("scope", fan[m].mentioned \cap active, fan[m].others \cap active)
<1>1. fan[m] \in FanRecord BY DEF Inv, Shape
<1>2. fan[m].pc = "staff" /\ Goes(m, f) BY DEF FindsActive
<1>3. f.pc = "scope" /\ f.mentioned = fan[m].mentioned \cap active /\ f.others = fan[m].others \cap active
  BY DEF Fan
<1>4. f \in FanRecord BY <1>1 DEF FanRecord, Fan
<1>5. UNCHANGED <<message, note, reads, teaches, taught, active, late, changes, faults>> BY DEF FindsActive
<1> HIDE DEF f
<1>6. Running(m) BY <1>2 DEF Running, Looking
<1>7. f.mentioned \cup f.others \subseteq awake[m] BY <1>3, <1>6 DEF Inv, MetCovers
<1>8. owed[m] \subseteq f.mentioned \cup f.others BY <1>2, <1>3, <1>6 DEF Inv, OwedCovers
<1>9. (f.mentioned \cup f.others) \cap message[m].author = {} BY <1>3 DEF Inv, Apart
<1>10. Inv' BY <1>2, <1>3, <1>4, <1>5, <1>6, <1>7, <1>8, <1>9, GoesOK DEF Delivering, Inv, Bounded
<1>11. fan'[m] = f BY <1>2 DEF Goes, Inv, Shape
<1> QED BY <1>3, <1>10, <1>11

LEMMA FiltersOK ==
  ASSUME Inv, NEW m \in Messages, Filters(m)
  PROVE  Inv' /\ (fan'[m].pc = "done" => owed[m] = {})
<1> DEFINE mentioned == fan[m].mentioned \cap InScope
           others == (fan[m].others \cap InScope) \ mentioned
           f == IF mentioned \cup others = {} THEN Over ELSE Fan("look", mentioned, others)
<1>1. fan[m] \in FanRecord BY DEF Inv, Shape
<1>2. fan[m].pc = "scope" /\ Goes(m, f) BY DEF Filters
<1>3. mentioned \cup others \subseteq met[m]
  <2>1. InScope \cap awake[m] \subseteq met[m] BY <1>2 DEF Inv, MetCovers, Running, Looking
  <2>2. fan[m].mentioned \cup fan[m].others \subseteq awake[m] BY <1>2 DEF Inv, MetCovers
  <2> QED BY <2>1, <2>2
<1>4. owed[m] \subseteq mentioned \cup others BY <1>2 DEF Inv, OwedCovers, Running, Looking
<1>5. (mentioned \cup others) \cap message[m].author = {} BY DEF Inv, Apart
<1>6. mentioned \subseteq Staff /\ others \subseteq Staff BY <1>1 DEF FanRecord
<1>7. f \in FanRecord BY <1>6 DEF FanRecord, Fan, Over
<1>8. \/ f.pc = "done" /\ f.mentioned \cup f.others = {} /\ owed[m] = {}
      \/ f.pc = "look" /\ f.mentioned = mentioned /\ f.others = others
  BY <1>4 DEF Fan, Over
<1>12. mentioned \cap others = {} OBVIOUS
<1>9. UNCHANGED <<message, note, reads, teaches, taught, active, late, changes, faults>> BY DEF Filters
<1> HIDE DEF mentioned, others, f
<1>10. Inv'
  BY <1>2, <1>3, <1>4, <1>5, <1>7, <1>8, <1>9, <1>12, GoesOK DEF Running, Looking, Delivering, Inv, Bounded
<1>11. fan'[m] = f BY <1>2 DEF Goes, Inv, Shape
<1> QED BY <1>8, <1>10, <1>11

LEMMA LooksOK ==
  ASSUME Inv, NEW m \in Messages, Looks(m)
  PROVE  Inv' /\ (fan'[m].pc = "done" => message[m].state = "recalled")
<1> DEFINE f == IF message[m].state = "recalled" THEN Over ELSE [fan[m] EXCEPT !.pc = "mention"]
<1>1. fan[m] \in FanRecord BY DEF Inv, Shape
<1>2. fan[m].pc = "look" /\ Goes(m, f) BY DEF Looks
<1>3. f \in FanRecord BY <1>1 DEF FanRecord, Fan, Over
<1>4. \/ f.pc = "done" /\ f.mentioned \cup f.others = {} /\ message[m].state = "recalled"
      \/ /\ f.pc = "mention" /\ f.mentioned = fan[m].mentioned /\ f.others = fan[m].others
         /\ message[m].state # "recalled"
  BY <1>1 DEF Fan, Over, FanRecord
<1>5. UNCHANGED <<message, note, reads, teaches, taught, active, late, changes, faults>> BY DEF Looks
<1> HIDE DEF f
<1>6. fan[m].mentioned \cup fan[m].others \subseteq met[m] BY <1>2 DEF Inv, MetCovers
<1>7. owed[m] \subseteq fan[m].mentioned \cup fan[m].others BY <1>2 DEF Inv, OwedCovers
<1>8. fan[m].mentioned \cap fan[m].others = {} BY <1>2 DEF Inv, Apart
<1>9. (f.mentioned \cup f.others) \cap message[m].author = {} BY <1>4 DEF Inv, Apart
<1>10. Inv'
  BY <1>2, <1>3, <1>4, <1>5, <1>6, <1>7, <1>8, <1>9, GoesOK DEF Running, Looking, Delivering, Inv, Bounded
<1>11. fan'[m] = f BY <1>2 DEF Goes, Inv, Shape
<1> QED BY <1>4, <1>10, <1>11

LEMMA FailsOK ==
  ASSUME Inv, NEW m \in Messages, Fails(m)
  PROVE  Inv' /\ fan'[m].pc # "done"
<1> DEFINE f == Fan("failed", {}, {})
<1>1. f \in FanRecord /\ f.pc = "failed" /\ f.mentioned \cup f.others = {} BY DEF Fan, FanRecord
<1>2. Running(m) /\ Goes(m, f) BY DEF Fails
<1>3. UNCHANGED <<message, note, reads, teaches, taught, active, late, changes>> BY DEF Fails
<1>4. faults' \in 0..MaxFaults BY DEF Fails, Inv, Bounded
<1> HIDE DEF f
<1>5. changes' \in 0..MaxChanges BY <1>3 DEF Inv, Bounded
<1>6. Inv' BY <1>1, <1>2, <1>3, <1>4, <1>5, GoesOK DEF Delivering
<1>7. fan'[m] = f BY <1>2 DEF Goes, Inv, Shape
<1> QED BY <1>1, <1>6, <1>7

\* The notifications of a message are written in two statements.
LEMMA DeliversOK ==
  ASSUME Inv, NEW m \in Messages, Delivers(m)
  PROVE  /\ Inv'
         /\ fan'[m].pc = "done" => \A s \in owed[m] : note'[m][s] # "none"
         /\ \A i \in Messages, s \in Staff : note[i][s] = "none" /\ note'[i][s] # "none" => s \in met[i]
<1> DEFINE to == IF fan[m].pc = "mention" THEN fan[m].mentioned ELSE fan[m].others
           f == IF fan[m].pc = "mention" THEN [fan[m] EXCEPT !.pc = "general"] ELSE Over
<1>1. fan[m] \in FanRecord BY DEF Inv, Shape
<1>2. fan[m].pc \in Delivering /\ Goes(m, f) BY DEF Delivers
<1>3. f \in FanRecord BY <1>1 DEF FanRecord, Fan, Over
<1>4. \/ /\ fan[m].pc = "general" /\ f.pc = "done" /\ f.mentioned \cup f.others = {}
         /\ to = fan[m].others
      \/ /\ fan[m].pc = "mention" /\ f.pc = "general" /\ to = fan[m].mentioned
         /\ f.mentioned = fan[m].mentioned /\ f.others = fan[m].others
  BY <1>1, <1>2 DEF Fan, Over, FanRecord, Delivering
<1>5. UNCHANGED <<message, reads, teaches, taught, active, late, changes, faults>> BY DEF Delivers
<1>6. note' = [note EXCEPT ![m] = [s \in Staff |-> IF s \in to /\ note[m][s] = "none" THEN "text" ELSE note[m][s]]]
  BY DEF Delivers
<1> HIDE DEF to, f
<1>7. \A s \in Staff : note'[m][s] = IF s \in to /\ note[m][s] = "none" THEN "text" ELSE note[m][s]
  BY <1>6 DEF Inv, Shape
<1>8. \A i \in Messages \ {m} : note'[i] = note[i] BY <1>6 DEF Inv, Shape
<1>9. note' \in [Messages -> [Staff -> {"none", "text", "recalled"}]] BY <1>6 DEF Inv, Shape
<1>10. owed[m] \subseteq Staff BY DEF Inv, Shape
<1>11. fan'[m] = f BY <1>2 DEF Goes, Inv, Shape
<1>12. to \subseteq fan[m].mentioned \cup fan[m].others BY <1>4
<1>13. fan[m].mentioned \cup fan[m].others \subseteq met[m] BY <1>2 DEF Inv, MetCovers
<1>14. \A s \in owed[m] : s \in fan[m].others \/ note'[m][s] # "none"
  <2>1. CASE fan[m].pc = "mention"
    <3>1. owed[m] \subseteq fan[m].mentioned \cup fan[m].others BY <2>1 DEF Inv, OwedCovers
    <3> QED BY <2>1, <3>1, <1>4, <1>7, <1>10
  <2>2. CASE fan[m].pc = "general"
    BY <2>2, <1>7, <1>10 DEF Inv, OwedCovers
  <2> QED BY <2>1, <2>2, <1>2 DEF Delivering
<1>15. fan'[m].pc = "done" => \A s \in owed[m] : note'[m][s] # "none"
  BY <1>4, <1>7, <1>10, <1>11, <1>14
<1>16. Shape' BY <1>2, <1>3, <1>5, <1>9 DEF Inv, Shape, Goes
<1>17. Sent' BY <1>2, <1>3, <1>4, <1>5, GoesSent DEF Delivering
<1>18. Apart'
  <2>1. fan[m].mentioned \cap fan[m].others = {} BY <1>2 DEF Inv, Apart
  <2>2. (f.mentioned \cup f.others) \cap message[m].author = {} BY <1>4 DEF Inv, Apart
  <2> QED BY <1>2, <1>3, <1>4, <1>5, <2>1, <2>2, GoesApart DEF Delivering
<1>19. Bounded' BY <1>5 DEF Inv, Bounded
<1>20. LateKnown' BY <1>2, <1>5 DEF Inv, Shape, LateKnown, Goes, Delivering
<1>21. RecallHides'
  <2>1. ~(message[m].state = "recalled" /\ m \notin late) BY <1>2 DEF Inv, LateKnown
  <2> QED BY <2>1, <1>5, <1>8 DEF Inv, RecallHides
<1>22. MetCovers' BY <1>2, <1>3, <1>4, <1>5, <1>13, GoesMet DEF Running
<1>23. f.pc \notin {"staff", "scope", "look", "mention"} BY <1>4
<1>24. f.pc = "general" => \A s \in owed[m] : s \in f.others \/ note'[m][s] # "none" BY <1>4, <1>14
<1>28. Running(m) BY <1>2 DEF Running
<1>25. OwedCovers' BY <1>28, <1>2, <1>3, <1>5, <1>8, <1>23, <1>24, GoesOwed
<1>26. Inv' BY <1>16, <1>17, <1>18, <1>19, <1>20, <1>21, <1>22, <1>25 DEF Inv
<1>27. \A i \in Messages, s \in Staff : note[i][s] = "none" /\ note'[i][s] # "none" => s \in met[i]
  BY <1>7, <1>8, <1>12, <1>13
<1> QED BY <1>15, <1>26, <1>27

-----------------------------------------------------------------------------
(* A step that leaves every fan-out where it is.                           *)

LEMMA TracksOK ==
  ASSUME Inv, Tracks, UNCHANGED fan, Bounded',
         message' \in [Messages -> MessageRecord],
         note' \in [Messages -> [Staff -> {"none", "text", "recalled"}]],
         \A m \in Messages : message'[m].author = message[m].author,
         \A m \in Messages : message[m].state = "none" <=> message'[m].state = "none",
         \A m \in Messages, s \in Staff : note[m][s] # "none" => note'[m][s] # "none"
  PROVE  Shape' /\ Sent' /\ Apart' /\ MetCovers' /\ OwedCovers'
<1>1. active' \subseteq Staff BY DEF Bounded
<1>2. \A m \in Messages :
        owed'[m] = IF Running(m)
                     THEN owed[m] \cap Participants' \cap InScope' \cap active' ELSE owed[m]
  BY DEF Tracks
<1>3. \A m \in Messages :
        /\ awake'[m] = IF Running(m) THEN awake[m] \cup active' ELSE awake[m]
        /\ met'[m] = IF Running(m) THEN met[m] \cup (InScope' \cap awake'[m]) ELSE met[m]
  BY DEF Tracks
<1>4. owed' \in [Messages -> SUBSET Staff]
  <2>1. \A m \in Messages :
          (IF Running(m)
             THEN owed[m] \cap Participants' \cap InScope' \cap active' ELSE owed[m]) \in SUBSET Staff
    BY DEF Inv, Shape
  <2> QED BY <2>1 DEF Tracks
<1>12. awake' \in [Messages -> SUBSET Staff]
  <2>1. \A m \in Messages : (IF Running(m) THEN awake[m] \cup active' ELSE awake[m]) \in SUBSET Staff
    BY <1>1 DEF Inv, Shape
  <2> QED BY <2>1 DEF Tracks
<1>5. met' \in [Messages -> SUBSET Staff]
  <2>1. \A m \in Messages :
          (IF Running(m) THEN met[m] \cup (InScope' \cap awake'[m]) ELSE met[m]) \in SUBSET Staff
    BY <1>12 DEF Inv, Shape
  <2> QED BY <2>1 DEF Tracks
<1>6. Shape' BY <1>4, <1>5, <1>12 DEF Inv, Shape
<1>7. Sent' BY DEF Inv, Sent
<1>8. \A m \in Messages : owed'[m] \subseteq owed[m] /\ met[m] \subseteq met'[m] BY <1>2, <1>3
<1>9. Apart' BY <1>8 DEF Inv, Apart
<1>10. MetCovers'
  <2> SUFFICES ASSUME NEW m \in Messages
      PROVE /\ met'[m] \subseteq awake'[m]
            /\ Running(m)' => active' \subseteq awake'[m] /\ InScope' \cap awake'[m] \subseteq met'[m]
            /\ fan'[m].pc = "scope" => fan'[m].mentioned \cup fan'[m].others \subseteq awake'[m]
            /\ fan'[m].pc \in {"look"} \cup Delivering =>
                 fan'[m].mentioned \cup fan'[m].others \subseteq met'[m]
    BY DEF MetCovers
  <2>1. met[m] \subseteq awake[m] BY DEF Inv, MetCovers
  <2>2. awake[m] \subseteq awake'[m] /\ met[m] \subseteq met'[m] BY <1>3, <1>8
  <2>3. met'[m] \subseteq awake'[m] BY <1>3, <2>1, <2>2
  <2>4. Running(m)' <=> Running(m) BY DEF Running
  <2>5. Running(m) => active' \subseteq awake'[m] /\ InScope' \cap awake'[m] \subseteq met'[m] BY <1>3
  <2>6. fan[m].pc = "scope" => fan[m].mentioned \cup fan[m].others \subseteq awake[m] BY DEF Inv, MetCovers
  <2>7. fan[m].pc \in {"look"} \cup Delivering => fan[m].mentioned \cup fan[m].others \subseteq met[m]
    BY DEF Inv, MetCovers
  <2> QED BY <2>2, <2>3, <2>4, <2>5, <2>6, <2>7
<1>11. OwedCovers'
  <2> SUFFICES ASSUME NEW m \in Messages
      PROVE /\ Running(m)' =>
                 owed'[m] \subseteq Participants' \cap InScope' \cap active'
            /\ fan'[m].pc \in {"staff", "scope", "look", "mention"} =>
                 owed'[m] \subseteq fan'[m].mentioned \cup fan'[m].others
            /\ fan'[m].pc = "general" => \A s \in owed'[m] : s \in fan'[m].others \/ note'[m][s] # "none"
    BY DEF OwedCovers
  <2>1. owed[m] \subseteq Staff BY DEF Inv, Shape
  <2>2. Running(m)' <=> Running(m) BY DEF Running
  <2> QED BY <1>2, <1>8, <2>1, <2>2 DEF Inv, OwedCovers
<1> QED BY <1>6, <1>7, <1>9, <1>10, <1>11

LEMMA RemovesOK ==
  ASSUME Inv, NEW m \in Messages, Removes(m)
  PROVE  /\ Inv'
         /\ UNCHANGED fan
         /\ \A i \in Messages, s \in Staff : note[i][s] = "none" => note'[i][s] = "none"
<1>1. message' = [message EXCEPT ![m] = [message[m] EXCEPT !.state = "recalled"]]
  BY DEF Removes, Inv, Shape, MessageRecord
<1> DEFINE rec == [message[m] EXCEPT !.state = "recalled"]
<1>2. /\ rec \in MessageRecord /\ rec.state = "recalled" /\ rec.author = message[m].author
  BY DEF Inv, Shape, MessageRecord
<1>3. message' = [message EXCEPT ![m] = rec] BY <1>1
<1>4. message[m].state # "none" BY DEF Removes, Inv, Sent
<1> HIDE DEF rec
<1>5. message' \in [Messages -> MessageRecord] BY <1>2, <1>3 DEF Inv, Shape
<1>6. \A i \in Messages : message'[i].author = message[i].author BY <1>2, <1>3 DEF Inv, Shape
<1>7. \A i \in Messages : message[i].state = "none" <=> message'[i].state = "none"
  BY <1>2, <1>3, <1>4 DEF Inv, Shape
<1>8. note' = [note EXCEPT ![m] = [s \in Staff |-> IF note[m][s] = "none" THEN "none" ELSE "recalled"]]
  BY DEF Removes
<1>9. note' \in [Messages -> [Staff -> {"none", "text", "recalled"}]] BY <1>8 DEF Inv, Shape
<1>10. \A s \in Staff : note'[m][s] = IF note[m][s] = "none" THEN "none" ELSE "recalled"
  BY <1>8 DEF Inv, Shape
<1>11. \A i \in Messages \ {m} : note'[i] = note[i] BY <1>8 DEF Inv, Shape
<1>12. UNCHANGED <<reads, teaches, taught, active, fan, changes, faults>> BY DEF Removes
<1>13. late \subseteq late' /\ late' \subseteq Messages /\ (fan[m].pc \in Delivering => m \in late')
  BY DEF Removes, Inv, Bounded
<1>14. Bounded' BY <1>12, <1>13 DEF Inv, Bounded
<1>15. LateKnown' BY <1>3, <1>12, <1>13 DEF Inv, Shape, LateKnown
<1>16. RecallHides' BY <1>3, <1>10, <1>11, <1>13 DEF Inv, Shape, RecallHides
<1>17. \A i \in Messages, s \in Staff : note[i][s] # "none" <=> note'[i][s] # "none" BY <1>10, <1>11
<1>18. Tracks BY DEF Removes
<1>19. Shape' /\ Sent' /\ Apart' /\ MetCovers' /\ OwedCovers'
  BY <1>5, <1>6, <1>7, <1>9, <1>12, <1>14, <1>17, <1>18, TracksOK
<1> QED BY <1>12, <1>14, <1>15, <1>16, <1>17, <1>19 DEF Inv

\* Reading the thread, and what happens elsewhere.
LEMMA ElsewhereOK ==
  ASSUME Inv, Tracks, UNCHANGED <<message, note, fan, late>>, Bounded'
  PROVE  Inv'
<1>1. Shape' /\ Sent' /\ Apart' /\ MetCovers' /\ OwedCovers' BY TracksOK DEF Inv, Shape
<1>2. LateKnown' /\ RecallHides' BY DEF Inv, LateKnown, RecallHides
<1> QED BY <1>1, <1>2 DEF Inv

LEMMA MarksReadOK ==
  ASSUME Inv, NEW s \in Staff, MarksRead(s)
  PROVE  Inv' /\ UNCHANGED <<note, fan>>
  BY ElsewhereOK DEF MarksRead, Inv, Bounded

LEMMA SetsActiveOK ==
  ASSUME Inv, NEW s \in Staff, NEW on \in BOOLEAN, SetsActive(s, on)
  PROVE  Inv' /\ UNCHANGED <<note, fan>>
<1>1. Bounded' BY DEF SetsActive, Changes, Inv, Bounded
<1> QED BY <1>1, ElsewhereOK DEF SetsActive

LEMMA SetsTeachingOK ==
  ASSUME Inv, NEW now \in SUBSET Lecturers, NEW before \in SUBSET Lecturers, SetsTeaching(now, before)
  PROVE  Inv' /\ UNCHANGED <<note, fan>>
<1>1. Bounded' BY DEF SetsTeaching, Changes, Inv, Bounded
<1> QED BY <1>1, ElsewhereOK DEF SetsTeaching

-----------------------------------------------------------------------------
(* Every step.                                                             *)

\* What a step may say to whom, as an action.
Tells ==
  \A m \in Messages, s \in Staff : note[m][s] = "none" /\ note'[m][s] # "none" => s \in met[m]

Completes ==
  \A m \in Messages :
    fan[m].pc # "done" /\ fan'[m].pc = "done" /\ message[m].state = "sent" =>
      \A s \in owed[m] : note'[m][s] # "none"

LEMMA StutterOK ==
  ASSUME Inv, UNCHANGED vars
  PROVE  Inv' /\ Tells /\ Completes
<1> USE DEF Inv, vars
<1>1. Shape' /\ Sent' /\ Apart' BY DEF Shape, Sent, Apart
<1>2. Bounded' /\ LateKnown' /\ RecallHides' BY DEF Bounded, LateKnown, RecallHides
<1>3. InScope' = InScope /\ Participants' = Participants BY DEF InScope, Participants
<1>4. MetCovers' /\ OwedCovers' BY <1>3 DEF MetCovers, OwedCovers, Running
<1> QED BY <1>1, <1>2, <1>4 DEF Tells, Completes

LEMMA StepOK ==
  ASSUME Inv, [Next]_vars
  PROVE  Inv' /\ Tells /\ Completes
<1>1. CASE UNCHANGED vars BY <1>1, StutterOK
<1>2. ASSUME NEW m \in Messages, NEW s \in Writers, NEW says \in Mentions, Creates(s, m, says)
      PROVE  Inv' /\ Tells /\ Completes
  <2>1. Inv' BY <1>2, CreatesOK
  <2>2. UNCHANGED note /\ \A i \in Messages : fan'[i].pc = "done" => fan[i].pc = "done"
    BY <1>2 DEF Creates, Fan, Inv, Shape
  <2> QED BY <2>1, <2>2 DEF Tells, Completes
<1>3. ASSUME NEW m \in Messages, FindsPeople(m)
      PROVE  Inv' /\ Tells /\ Completes
  <2>1. Inv' BY <1>3, FindsPeopleOK
  <2>2. UNCHANGED note /\ \A i \in Messages : fan'[i].pc = "done" => fan[i].pc = "done"
    BY <1>3 DEF FindsPeople, Goes, Fan, Inv, Shape
  <2> QED BY <2>1, <2>2 DEF Tells, Completes
<1>4. ASSUME NEW m \in Messages, Filters(m)
      PROVE  Inv' /\ Tells /\ Completes
  <2>1. Inv' /\ (fan'[m].pc = "done" => owed[m] = {}) BY <1>4, FiltersOK
  <2>2. UNCHANGED note /\ \A i \in Messages \ {m} : fan'[i] = fan[i]
    BY <1>4 DEF Filters, Goes, Inv, Shape
  <2> QED BY <2>1, <2>2 DEF Tells, Completes
<1>5. ASSUME NEW m \in Messages, Looks(m)
      PROVE  Inv' /\ Tells /\ Completes
  <2>1. Inv' /\ (fan'[m].pc = "done" => message[m].state = "recalled") BY <1>5, LooksOK
  <2>2. UNCHANGED note /\ \A i \in Messages \ {m} : fan'[i] = fan[i]
    BY <1>5 DEF Looks, Goes, Inv, Shape
  <2> QED BY <2>1, <2>2 DEF Tells, Completes
<1>6. ASSUME NEW m \in Messages, Delivers(m)
      PROVE  Inv' /\ Tells /\ Completes
  <2>1. Inv' /\ Tells /\ (fan'[m].pc = "done" => \A s \in owed[m] : note'[m][s] # "none")
    BY <1>6, DeliversOK DEF Tells
  <2>2. \A i \in Messages \ {m} : fan'[i] = fan[i]
    BY <1>6 DEF Delivers, Goes, Inv, Shape
  <2> QED BY <2>1, <2>2 DEF Completes
<1>7. ASSUME NEW m \in Messages, Fails(m)
      PROVE  Inv' /\ Tells /\ Completes
  <2>1. Inv' /\ fan'[m].pc # "done" BY <1>7, FailsOK
  <2>2. UNCHANGED note /\ \A i \in Messages \ {m} : fan'[i] = fan[i]
    BY <1>7 DEF Fails, Goes, Inv, Shape
  <2> QED BY <2>1, <2>2 DEF Tells, Completes
<1>8. ASSUME NEW m \in Messages, Removes(m)
      PROVE  Inv' /\ Tells /\ Completes
  BY <1>8, RemovesOK DEF Tells, Completes
<1>9. ASSUME NEW s \in Staff, MarksRead(s) \/ \E on \in BOOLEAN : SetsActive(s, on)
      PROVE  Inv' /\ Tells /\ Completes
  BY <1>9, MarksReadOK, SetsActiveOK DEF Tells, Completes
<1>12. ASSUME NEW m \in Messages, FindsActive(m)
       PROVE  Inv' /\ Tells /\ Completes
  <2>1. Inv' /\ fan'[m].pc # "done" BY <1>12, FindsActiveOK
  <2>2. UNCHANGED note /\ \A i \in Messages \ {m} : fan'[i] = fan[i]
    BY <1>12 DEF FindsActive, Goes, Inv, Shape
  <2> QED BY <2>1, <2>2 DEF Tells, Completes
<1>10. ASSUME NEW now \in SUBSET Lecturers, SetsTeaching(now, taught)
       PROVE  Inv' /\ Tells /\ Completes
  <2>1. taught \in SUBSET Lecturers BY DEF Inv, Bounded
  <2> QED BY <1>10, <2>1, SetsTeachingOK DEF Tells, Completes
<1>11. ASSUME NEW k \in teaches, SetsTeaching(teaches \ {k}, taught \cup {k})
       PROVE  Inv' /\ Tells /\ Completes
  <2>1. teaches \ {k} \in SUBSET Lecturers /\ taught \cup {k} \in SUBSET Lecturers BY DEF Inv, Bounded
  <2> QED BY <1>11, <2>1, SetsTeachingOK DEF Tells, Completes
<1> QED
  BY <1>1, <1>2, <1>3, <1>4, <1>5, <1>6, <1>7, <1>8, <1>9, <1>10, <1>11, <1>12 DEF Next

-----------------------------------------------------------------------------
(* The theorems.                                                           *)

LEMMA InvTypes ==
  ASSUME Inv
  PROVE  TypeOK
<1>1. \A m \in Messages :
       /\ message[m].state \in {"none", "sent", "recalled"}
       /\ fan[m].pc \in {"none", "done", "failed"} \cup Looking \cup Delivering
  BY DEF Inv, Shape, MessageRecord, FanRecord, Running, Looking, Delivering
<1>2. \A m \in Messages : met[m] \subseteq awake[m] /\ awake[m] \subseteq Staff BY DEF Inv, Shape, MetCovers
<1> QED BY <1>1, <1>2 DEF Inv, Shape, Sent, Apart, Bounded, TypeOK

\* Every execution keeps the inductive invariant.
LEMMA Invariance == Spec => []Inv
<1>1. Init => Inv BY InitOK
<1>2. Inv /\ [Next]_vars => Inv' BY StepOK
<1> QED BY <1>1, <1>2, PTL DEF Spec

\* Messages, notifications and fan-outs keep their shape: an author is no recipient of
\* the own message, and nobody is both mentioned and a general recipient.
THEOREM TypeCorrect == Spec => []TypeOK
<1>1. Inv => TypeOK BY InvTypes
<1> QED BY <1>1, Invariance, PTL

\* A notification that still quotes a recalled message belongs to a message recalled
\* after the fan-out's last look at it.
THEOREM RecallIsHidden == Spec => []RecallHides
<1>1. Inv => RecallHides BY DEF Inv
<1> QED BY <1>1, Invariance, PTL

\* Whoever is told of a message was active at some time since it was sent and had the
\* student in scope then or later.
THEOREM OnlyScopeIsTold == Spec => ToldWereInScope
<1>1. Inv /\ [Next]_vars => [Tells]_vars BY StepOK
<1>2. [Tells]_vars => [\A m \in Messages, s \in Staff :
                         note[m][s] = "none" /\ note'[m][s] # "none" => s \in met[m]]_vars
  BY DEF Tells
<1> QED BY <1>1, <1>2, Invariance, PTL DEF Spec, ToldWereInScope

\* A fan-out that ends, for a message that stands, has told all who took part throughout.
THEOREM ParticipantsAreTold == Spec => ParticipantsTold
<1>1. Inv /\ [Next]_vars => [Completes]_vars BY StepOK
<1>2. [Completes]_vars => [\A m \in Messages :
         fan[m].pc # "done" /\ fan'[m].pc = "done" /\ message[m].state = "sent" =>
           \A s \in owed[m] : note'[m][s] # "none"]_vars
  BY DEF Completes
<1> QED BY <1>1, <1>2, Invariance, PTL DEF Spec, ParticipantsTold
=============================================================================
