--------------------------- MODULE AnalysisLedger ---------------------------
(***************************************************************************)
(* What the versions of one student's term analysis promise, without the   *)
(* queue, the requests and the workers: versions are opened one after the  *)
(* other, at most one is under way, a finished draft is either closed by   *)
(* its successor or sent, and a version counts as sent only once everyone  *)
(* it is addressed to has been told.                                       *)
(***************************************************************************)
EXTENDS Integers

CONSTANT Versions      \* the version numbers 1..n of the analysis

VARIABLES phase,       \* what has become of each version
          told         \* have all the addressees of the version been told?

vars == <<phase, told>>

Live == {"open", "draft", "sending"}
Phases == Live \cup {"none", "sent", "closed"}

Init == /\ phase = [v \in Versions |-> "none"]
        /\ told = [v \in Versions |-> FALSE]

\* The next version may be opened when nothing but a draft is under way, and
\* closes that draft.
Open(v) == /\ phase[v] = "none"
           /\ \A u \in Versions : u < v => phase[u] # "none"
           /\ \A u \in Versions : phase[u] \notin {"open", "sending"}
           /\ phase' = [u \in Versions |->
                          IF u = v THEN "open"
                          ELSE IF phase[u] = "draft" THEN "closed" ELSE phase[u]]
           /\ UNCHANGED told

Finish(v) == /\ phase[v] = "open"
             /\ \E result \in {"draft", "closed"} : phase' = [phase EXCEPT ![v] = result]
             /\ UNCHANGED told

\* Sending addresses the version anew: who has been told is up to the addressees.
Commit(v) == /\ phase[v] = "draft"
             /\ phase' = [phase EXCEPT ![v] = "sending"]
             /\ \E b \in BOOLEAN : told' = [told EXCEPT ![v] = b]

Tell(v) == /\ phase[v] \notin {"none", "open"}
           /\ told' = [told EXCEPT ![v] = TRUE]
           /\ UNCHANGED phase

Undo(v) == /\ phase[v] = "sending"
           /\ phase' = [phase EXCEPT ![v] = "draft"]
           /\ UNCHANGED told

Deliver(v) == /\ phase[v] = "sending" /\ told[v]
              /\ phase' = [phase EXCEPT ![v] = "sent"]
              /\ UNCHANGED told

Next == \E v \in Versions :
          Open(v) \/ Finish(v) \/ Commit(v) \/ Tell(v) \/ Undo(v) \/ Deliver(v)

Spec == Init /\ [][Next]_vars
=============================================================================
