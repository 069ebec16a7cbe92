--------------------------- MODULE MCDiscussions ---------------------------
(* A lecturer of the student, the head of the department, and an officer. *)
EXTENDS Discussions

CONSTANTS an, binh, chi

MCMentions == {[all |-> FALSE, codes |-> {an}], [all |-> TRUE, codes |-> {}]}
=============================================================================
