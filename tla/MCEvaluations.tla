---------------------------- MODULE MCEvaluations ----------------------------
(* A lecturer and an administrator, two sections.                            *)
EXTENDS Evaluations, TLC

CONSTANTS an, binh, s1, s2

In(academic, attitude, absent) == [academic |-> academic, attitude |-> attitude, absent |-> absent]

MCInputs == {In(10, 4, 3), In(3, 9, 2), In(2, 3, 3), In(5, 10, None)}
MCOneInput == {In(10, 4, 3)}
MCTicked == {{}, {"P_DROPOUT_INTENT", "H_EXAM_BAN_RISK"}}
MCSymmetry == Permutations(Sections)
=============================================================================
