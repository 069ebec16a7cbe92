------------------------- MODULE MCStudentAnalysis -------------------------
(* Small values for StudentAnalysis: the matrix addresses a lecturer at the  *)
(* low level and a training officer too at the high one.                     *)
EXTENDS StudentAnalysis, TLC

MCLevels == {2, 4}
MCLowLevel == {2}
MCMatrix == [l \in 1..4 |-> IF l = 4 THEN {"gv", "dt"} ELSE {"gv"}]
MCRiskFloor == [s \in Sources |-> 1]
MCForcedFloor == [o \in Outputs |-> IF o \in Edits THEN 4 ELSE 1]
\* Requests, workers, the analysis' own keys and the sources are interchangeable.
MCSymmetry == Permutations(Requests) \cup Permutations(Workers)
              \cup Permutations(Keys \ ForeignKeys) \cup Permutations(Sources)
=============================================================================
