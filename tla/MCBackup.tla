------------------------------ MODULE MCBackup ------------------------------
(* Backup with interchangeable tasks.                                        *)
EXTENDS Backup, TLC

TaskSymmetry == Permutations(Tasks)
=============================================================================
