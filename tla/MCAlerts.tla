------------------------------ MODULE MCAlerts ------------------------------
(* Small values for Alerts.                                                  *)
EXTENDS Alerts, TLC

MCSymmetry == Permutations(Requests)

MCRaise == {"raise", "review", "ack", "resolve", "delete", "send"}
MCCare == Ops \ {"ack", "send"}

\* Nothing reads what was announced, and no property of the run is about it.
MCCareView == <<alert, made, absent, exempt, lock, proc, blind, caseVars>>
=============================================================================
