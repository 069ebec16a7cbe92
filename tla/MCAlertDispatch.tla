-------------------------- MODULE MCAlertDispatch --------------------------
(* Small values for AlertDispatch: a lecturer is told from level 1 on, the   *)
(* student affairs office from level 3 on.                                   *)
EXTENDS AlertDispatch, TLC

CONSTANTS lecturer, affairs

MCMinLevel == lecturer :> 1 @@ affairs :> 3
MCFaults == {"redis", "throw", "stall", "crash"}
=============================================================================
