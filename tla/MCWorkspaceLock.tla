-------------------------- MODULE MCWorkspaceLock --------------------------
(* Two run steps that write in one workspace.                              *)
EXTENDS WorkspaceLock, TLC

CONSTANTS a, b, stepA, stepB

StepsOfAttempts == a :> stepA @@ b :> stepB
=============================================================================
