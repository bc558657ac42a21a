--------------------------- MODULE MCApprovalWait ---------------------------
(* Small instances of ApprovalWait for TLC.                                *)
EXTENDS ApprovalWait, TLC

CONSTANTS u1, u2, u3, t1, t2, t3, role

\* Everybody is in a team of their own.
OwnTeam == u1 :> {t1} @@ u2 :> {t2} @@ u3 :> {t3}
\* Nobody is in a team.
NoTeams == u1 :> {} @@ u2 :> {} @@ u3 :> {}
=============================================================================
