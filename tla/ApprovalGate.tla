---------------------------- MODULE ApprovalGate ----------------------------
(***************************************************************************)
(* What an approval promises, whatever requests and tables implement it:   *)
(* people approve, and the work behind the gate passes only when enough    *)
(* different people did.  The gate may also be withdrawn, by cancelling    *)
(* the run or by handing the step to a human.                              *)
(***************************************************************************)
CONSTANTS Approvers,
          Quorums  \* the sets of people whose approval is enough

VARIABLES approvers, gate

Init == approvers = {} /\ gate = "held"

Approve(u) == approvers' = approvers \cup {u} /\ UNCHANGED gate

Pass == /\ approvers \in Quorums
        /\ gate' = "passed"
        /\ UNCHANGED approvers

Withdraw == gate' = "withdrawn" /\ UNCHANGED approvers

Next == Pass \/ Withdraw \/ \E u \in Approvers : Approve(u)

Spec == Init /\ [][Next]_<<approvers, gate>>
=============================================================================
