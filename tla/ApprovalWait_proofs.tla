------------------------ MODULE ApprovalWait_proofs ------------------------
(***************************************************************************)
(* Proofs about ApprovalWait, for any policy, any people, any teams and    *)
(* any number of requests in flight.                                       *)
(***************************************************************************)
EXTENDS ApprovalWait, FiniteSetTheorems, TLAPS

\* What the promise needs: a person's requests do not overlap each other, and
\* nobody votes while the assignments are still being inserted.
Orderly == "repeat" \notin Faults /\ "early" \notin Faults

-----------------------------------------------------------------------------
(* Type correctness.                                                       *)

LEMMA RequiredType ==
    ASSUME NEW n \in Nat
    PROVE  Required(n) \in Nat
BY PolicyType DEF Required, OrOne

LEMMA AssignedFinite ==
    Cardinality(Assigned) \in Nat /\ Needed \in Nat
<1>1. IsFiniteSet(Assigned) /\ Cardinality(Targets) \in Nat
  BY TargetsType, FS_Subset, FS_CardinalityType DEF Assigned
<1>2. Cardinality(Assigned) \in Nat
  BY <1>1, FS_CardinalityType
<1> QED
  BY <1>1, <1>2, RequiredType DEF Needed

LEMMA IdleType == IdleRequest \in RequestsInFlight
BY DEF IdleRequest, RequestsInFlight, Dispositions, Votes

\* A request that goes on to another statement keeps its type.
LEMMA StepType ==
    ASSUME TypeOK, NEW q \in Requests, ~Idle(q),
           NEW pc \in {"settle", "recall", "object", "override", "withdraw"}
                       \cup Votes
    PROVE  [request[q] EXCEPT !.pc = pc] \in RequestsInFlight
BY DEF TypeOK, Idle, RequestsInFlight, Votes

LEMMA BeginOtherType ==
    ASSUME TypeOK, NEW q \in Requests, NEW u \in Approvers, NEW fault,
           NEW pc \in {"recall", "override"}, BeginOther(q, u, fault, pc)
    PROVE  TypeOK'
<1>1. [IdleRequest EXCEPT !.pc = pc, !.by = u] \in RequestsInFlight
  BY TargetsType DEF IdleRequest, RequestsInFlight, Dispositions
<1> QED
  BY <1>1 DEF BeginOther, TypeOK

LEMMA PendingBecomeType ==
    ASSUME TypeOK, NEW status \in {"APPROVED", "REQUEST_CHANGES", "CANCELLED"},
           PendingBecome(status)
    PROVE  assignment' \in [Targets -> {"ABSENT", "PENDING", "APPROVED",
                                        "REQUEST_CHANGES", "CANCELLED"}]
BY DEF TypeOK, PendingBecome

LEMMA TypeInit == Init => TypeOK
BY IdleType DEF Init, TypeOK

LEMMA TypeNext == TypeOK /\ [Next]_vars => TypeOK'
<1> SUFFICES ASSUME TypeOK, [Next]_vars PROVE TypeOK'
  OBVIOUS
<1>1. ASSUME NEW t \in Targets, InsertAssignment(t) PROVE TypeOK'
  BY <1>1 DEF InsertAssignment, TypeOK
<1>2. ASSUME NEW q \in Requests, Vote(q) PROVE TypeOK'
  <2>1. ASSUME NEW u \in Approvers, NEW d \in Dispositions, BeginVote(q, u, d)
        PROVE  TypeOK'
    <3>1. PICK target \in Targets \cup {None} :
            request' = [request EXCEPT ![q] =
              [pc |-> "vote", by |-> u, disposition |-> d, seen |-> decisions,
               target |-> target,
               needs |-> Required(Cardinality(Assigned))]]
      BY <2>1 DEF BeginVote, Pending
    <3>2. [pc |-> "vote", by |-> u, disposition |-> d, seen |-> decisions,
           target |-> target, needs |-> Required(Cardinality(Assigned))]
             \in RequestsInFlight
      BY AssignedFinite, RequiredType, TargetsType
         DEF RequestsInFlight, Votes, TypeOK
    <3> QED
      BY <2>1, <3>1, <3>2 DEF BeginVote, TypeOK
  <2>2. CASE InsertDecision(q)
    <3>1. request[q].by \in Approvers /\ request[q].disposition \in Dispositions
      BY <2>2 DEF InsertDecision, TypeOK, RequestsInFlight
    <3>2. decisions' \subseteq Decisions
      BY <2>2, <3>1 DEF InsertDecision, TypeOK, Decisions
    <3>3. [request[q] EXCEPT !.pc = "mark"] \in RequestsInFlight
      BY <2>2, StepType DEF InsertDecision, Idle, Votes
    <3> QED
      BY <2>2, <3>2, <3>3 DEF InsertDecision, TypeOK
  <2>3. CASE MarkAssignment(q)
    <3>1. [request[q] EXCEPT !.pc = "tally"] \in RequestsInFlight
      BY <2>3, StepType DEF MarkAssignment, Idle, Votes
    <3>2. Marked(q) \in [Targets -> {"ABSENT", "PENDING", "APPROVED",
                                     "REQUEST_CHANGES", "CANCELLED"}]
      BY DEF Marked, MarkOf, TypeOK, RequestsInFlight
    <3> QED
      BY <2>3, <3>1, <3>2 DEF MarkAssignment, TypeOK
  <2>4. CASE Tally(q)
    <3>1. [request[q] EXCEPT !.pc = "settle"] \in RequestsInFlight
      BY <2>4, StepType DEF Tally, Idle
    <3> QED
      BY <2>4, <3>1, IdleType DEF Tally, TypeOK
  <2>5. CASE SettleAssignments(q)
    BY <2>5, PendingBecomeType, IdleType DEF SettleAssignments, TypeOK
  <2> QED
    BY <1>2, <2>1, <2>2, <2>3, <2>4, <2>5 DEF Vote
<1>3. ASSUME NEW q \in Requests, SendBack(q) PROVE TypeOK'
  <2>1. ASSUME NEW u \in Approvers, BeginSendBack(q, u) PROVE TypeOK'
    BY <2>1, BeginOtherType DEF BeginSendBack
  <2>2. CASE RecallAssignments(q)
    <3>1. [request[q] EXCEPT !.pc = "object"] \in RequestsInFlight
      BY <2>2, StepType DEF RecallAssignments, Idle
    <3> QED
      BY <2>2, <3>1, PendingBecomeType DEF RecallAssignments, TypeOK
  <2>3. CASE InsertObjection(q)
    <3>1. request[q].by \in Approvers
      BY <2>3 DEF InsertObjection, TypeOK, RequestsInFlight
    <3>2. decisions' \subseteq Decisions
      BY <2>3, <3>1 DEF InsertObjection, TypeOK, Decisions, Dispositions
    <3> QED
      BY <2>3, <3>2, IdleType DEF InsertObjection, TypeOK
  <2> QED
    BY <1>3, <2>1, <2>2, <2>3 DEF SendBack
<1>4. ASSUME NEW q \in Requests, Delegate(q) PROVE TypeOK'
  <2>1. ASSUME NEW u \in Approvers, BeginDelegation(q, u) PROVE TypeOK'
    BY <2>1, BeginOtherType DEF BeginDelegation
  <2>2. CASE SupersedeWait(q)
    <3>1. [request[q] EXCEPT !.pc = "withdraw"] \in RequestsInFlight
      BY <2>2, StepType DEF SupersedeWait, Idle
    <3> QED
      BY <2>2, <3>1 DEF SupersedeWait, TypeOK
  <2>3. CASE WithdrawAssignments(q)
    BY <2>3, PendingBecomeType, IdleType DEF WithdrawAssignments, TypeOK
  <2> QED
    BY <1>4, <2>1, <2>2, <2>3 DEF Delegate
<1>5. ASSUME CancelWait PROVE TypeOK'
  BY <1>5 DEF CancelWait, TypeOK
<1>6. ASSUME ServerRestart PROVE TypeOK'
  BY <1>6, IdleType DEF ServerRestart, TypeOK
<1>7. CASE UNCHANGED vars
  BY <1>7 DEF vars, TypeOK
<1> QED
  BY <1>1, <1>2, <1>3, <1>4, <1>5, <1>6, <1>7 DEF Next

\* Every row and every request in flight has its type.
THEOREM TypeCorrect == Spec => []TypeOK
BY TypeInit, TypeNext, PTL DEF Spec

-----------------------------------------------------------------------------
(* The promise of the gate.                                                *)

\* A vote on its way: it was counted against all assignments, saw only
\* decisions that are still there, and its own approval is not among them.
VoteInFlight(q) ==
    /\ request[q].needs = Needed
    /\ request[q].seen \subseteq decisions
    /\ request[q].pc = "vote" =>
         \A d \in Approvals(decisions) : d.by # request[q].by
    /\ request[q].pc # "vote" /\ request[q].disposition = "APPROVE" =>
         [by |-> request[q].by, from |-> q, disposition |-> "APPROVE"]
            \in decisions \ request[q].seen

Counted ==
    /\ IsFiniteSet(decisions)
    /\ \A d, e \in Approvals(decisions) : d.by = e.by => d = e
    /\ \A p, q \in Requests :
         ~Idle(p) /\ ~Idle(q) /\ request[p].by = request[q].by => p = q
    /\ \A q \in Requests : request[q].pc \in Votes => VoteInFlight(q)

LEMMA CountedInit == Init => Counted
BY FS_EmptySet DEF Init, Counted, IdleRequest, Idle, Votes, Approvals

\* Nobody approves twice, so there are as many approvers as approvals.
LEMMA ApproversAreApprovals ==
    ASSUME Counted
    PROVE  /\ IsFiniteSet(Approvals(decisions))
           /\ IsFiniteSet(ApprovedBy)
           /\ Cardinality(ApprovedBy) = Cardinality(Approvals(decisions))
<1> DEFINE f == [d \in Approvals(decisions) |-> d.by]
<1>1. IsFiniteSet(Approvals(decisions))
  BY FS_Subset DEF Counted, Approvals
<1>2. f \in Surjection(Approvals(decisions), ApprovedBy)
  BY DEF Surjection, ApprovedBy
<1>3. f \in Injection(Approvals(decisions), ApprovedBy)
  BY <1>2 DEF Counted, Injection, Surjection, IsInjective
<1> QED
  BY <1>1, <1>2, <1>3, FS_Surjection

\* The votes a request saw and its own are all there, so a request that finds
\* the policy met is right, whatever was voted since it looked.
LEMMA AdvanceIsJustified ==
    ASSUME TypeOK, Counted, NEW q \in Requests, request[q].pc = "tally",
           ShouldAdvance(request[q])
    PROVE  Cardinality(ApprovedBy) >= Needed
<1> DEFINE own  == [by |-> request[q].by, from |-> q, disposition |-> "APPROVE"]
           seen == Approvals(request[q].seen)
<1>1. VoteInFlight(q) /\ request[q].disposition = "APPROVE"
  BY DEF Counted, ShouldAdvance, Votes
<1>2. own \in Approvals(decisions) /\ own \notin seen
  BY <1>1 DEF VoteInFlight, Approvals
<1>3. seen \cup {own} \subseteq Approvals(decisions)
  BY <1>1, <1>2 DEF VoteInFlight, Approvals
<1>4. IsFiniteSet(seen) /\ IsFiniteSet(Approvals(decisions))
  BY <1>3, ApproversAreApprovals, FS_Subset
<1>5. /\ Cardinality(seen) \in Nat
      /\ Cardinality(seen \cup {own}) = Cardinality(seen) + 1
  BY <1>2, <1>4, FS_AddElement, FS_CardinalityType
<1>6. Cardinality(seen \cup {own}) <= Cardinality(Approvals(decisions))
  BY <1>3, <1>4, FS_Subset
<1>7. Cardinality(seen) + 1 >= Needed
  BY <1>1 DEF VoteInFlight, ShouldAdvance
<1>8. Cardinality(Approvals(decisions)) \in Nat /\ Needed \in Nat
  BY <1>4, FS_CardinalityType, AssignedFinite
<1> QED
  BY <1>5, <1>6, <1>7, <1>8, ApproversAreApprovals

\* A request that writes only its own control point, and no decision.
LEMMA CountedMove ==
    ASSUME TypeOK, Counted, NEW q \in Requests, NEW pc, ~Idle(q),
           pc \in Votes => request[q].pc \in {"mark", "tally"} /\ pc = "tally",
           request' = [request EXCEPT ![q].pc = pc],
           decisions' = decisions
    PROVE  Counted'
<1>1. ASSUME NEW p \in Requests
      PROVE  /\ request'[p].by = request[p].by
             /\ request'[p].seen = request[p].seen
             /\ request'[p].needs = request[p].needs
             /\ request'[p].disposition = request[p].disposition
             /\ Idle(p) => request'[p].pc = "idle" \/ p = q
             /\ p # q => request'[p] = request[p]
  BY DEF TypeOK, RequestsInFlight, Idle
<1>2. ASSUME NEW p1 \in Requests, NEW p2 \in Requests,
             ~Idle(p1)', ~Idle(p2)', request'[p1].by = request'[p2].by
      PROVE  p1 = p2
  BY <1>1, <1>2 DEF Counted, Idle
<1>3. ASSUME NEW p \in Requests, request'[p].pc \in Votes
      PROVE  VoteInFlight(p)'
  <2>1. CASE p # q
    <3>1. request'[p] = request[p]
      BY <1>1, <2>1
    <3>2. VoteInFlight(p)
      BY <1>3, <3>1 DEF Counted
    <3> QED
      BY <3>1, <3>2 DEF VoteInFlight, Needed, Required, Approvals
  <2>2. CASE p = q
    <3>1. request'[q].pc = pc
      BY DEF TypeOK, RequestsInFlight
    <3>2. pc = "tally" /\ request[q].pc \in {"mark", "tally"}
      BY <1>3, <2>2, <3>1
    <3>3. VoteInFlight(q)
      BY <3>2 DEF Counted, Votes
    <3>4. /\ request'[q].by = request[q].by
          /\ request'[q].seen = request[q].seen
          /\ request'[q].needs = request[q].needs
          /\ request'[q].disposition = request[q].disposition
      BY <1>1
    <3>5. request[q].disposition = "APPROVE" =>
            [by |-> request[q].by, from |-> q, disposition |-> "APPROVE"]
               \in decisions \ request[q].seen
      BY <3>2, <3>3 DEF VoteInFlight
    <3> QED
      BY <2>2, <3>1, <3>2, <3>3, <3>4, <3>5
         DEF VoteInFlight, Needed, Required
  <2> QED
    BY <2>1, <2>2
<1> QED
  BY <1>2, <1>3 DEF Counted, Approvals

\* A request that ends, and changes no decision.
LEMMA CountedEnd ==
    ASSUME TypeOK, Counted, NEW q \in Requests,
           request' = [request EXCEPT ![q] = IdleRequest],
           decisions' = decisions
    PROVE  Counted'
<1>1. ASSUME NEW p \in Requests
      PROVE  request'[p] = IF p = q THEN IdleRequest ELSE request[p]
  BY DEF TypeOK
<1>2. request'[q].pc = "idle"
  BY <1>1 DEF IdleRequest
<1>3. ASSUME NEW p1 \in Requests, NEW p2 \in Requests,
             ~Idle(p1)', ~Idle(p2)', request'[p1].by = request'[p2].by
      PROVE  p1 = p2
  BY <1>1, <1>2, <1>3 DEF Counted, Idle
<1>4. ASSUME NEW p \in Requests, request'[p].pc \in Votes
      PROVE  VoteInFlight(p)'
  <2>1. p # q
    BY <1>2, <1>4 DEF Votes
  <2>2. request'[p] = request[p]
    BY <1>1, <2>1
  <2> QED
    BY <1>4, <2>2 DEF Counted, VoteInFlight, Approvals, Needed, Required
<1> QED
  BY <1>3, <1>4 DEF Counted, Approvals

\* A request about the wait that is not a vote begins.
LEMMA CountedOther ==
    ASSUME TypeOK, Counted, Orderly, NEW q \in Requests, NEW u \in Approvers,
           NEW fault, NEW pc \in {"recall", "override"},
           BeginOther(q, u, fault, pc)
    PROVE  Counted'
<1>1. ASSUME NEW p \in Requests
      PROVE  request'[p] = IF p = q THEN [IdleRequest EXCEPT !.pc = pc, !.by = u]
                           ELSE request[p]
  BY DEF TypeOK, BeginOther
<1>2. \A p \in Requests : request[p].by # u
  BY DEF BeginOther, Arrives, Orderly
<1>3. request'[q].pc \notin Votes /\ request'[q].by = u
  BY <1>1 DEF IdleRequest, Votes
<1>4. ASSUME NEW p1 \in Requests, NEW p2 \in Requests,
             ~Idle(p1)', ~Idle(p2)', request'[p1].by = request'[p2].by
      PROVE  p1 = p2
  BY <1>1, <1>2, <1>3, <1>4 DEF Counted, Idle
<1>5. ASSUME NEW p \in Requests, request'[p].pc \in Votes
      PROVE  VoteInFlight(p)'
  BY <1>1, <1>3, <1>5
     DEF BeginOther, Counted, VoteInFlight, Approvals, Needed, Required
<1> QED
  BY <1>4, <1>5 DEF BeginOther, Counted, Approvals

LEMMA CountedNext == TypeOK /\ Orderly /\ Counted /\ [Next]_vars => Counted'
<1> SUFFICES ASSUME TypeOK, Orderly, Counted, [Next]_vars PROVE Counted'
  OBVIOUS
<1>1. ASSUME UNCHANGED <<decisions, request>> PROVE Counted'
  BY <1>1 DEF Counted, VoteInFlight, Idle, Votes, Approvals, Needed, Required
<1>2. ASSUME NEW q \in Requests, NEW u \in Approvers, NEW d \in Dispositions,
             BeginVote(q, u, d)
      PROVE  Counted'
  <2>1. PICK target :
          request' = [request EXCEPT ![q] =
            [pc |-> "vote", by |-> u, disposition |-> d, seen |-> decisions,
             target |-> target, needs |-> Required(Cardinality(Assigned))]]
    BY <1>2 DEF BeginVote
  <2>2. /\ request'[q].pc = "vote" /\ request'[q].by = u
        /\ request'[q].seen = decisions
        /\ request'[q].needs = Required(Cardinality(Assigned))
    BY <2>1 DEF TypeOK
  <2>3. \A p \in Requests : p # q => request'[p] = request[p]
    BY <2>1 DEF TypeOK
  <2>4. Assigned = Targets /\ \A p \in Requests : request[p].by # u
    BY <1>2 DEF BeginVote, Arrives, Orderly, AllInserted, Assigned
  <2>5. decisions' = decisions /\ \A e \in Approvals(decisions) : e.by # u
    BY <1>2 DEF BeginVote, AlreadyVoted, Approvals
  <2>6. ASSUME NEW p1 \in Requests, NEW p2 \in Requests,
               ~Idle(p1)', ~Idle(p2)', request'[p1].by = request'[p2].by
        PROVE  p1 = p2
    BY <2>2, <2>3, <2>4, <2>6 DEF Counted, Idle
  <2>7. VoteInFlight(q)'
    BY <2>2, <2>4, <2>5 DEF VoteInFlight, Needed, Required, Approvals
  <2>8. ASSUME NEW p \in Requests, p # q, request'[p].pc \in Votes
        PROVE  VoteInFlight(p)'
    BY <2>3, <2>5, <2>8 DEF Counted, VoteInFlight, Approvals, Needed, Required
  <2> QED
    BY <2>5, <2>6, <2>7, <2>8 DEF Counted, Approvals
<1>3. ASSUME NEW q \in Requests, InsertDecision(q) PROVE Counted'
  <2> DEFINE new == [by |-> request[q].by, from |-> q,
                     disposition |-> request[q].disposition]
  <2>1. decisions' = decisions \cup {new} /\ request[q].pc = "vote"
    BY <1>3 DEF InsertDecision
  <2>2. VoteInFlight(q) /\ ~Idle(q)
    BY <2>1 DEF Counted, Votes, Idle
  <2>3. ASSUME NEW p \in Requests
        PROVE  /\ request'[p].by = request[p].by
               /\ request'[p].seen = request[p].seen
               /\ request'[p].needs = request[p].needs
               /\ request'[p].disposition = request[p].disposition
               /\ request'[p].pc = IF p = q THEN "mark" ELSE request[p].pc
    BY <1>3 DEF InsertDecision, TypeOK, RequestsInFlight
  <2>4. IsFiniteSet(decisions')
    BY <2>1, FS_AddElement DEF Counted
  <2>5. \A d, e \in Approvals(decisions)' : d.by = e.by => d = e
    BY <2>1, <2>2 DEF Counted, VoteInFlight, Approvals
  <2>6. ASSUME NEW p1 \in Requests, NEW p2 \in Requests,
               ~Idle(p1)', ~Idle(p2)', request'[p1].by = request'[p2].by
        PROVE  p1 = p2
    BY <2>2, <2>3, <2>6 DEF Counted, Idle
  <2>7. VoteInFlight(q)'
    <3>1. request[q].disposition = "APPROVE" => new \notin decisions
      BY <2>1, <2>2 DEF VoteInFlight, Approvals
    <3> QED
      BY <2>1, <2>2, <2>3, <3>1 DEF VoteInFlight, Needed, Required
  <2>8. ASSUME NEW p \in Requests, p # q, request'[p].pc \in Votes
        PROVE  VoteInFlight(p)'
    <3>1. VoteInFlight(p) /\ request[p].by # request[q].by
      BY <2>2, <2>3, <2>8 DEF Counted, Idle, Votes
    <3>2. request[p].pc = "vote" =>
            \A d \in Approvals(decisions)' : d.by # request[p].by
      BY <2>1, <3>1 DEF VoteInFlight, Approvals
    <3> QED
      BY <2>1, <2>3, <2>8, <3>1, <3>2 DEF VoteInFlight, Needed, Required
  <2> QED
    BY <2>4, <2>5, <2>6, <2>7, <2>8 DEF Counted
<1>4. ASSUME NEW q \in Requests, MarkAssignment(q) PROVE Counted'
  BY <1>4, CountedMove DEF MarkAssignment, Idle, Votes
<1>5. ASSUME NEW q \in Requests, Tally(q) PROVE Counted'
  BY <1>5, CountedMove, CountedEnd DEF Tally, Idle, Votes
<1>6. ASSUME NEW q \in Requests, SettleAssignments(q) PROVE Counted'
  BY <1>6, CountedEnd DEF SettleAssignments
<1>7. ASSUME NEW q \in Requests, NEW u \in Approvers, BeginSendBack(q, u)
      PROVE  Counted'
  BY <1>7, CountedOther DEF BeginSendBack
<1>8. ASSUME NEW q \in Requests, RecallAssignments(q) PROVE Counted'
  BY <1>8, CountedMove DEF RecallAssignments, Idle, Votes
<1>9. ASSUME NEW q \in Requests, InsertObjection(q) PROVE Counted'
  <2> DEFINE new == [by |-> request[q].by, from |-> q,
                     disposition |-> "REQUEST_CHANGES"]
  <2>1. decisions' = decisions \cup {new}
    BY <1>9 DEF InsertObjection
  <2>2. Approvals(decisions)' = Approvals(decisions)
    BY <2>1 DEF Approvals
  <2>3. IsFiniteSet(decisions')
    BY <2>1, FS_AddElement DEF Counted
  <2>4. ASSUME NEW p \in Requests
        PROVE  request'[p] = IF p = q THEN IdleRequest ELSE request[p]
    BY <1>9 DEF InsertObjection, TypeOK
  <2>5. request'[q].pc = "idle"
    BY <2>4 DEF IdleRequest
  <2>6. ASSUME NEW p1 \in Requests, NEW p2 \in Requests,
               ~Idle(p1)', ~Idle(p2)', request'[p1].by = request'[p2].by
        PROVE  p1 = p2
    BY <2>4, <2>5, <2>6 DEF Counted, Idle
  <2>7. ASSUME NEW p \in Requests, request'[p].pc \in Votes
        PROVE  VoteInFlight(p)'
    <3>1. p # q
      BY <2>5, <2>7 DEF Votes
    <3>2. request'[p] = request[p] /\ VoteInFlight(p)
      BY <2>4, <2>7, <3>1 DEF Counted
    <3> QED
      BY <2>1, <2>2, <3>2 DEF VoteInFlight, Needed, Required
  <2> QED
    BY <2>2, <2>3, <2>6, <2>7 DEF Counted
<1>10. ASSUME NEW q \in Requests, NEW u \in Approvers, BeginDelegation(q, u)
       PROVE  Counted'
  BY <1>10, CountedOther DEF BeginDelegation
<1>11. ASSUME NEW q \in Requests, SupersedeWait(q) PROVE Counted'
  BY <1>11, CountedMove DEF SupersedeWait, Idle, Votes
<1>12. ASSUME NEW q \in Requests, WithdrawAssignments(q) PROVE Counted'
  BY <1>12, CountedEnd DEF WithdrawAssignments
<1>13. ASSUME ServerRestart PROVE Counted'
  <2>1. decisions' = decisions /\ \A q \in Requests : request'[q].pc = "idle"
    BY <1>13 DEF ServerRestart, IdleRequest
  <2> QED
    BY <2>1 DEF Counted, Idle, Votes, Approvals
<1> QED
  <2>1. CASE \E t \in Targets : InsertAssignment(t)
    BY <1>1, <2>1 DEF InsertAssignment
  <2>2. CASE CancelWait
    BY <1>1, <2>2 DEF CancelWait
  <2>3. CASE UNCHANGED vars
    BY <1>1, <2>3 DEF vars
  <2>4. CASE \E q \in Requests : Vote(q)
    BY <1>2, <1>3, <1>4, <1>5, <1>6, <2>4 DEF Vote
  <2>5. CASE \E q \in Requests : SendBack(q)
    BY <1>7, <1>8, <1>9, <2>5 DEF SendBack
  <2>6. CASE \E q \in Requests : Delegate(q)
    BY <1>10, <1>11, <1>12, <2>6 DEF Delegate
  <2> QED
    BY <1>13, <2>1, <2>2, <2>3, <2>4, <2>5, <2>6 DEF Next

\* Decisions are never deleted.
LEMMA DecisionsStay == Next => decisions \subseteq decisions'
BY DEF Next, Vote, SendBack, Delegate, InsertAssignment, BeginVote,
       InsertDecision, MarkAssignment, Tally, SettleAssignments, BeginSendBack,
       BeginOther, RecallAssignments, InsertObjection, BeginDelegation,
       SupersedeWait, WithdrawAssignments, CancelWait, ServerRestart

\* Only the insertion of a vote changes the approvals.
LEMMA ApprovalsMove ==
    ASSUME Next
    PROVE  \/ UNCHANGED Approvals(decisions)
           \/ \E q \in Requests : InsertDecision(q)
<1>1. ASSUME NEW q \in Requests, InsertObjection(q)
      PROVE  UNCHANGED Approvals(decisions)
  BY <1>1 DEF InsertObjection, Approvals
<1>2. \/ UNCHANGED decisions
      \/ \E q \in Requests : InsertDecision(q) \/ InsertObjection(q)
  BY DEF Next, Vote, SendBack, Delegate, InsertAssignment, BeginVote,
         MarkAssignment, Tally, SettleAssignments, BeginSendBack, BeginOther,
         RecallAssignments, BeginDelegation, SupersedeWait,
         WithdrawAssignments, CancelWait, ServerRestart
<1> QED
  BY <1>1, <1>2 DEF Approvals

\* What a step does to the wait's row, seen from the promise.
LEMMA WaitMoves ==
    ASSUME TypeOK, Orderly, Counted, Next
    PROVE  \/ UNCHANGED wait
           \/ /\ wait' = [status |-> "RESOLVED", resolution |-> "approval"]
              /\ Cardinality(ApprovedBy) >= Needed
              /\ UNCHANGED decisions
           \/ /\ ~PassedByApproval' /\ wait'.status # "OPEN"
              /\ UNCHANGED decisions
<1>1. ASSUME NEW q \in Requests, Tally(q), ~UNCHANGED wait
      PROVE  /\ wait' = [status |-> "RESOLVED", resolution |-> "approval"]
             /\ Cardinality(ApprovedBy) >= Needed
             /\ UNCHANGED decisions
  BY <1>1, AdvanceIsJustified DEF Tally
<1>2. ASSUME NEW q \in Requests, SupersedeWait(q)
      PROVE  ~PassedByApproval' /\ wait'.status # "OPEN" /\ UNCHANGED decisions
  BY <1>2 DEF SupersedeWait, PassedByApproval
<1>3. ASSUME CancelWait
      PROVE  ~PassedByApproval' /\ wait'.status # "OPEN" /\ UNCHANGED decisions
  BY <1>3 DEF CancelWait, PassedByApproval, TypeOK
<1>4. \/ UNCHANGED wait
      \/ \E q \in Requests : Tally(q) \/ SupersedeWait(q)
      \/ CancelWait
  BY DEF Next, Vote, SendBack, Delegate, InsertAssignment, BeginVote,
         InsertDecision, MarkAssignment, SettleAssignments, BeginSendBack,
         BeginOther, RecallAssignments, InsertObjection, BeginDelegation,
         WithdrawAssignments, ServerRestart
<1> QED
  BY <1>1, <1>2, <1>3, <1>4

LEMMA PolicyNext ==
    ASSUME Orderly, TypeOK, Counted, EnoughApprovers, [Next]_vars
    PROVE  EnoughApprovers'
<1>1. CASE UNCHANGED vars
  <2>1. UNCHANGED PassedByApproval /\ UNCHANGED ApprovedBy
    BY <1>1 DEF vars, PassedByApproval, ApprovedBy, Approvals
  <2> QED
    BY <2>1 DEF EnoughApprovers, Needed, Required
<1>2. CASE Next
  <2>1. Counted'
    BY <1>2, CountedNext
  <2>2. IsFiniteSet(ApprovedBy')
    <3>1. IsFiniteSet(decisions') BY <2>1 DEF Counted
    <3>2. IsFiniteSet(Approvals(decisions)')
      BY <3>1, FS_Subset DEF Approvals
    <3> DEFINE f == [d \in Approvals(decisions)' |-> d.by]
    <3>3. f \in Surjection(Approvals(decisions)', ApprovedBy')
      BY DEF Surjection, ApprovedBy
    <3> QED
      BY <3>2, <3>3, FS_Surjection
  <2>3. ApprovedBy \subseteq ApprovedBy'
    BY <1>2, DecisionsStay DEF ApprovedBy, Approvals
  <2>4. /\ Cardinality(ApprovedBy) \in Nat /\ Cardinality(ApprovedBy') \in Nat
        /\ Cardinality(ApprovedBy) <= Cardinality(ApprovedBy')
    BY <2>2, <2>3, FS_Subset, FS_CardinalityType
  <2>5. Needed \in Nat /\ Needed' = Needed
    BY AssignedFinite DEF Needed, Required
  <2>6. ASSUME PassedByApproval' PROVE Cardinality(ApprovedBy) >= Needed
    <3>1. CASE UNCHANGED wait
      BY <2>6, <3>1 DEF PassedByApproval, EnoughApprovers
    <3>2. CASE wait' # wait
      BY <1>2, <2>6, <3>2, WaitMoves
    <3> QED
      BY <3>1, <3>2
  <2> QED
    BY <2>4, <2>5, <2>6 DEF EnoughApprovers
<1> QED
  BY <1>1, <1>2

\* A wait that let its run go on had as many different approvers as its policy
\* asks for, however votes, send-backs, delegations, cancellations and server
\* restarts overlapped.
THEOREM PolicyIsMet ==
    ASSUME Orderly
    PROVE  Spec => []EnoughApprovers
<1>1. Init => EnoughApprovers
  BY DEF Init, EnoughApprovers, PassedByApproval
<1>2. TypeOK /\ Counted /\ EnoughApprovers /\ [Next]_vars
        => (TypeOK /\ Counted /\ EnoughApprovers)'
  BY TypeNext, CountedNext, PolicyNext
<1> QED
  BY <1>1, <1>2, TypeInit, CountedInit, PTL DEF Spec
\* Every behaviour of the wait is a behaviour of the gate.
THEOREM WaitImplementsGate ==
    ASSUME Orderly
    PROVE  Spec => ImplementsGate
<1>1. Init => Gate!Init
  BY DEF Init, Gate!Init, ApprovedBy, Approvals, GateState
<1>2. ASSUME TypeOK, Counted, [Next]_vars
      PROVE  Gate!Next \/ UNCHANGED <<ApprovedBy, GateState>>
  <2>1. CASE UNCHANGED vars
    BY <2>1 DEF vars, ApprovedBy, Approvals, GateState, PassedByApproval
  <2>2. CASE Next /\ UNCHANGED wait
    <3>1. UNCHANGED GateState
      BY <2>2 DEF GateState, PassedByApproval
    <3>2. CASE UNCHANGED Approvals(decisions)
      BY <3>1, <3>2 DEF ApprovedBy
    <3>3. CASE \E q \in Requests : InsertDecision(q)
      <4>1. PICK q \in Requests : InsertDecision(q)
        BY <3>3
      <4>2. request[q].by \in Approvers
        BY <1>2, <4>1 DEF InsertDecision, TypeOK, RequestsInFlight, Votes
      <4>3. \/ ApprovedBy' = ApprovedBy
            \/ ApprovedBy' = ApprovedBy \cup {request[q].by}
        BY <4>1 DEF InsertDecision, ApprovedBy, Approvals
      <4> QED
        BY <3>1, <4>2, <4>3 DEF Gate!Next, Gate!Approve, GateState
    <3> QED
      BY <2>2, <3>2, <3>3, ApprovalsMove
  <2>3. CASE Next /\ wait' # wait
    <3>1. UNCHANGED decisions
      BY <1>2, <2>3, WaitMoves
    <3>2. UNCHANGED ApprovedBy
      BY <3>1 DEF ApprovedBy, Approvals
    <3>3. \/ GateState' = "passed" /\ Cardinality(ApprovedBy) >= Needed
          \/ GateState' = "withdrawn"
      BY <1>2, <2>3, WaitMoves DEF GateState, PassedByApproval
    <3>4. ApprovedBy \subseteq Approvers
      BY <1>2 DEF TypeOK, Decisions, ApprovedBy, Approvals
    <3> QED
      BY <3>2, <3>3, <3>4 DEF Gate!Next, Gate!Pass, Gate!Withdraw, Quorums
  <2> QED
    BY <1>2, <2>1, <2>2, <2>3
<1> QED
  BY <1>1, <1>2, TypeInit, TypeNext, CountedInit, CountedNext, PTL
     DEF Spec, ImplementsGate, Gate!Spec, GateState

-----------------------------------------------------------------------------
(* Marks follow votes.                                                     *)

\* A request that is to mark an assignment has voted, and is assigned to it; one
\* that closes the remaining assignments has ended the wait.
MarkSound(q) ==
    /\ request[q].pc \in {"vote", "mark"} /\ request[q].target # None =>
         Answers(request[q].by, request[q].target)
    /\ request[q].pc = "mark" =>
         [by |-> request[q].by, from |-> q, disposition |-> request[q].disposition]
            \in decisions
    /\ request[q].pc \in {"settle", "withdraw"} => wait.status # "OPEN"
MarkInv == MarksFollowVotes /\ \A q \in Requests : MarkSound(q)

LEMMA OneMoves ==
    ASSUME TypeOK, NEW q \in Requests, NEW r, request' = [request EXCEPT ![q] = r]
    PROVE  request'[q] = r /\ \A p \in Requests : p # q => request'[p] = request[p]
BY DEF TypeOK

\* A request that goes on to another statement keeps what it has read.
LEMMA GoesOn ==
    ASSUME TypeOK, NEW q \in Requests, NEW pc, request' = [request EXCEPT ![q].pc = pc]
    PROVE  /\ request'[q].pc = pc
           /\ request'[q].by = request[q].by /\ request'[q].target = request[q].target
           /\ request'[q].disposition = request[q].disposition
           /\ request'[q].seen = request[q].seen /\ request'[q].needs = request[q].needs
           /\ \A p \in Requests : p # q => request'[p] = request[p]
BY DEF TypeOK, RequestsInFlight

LEMMA IsDone ==
    ASSUME TypeOK, NEW q \in Requests, request' = [request EXCEPT ![q] = IdleRequest]
    PROVE  request'[q].pc = "idle" /\ \A p \in Requests : p # q => request'[p] = request[p]
<1>1. request'[q] = IdleRequest /\ \A p \in Requests : p # q => request'[p] = request[p]
  BY OneMoves
<1> QED
  BY <1>1 DEF IdleRequest

\* A wait that has ended is not opened again.
LEMMA WaitStaysEnded == Next /\ wait'.status = "OPEN" => wait.status = "OPEN"
<1>1. \/ UNCHANGED wait
      \/ \E q \in Requests : Tally(q) \/ SupersedeWait(q)
      \/ CancelWait \/ ~Next
  BY DEF Next, Vote, SendBack, Delegate, InsertAssignment, BeginVote,
         InsertDecision, MarkAssignment, SettleAssignments, BeginSendBack,
         BeginOther, RecallAssignments, InsertObjection, BeginDelegation,
         WithdrawAssignments, ServerRestart
<1>2. ASSUME NEW q \in Requests, Tally(q) \/ SupersedeWait(q), ~UNCHANGED wait
      PROVE  wait'.status # "OPEN"
  BY <1>2 DEF Tally, SupersedeWait
<1>3. CancelWait => wait.status = "OPEN"
  BY DEF CancelWait
<1> QED
  BY <1>1, <1>2, <1>3

\* What no request relies on moving can only be helped by a step.
LEMMA OthersMarkSound ==
    ASSUME Next, NEW p \in Requests, request'[p] = request[p], MarkSound(p)
    PROVE  MarkSound(p)'
BY DecisionsStay, WaitStaysEnded DEF MarkSound, Answers

LEMMA MarksStay ==
    ASSUME Next, MarksFollowVotes, assignment' = assignment
    PROVE  MarksFollowVotes'
<1>1. \A d \in Approvals(decisions) : d \in Approvals(decisions')
  BY DecisionsStay DEF Approvals
<1>2. wait'.status = "OPEN" => wait.status = "OPEN"
  BY WaitStaysEnded
<1>3. wait'.status = "OPEN" =>
        \A t \in Targets : assignment'[t] = "APPROVED" =>
          \E d \in Approvals(decisions') : Answers(d.by, t)
  BY <1>1, <1>2 DEF MarksFollowVotes
<1> QED
  BY <1>3 DEF MarksFollowVotes, Answers, Approvals

LEMMA MarksClosed ==
    ASSUME Next, MarksFollowVotes, NEW status, PendingBecome(status),
           status # "APPROVED" \/ wait'.status # "OPEN"
    PROVE  MarksFollowVotes'
<1>1. \A d \in Approvals(decisions) : d \in Approvals(decisions')
  BY DecisionsStay DEF Approvals
<1>2. wait'.status = "OPEN" => wait.status = "OPEN"
  BY WaitStaysEnded
<1>3. wait'.status = "OPEN" =>
        \A t \in Targets : assignment'[t] = "APPROVED" => assignment[t] = "APPROVED"
  BY DEF PendingBecome
<1>4. wait'.status = "OPEN" =>
        \A t \in Targets : assignment'[t] = "APPROVED" =>
          \E d \in Approvals(decisions') : Answers(d.by, t)
  BY <1>1, <1>2, <1>3 DEF MarksFollowVotes
<1> QED
  BY <1>4 DEF MarksFollowVotes, Answers, Approvals

LEMMA MarkInvNext == TypeOK /\ MarkInv /\ [Next]_vars => MarkInv'
<1> SUFFICES ASSUME TypeOK, MarkInv, [Next]_vars PROVE MarkInv'
  OBVIOUS
<1>0. MarksFollowVotes /\ \A q \in Requests : MarkSound(q)
  BY DEF MarkInv
<1>1. CASE UNCHANGED vars
  BY <1>1 DEF vars, MarkInv, MarkSound, MarksFollowVotes, Approvals, Answers
<1>2. ASSUME NEW q \in Requests, Next, MarkSound(q)', MarksFollowVotes',
             \A p \in Requests : p # q => request'[p] = request[p]
      PROVE  MarkInv'
  <2>1. ASSUME NEW p \in Requests PROVE MarkSound(p)'
    BY <1>0, <1>2, <2>1, OthersMarkSound
  <2> QED
    BY <1>2, <2>1 DEF MarkInv
<1>3. ASSUME Next, request' = request, MarksFollowVotes' PROVE MarkInv'
  <2>1. ASSUME NEW p \in Requests PROVE MarkSound(p)'
    BY <1>0, <1>3, <2>1, OthersMarkSound
  <2> QED
    BY <1>3, <2>1 DEF MarkInv
<1>4. ASSUME NEW q \in Requests, Next, assignment' = assignment,
             \A p \in Requests : p # q => request'[p] = request[p],
             request'[q].pc \notin {"vote", "mark"},
             request'[q].pc \in {"settle", "withdraw"} => wait'.status # "OPEN"
      PROVE  MarkInv'
  BY <1>0, <1>2, <1>4, MarksStay DEF MarkSound
<1>5. ASSUME NEW q \in Requests, Vote(q), Next PROVE MarkInv'
  <2>1. ASSUME NEW u \in Approvers, NEW d \in Dispositions, BeginVote(q, u, d)
        PROVE  MarkInv'
    <3> DEFINE own == {t \in Pending : Answers(u, t)}
    <3>1. PICK target \in IF own = {} THEN {None} ELSE own :
            request' = [request EXCEPT ![q] =
              [pc |-> "vote", by |-> u, disposition |-> d, seen |-> decisions,
               target |-> target, needs |-> Required(Cardinality(Assigned))]]
      BY <2>1 DEF BeginVote
    <3>2. target # None => Answers(u, target)
      BY <3>1
    <3> DEFINE r == [pc |-> "vote", by |-> u, disposition |-> d, seen |-> decisions,
                     target |-> target, needs |-> Required(Cardinality(Assigned))]
    <3>a. request' = [request EXCEPT ![q] = r]
      BY <3>1
    <3>b. r.pc = "vote" /\ r.by = u /\ r.target = target
      OBVIOUS
    <3> HIDE DEF own, r
    <3>3. /\ request'[q].pc = "vote" /\ request'[q].by = u /\ request'[q].target = target
          /\ \A p \in Requests : p # q => request'[p] = request[p]
      BY <3>a, <3>b, OneMoves
    <3>4. MarkSound(q)'
      BY <3>2, <3>3 DEF MarkSound, Answers
    <3>5. MarksFollowVotes'
      BY <1>0, <1>5, <2>1, MarksStay DEF BeginVote
    <3> QED
      BY <1>2, <1>5, <3>3, <3>4, <3>5
  <2>2. CASE InsertDecision(q)
    <3>1. /\ request[q].pc = "vote" /\ assignment' = assignment
          /\ [by |-> request[q].by, from |-> q,
              disposition |-> request[q].disposition] \in decisions'
      BY <2>2 DEF InsertDecision
    <3>2. /\ request'[q].pc = "mark"
          /\ request'[q].by = request[q].by /\ request'[q].target = request[q].target
          /\ request'[q].disposition = request[q].disposition
          /\ \A p \in Requests : p # q => request'[p] = request[p]
      BY <2>2, GoesOn DEF InsertDecision
    <3>3. request[q].target # None => Answers(request[q].by, request[q].target)
      BY <1>0, <3>1 DEF MarkSound
    <3>4. MarkSound(q)'
      BY <3>1, <3>2, <3>3 DEF MarkSound, Answers
    <3> QED
      BY <1>0, <1>2, <1>5, <3>1, <3>2, <3>4, MarksStay
  <2>3. CASE MarkAssignment(q)
    <3>1. /\ request[q].pc = "mark" /\ assignment' = Marked(q)
          /\ wait' = wait /\ decisions' = decisions
      BY <2>3 DEF MarkAssignment
    <3>2. /\ request'[q].pc = "tally"
          /\ \A p \in Requests : p # q => request'[p] = request[p]
      BY <2>3, GoesOn DEF MarkAssignment
    <3>3. /\ request[q].target # None => Answers(request[q].by, request[q].target)
          /\ [by |-> request[q].by, from |-> q,
              disposition |-> request[q].disposition] \in decisions
      BY <1>0, <3>1 DEF MarkSound
    <3>4. ASSUME NEW t \in Targets, wait.status = "OPEN", assignment'[t] = "APPROVED"
          PROVE  \E d \in Approvals(decisions) : Answers(d.by, t)
      <4>1. CASE request[q].target = t
        <5>1. t # None /\ assignment'[t] = MarkOf(request[q].disposition)
          BY <3>1, <4>1, TargetsType DEF Marked, TypeOK
        <5>2. request[q].disposition = "APPROVE"
          BY <3>4, <5>1 DEF MarkOf
        <5> QED
          BY <3>3, <4>1, <5>1, <5>2 DEF Approvals
      <4>2. CASE request[q].target # t
        <5>1. assignment'[t] = assignment[t]
          BY <3>1, <4>2 DEF Marked, TypeOK
        <5> QED
          BY <1>0, <3>4, <5>1 DEF MarksFollowVotes
      <4> QED
        BY <4>1, <4>2
    <3>5. MarksFollowVotes'
      BY <3>1, <3>4 DEF MarksFollowVotes, Approvals, Answers
    <3>6. MarkSound(q)'
      BY <3>2 DEF MarkSound
    <3> QED
      BY <1>2, <1>5, <3>2, <3>5, <3>6
  <2>4. CASE Tally(q)
    <3>1. CASE request' = [request EXCEPT ![q] = IdleRequest]
      BY <1>4, <1>5, <2>4, <3>1, IsDone DEF Tally
    <3>2. CASE request' = [request EXCEPT ![q].pc = "settle"]
                 /\ wait' = [status |-> "RESOLVED", resolution |-> "approval"]
      BY <1>4, <1>5, <2>4, <3>2, GoesOn DEF Tally
    <3> QED
      BY <2>4, <3>1, <3>2 DEF Tally
  <2>5. CASE SettleAssignments(q)
    <3>1. request[q].pc = "settle" /\ PendingBecome("APPROVED") /\ wait' = wait
      BY <2>5 DEF SettleAssignments
    <3>2. wait'.status # "OPEN"
      BY <1>0, <3>1 DEF MarkSound
    <3>3. MarksFollowVotes'
      BY <1>0, <1>5, <3>1, <3>2, MarksClosed
    <3>4. /\ request'[q].pc = "idle"
          /\ \A p \in Requests : p # q => request'[p] = request[p]
      BY <2>5, IsDone DEF SettleAssignments
    <3>5. MarkSound(q)'
      BY <3>4 DEF MarkSound
    <3> QED
      BY <1>2, <1>5, <3>3, <3>4, <3>5
  <2> QED
    BY <1>5, <2>1, <2>2, <2>3, <2>4, <2>5 DEF Vote
<1>6. ASSUME NEW q \in Requests, NEW u, NEW fault, NEW pc \in {"recall", "override"}, Next,
             BeginOther(q, u, fault, pc)
      PROVE  MarkInv'
  <2> DEFINE r == [IdleRequest EXCEPT !.pc = pc, !.by = u]
  <2>1. request' = [request EXCEPT ![q] = r] /\ assignment' = assignment
    BY <1>6 DEF BeginOther
  <2>2. r.pc = pc
    BY DEF IdleRequest
  <2> HIDE DEF r
  <2>3. /\ request'[q].pc = pc
        /\ \A p \in Requests : p # q => request'[p] = request[p]
    BY <2>1, <2>2, OneMoves
  <2> QED
    BY <1>4, <1>6, <2>1, <2>3
<1>7. ASSUME NEW q \in Requests, SendBack(q), Next PROVE MarkInv'
  <2>1. CASE RecallAssignments(q)
    <3>1. MarksFollowVotes'
      BY <1>0, <1>7, <2>1, MarksClosed DEF RecallAssignments
    <3>2. /\ request'[q].pc = "object"
          /\ \A p \in Requests : p # q => request'[p] = request[p]
      BY <2>1, GoesOn DEF RecallAssignments
    <3>3. MarkSound(q)'
      BY <3>2 DEF MarkSound
    <3> QED
      BY <1>2, <1>7, <3>1, <3>2, <3>3
  <2>2. CASE InsertObjection(q)
    <3>1. /\ request'[q].pc = "idle" /\ assignment' = assignment
          /\ \A p \in Requests : p # q => request'[p] = request[p]
      BY <2>2, IsDone DEF InsertObjection
    <3> QED
      BY <1>4, <1>7, <3>1
  <2> QED
    BY <1>6, <1>7, <2>1, <2>2 DEF SendBack, BeginSendBack
<1>8. ASSUME NEW q \in Requests, Delegate(q), Next PROVE MarkInv'
  <2>1. CASE SupersedeWait(q)
    <3>1. /\ request'[q].pc = "withdraw" /\ assignment' = assignment
          /\ wait'.status # "OPEN"
          /\ \A p \in Requests : p # q => request'[p] = request[p]
      BY <2>1, GoesOn DEF SupersedeWait
    <3> QED
      BY <1>4, <1>8, <3>1
  <2>2. CASE WithdrawAssignments(q)
    <3>1. MarksFollowVotes'
      BY <1>0, <1>8, <2>2, MarksClosed DEF WithdrawAssignments
    <3>2. /\ request'[q].pc = "idle"
          /\ \A p \in Requests : p # q => request'[p] = request[p]
      BY <2>2, IsDone DEF WithdrawAssignments
    <3>3. MarkSound(q)'
      BY <3>2 DEF MarkSound
    <3> QED
      BY <1>2, <1>8, <3>1, <3>2, <3>3
  <2> QED
    BY <1>6, <1>8, <2>1, <2>2 DEF Delegate, BeginDelegation
<1>9. ASSUME NEW t \in Targets, InsertAssignment(t), Next PROVE MarkInv'
  <2>1. /\ \A x \in Targets : assignment'[x] = "APPROVED" => assignment[x] = "APPROVED"
        /\ wait' = wait /\ decisions' = decisions /\ request' = request
    BY <1>9 DEF InsertAssignment, TypeOK
  <2>2. MarksFollowVotes'
    BY <1>0, <2>1 DEF MarksFollowVotes, Approvals, Answers
  <2> QED
    BY <1>3, <1>9, <2>1, <2>2
<1>10. ASSUME CancelWait, Next PROVE MarkInv'
  BY <1>0, <1>3, <1>10, MarksStay DEF CancelWait
<1>11. ASSUME ServerRestart, Next PROVE MarkInv'
  <2>1. \A p \in Requests : MarkSound(p)'
    BY <1>11 DEF ServerRestart, MarkSound, IdleRequest
  <2>2. MarksFollowVotes'
    BY <1>0, <1>11, MarksStay DEF ServerRestart
  <2> QED
    BY <2>1, <2>2 DEF MarkInv
<1> QED
  BY <1>1, <1>5, <1>7, <1>8, <1>9, <1>10, <1>11 DEF Next

\* Whatever is allowed to happen, nobody is shown as having approved on an open
\* wait without an approval of one of the people the assignment is for.
THEOREM VotesBehindMarks == Spec => []MarksFollowVotes
<1>1. Init => MarkInv
  BY DEF Init, MarkInv, MarkSound, MarksFollowVotes, IdleRequest
<1>2. MarkInv => MarksFollowVotes
  BY DEF MarkInv
<1> QED
  BY <1>1, <1>2, TypeInit, TypeNext, MarkInvNext, PTL DEF Spec

-----------------------------------------------------------------------------
(* Requests in turn.                                                       *)

\* Requests of different people come one after another, and none is lost.
InTurn == {"overlap", "early", "server"} \cap Faults = {}

\* A vote on its way saw all decisions but its own.
VoteAlone(q) ==
    /\ request[q].needs = Needed
    /\ request[q].pc = "vote" => request[q].seen = decisions
    /\ request[q].pc \in {"mark", "tally"} =>
         decisions = request[q].seen \cup
           {[by |-> request[q].by, from |-> q, disposition |-> request[q].disposition]}
Short == wait.status = "OPEN" /\ (\A q \in Requests : Idle(q)) /\ ~ChangesRequested =>
           Cardinality(ApprovedBy) < Needed
TurnInv ==
    /\ IsFiniteSet(decisions)
    /\ \A p, q \in Requests : ~Idle(p) /\ ~Idle(q) => p = q
    /\ \A q \in Requests : request[q].pc \in Votes => VoteAlone(q)
    /\ \A q \in Requests : ~Idle(q) => AllInserted
    /\ Short

\* Every policy asks for somebody's approval.
LEMMA NeededPositive == Needed \in Nat \ {0}
<1>1. Cardinality(Targets) \in Nat
  BY TargetsType, FS_CardinalityType
<1>2. ASSUME NEW n \in Nat PROVE Required(n) # 0
  BY <1>2, PolicyType DEF Required, OrOne
<1> QED
  BY <1>1, <1>2, RequiredType DEF Needed

LEMMA InsertedStays == Next /\ AllInserted => AllInserted'
<1> SUFFICES ASSUME Next, AllInserted PROVE \A t \in Targets : assignment'[t] # "ABSENT"
  BY DEF AllInserted
<1>1. CASE assignment' = assignment
  BY <1>1 DEF AllInserted
<1>2. ASSUME NEW status \in {"APPROVED", "REQUEST_CHANGES", "CANCELLED"}, PendingBecome(status)
      PROVE  \A t \in Targets : assignment'[t] # "ABSENT"
  BY <1>2 DEF PendingBecome, AllInserted
<1>3. ASSUME NEW q \in Requests, MarkAssignment(q)
      PROVE  \A t \in Targets : assignment'[t] # "ABSENT"
  BY <1>3 DEF MarkAssignment, Marked, MarkOf, AllInserted
<1>4. ASSUME NEW t \in Targets, InsertAssignment(t) PROVE FALSE
  BY <1>4 DEF InsertAssignment, AllInserted
<1> QED
  BY <1>1, <1>2, <1>3, <1>4
     DEF Next, Vote, SendBack, Delegate, BeginVote, InsertDecision, Tally,
         SettleAssignments, BeginSendBack, BeginOther, RecallAssignments, InsertObjection,
         BeginDelegation, SupersedeWait, WithdrawAssignments, CancelWait, ServerRestart

\* A vote that does not end the wait leaves it short of approvals.
LEMMA StillShort ==
    ASSUME TypeOK, IsFiniteSet(decisions), NEW q \in Requests,
           request[q].pc = "tally", VoteAlone(q), ~ShouldAdvance(request[q]),
           ~ChangesRequested
    PROVE  Cardinality(ApprovedBy) < Needed
<1> DEFINE own  == [by |-> request[q].by, from |-> q,
                    disposition |-> request[q].disposition]
           seen == Approvals(request[q].seen)
<1>1. decisions = request[q].seen \cup {own} /\ request[q].needs = Needed
  BY DEF VoteAlone
<1>2. own.disposition = "APPROVE"
  <2>1. own.disposition \in Dispositions /\ own \in decisions
    BY <1>1 DEF TypeOK, RequestsInFlight
  <2> QED
    BY <2>1 DEF ChangesRequested, Dispositions
<1>3. Approvals(decisions) = seen \cup {own}
  BY <1>1, <1>2 DEF Approvals
<1>4. IsFiniteSet(Approvals(decisions)) /\ IsFiniteSet(seen)
  BY <1>3, FS_Subset DEF Approvals
<1> DEFINE f == [d \in Approvals(decisions) |-> d.by]
<1>5. f \in Surjection(Approvals(decisions), ApprovedBy)
  BY DEF Surjection, ApprovedBy
<1>6. /\ IsFiniteSet(ApprovedBy)
      /\ Cardinality(ApprovedBy) <= Cardinality(Approvals(decisions))
  BY <1>4, <1>5, FS_Surjection
<1>7. request[q].disposition = "APPROVE"
  BY <1>2
<1> HIDE DEF own, f
<1>8. Cardinality(Approvals(decisions)) <= Cardinality(seen) + 1
  BY <1>3, <1>4, FS_AddElement, FS_CardinalityType
<1>9. ~(Cardinality(seen) + 1 >= Needed)
  BY <1>1, <1>7 DEF ShouldAdvance
<1> HIDE DEF seen
<1>10. Cardinality(seen) \in Nat /\ Cardinality(ApprovedBy) \in Nat
       /\ Cardinality(Approvals(decisions)) \in Nat /\ Needed \in Nat
  BY <1>4, <1>6, FS_CardinalityType, AssignedFinite
<1> QED
  BY <1>6, <1>8, <1>9, <1>10

\* The request that takes a step is the only one.
LEMMA TurnStep ==
    ASSUME NEW q \in Requests, \A p \in Requests : p # q => Idle(p) /\ request'[p] = request[p],
           IsFiniteSet(decisions'), AllInserted',
           request'[q].pc \in Votes => VoteAlone(q)',
           request'[q].pc = "idle" /\ wait'.status = "OPEN" /\ ~ChangesRequested' =>
             Cardinality(ApprovedBy') < Needed'
    PROVE  TurnInv'
<1>1. \A p \in Requests : p # q => request'[p].pc = "idle"
  BY DEF Idle
<1>2. \A p1, p2 \in Requests : ~Idle(p1)' /\ ~Idle(p2)' => p1 = p2
  BY <1>1 DEF Idle
<1>3. \A p \in Requests : request'[p].pc \in Votes => VoteAlone(p)'
  BY <1>1 DEF Votes
<1>4. Short'
  BY DEF Short, Idle
<1> QED
  BY <1>2, <1>3, <1>4 DEF TurnInv

LEMMA TurnInvNext == InTurn /\ TypeOK /\ MarkInv /\ TurnInv /\ [Next]_vars => TurnInv'
<1> SUFFICES ASSUME InTurn, TypeOK, MarkInv, TurnInv, [Next]_vars PROVE TurnInv'
  OBVIOUS
<1>1. ASSUME UNCHANGED <<request, decisions>>,
             wait'.status = "OPEN" => wait.status = "OPEN",
             AllInserted => AllInserted'
      PROVE  TurnInv'
  <2>1. Short'
    BY <1>1 DEF TurnInv, Short, Idle, ChangesRequested, ApprovedBy, Approvals, Needed, Required
  <2>2. \A q \in Requests : request'[q].pc \in Votes => VoteAlone(q)'
    BY <1>1 DEF TurnInv, VoteAlone, Needed, Required
  <2> QED
    BY <1>1, <2>1, <2>2 DEF TurnInv, Idle
<1>2. CASE UNCHANGED vars
  BY <1>1, <1>2 DEF vars, AllInserted
<1>3. ASSUME NEW q \in Requests, ~Idle(q), Next
      PROVE  (\A p \in Requests : p # q => Idle(p)) /\ AllInserted'
  BY <1>3, InsertedStays DEF TurnInv
<1>4. ASSUME NEW q \in Requests, NEW u \in Approvers, NEW d \in Dispositions,
             BeginVote(q, u, d), Next
      PROVE  TurnInv'
  <2>1. PICK target :
          request' = [request EXCEPT ![q] =
            [pc |-> "vote", by |-> u, disposition |-> d, seen |-> decisions,
             target |-> target, needs |-> Required(Cardinality(Assigned))]]
    BY <1>4 DEF BeginVote
  <2> DEFINE r == [pc |-> "vote", by |-> u, disposition |-> d, seen |-> decisions,
                   target |-> target, needs |-> Required(Cardinality(Assigned))]
  <2>2. /\ request' = [request EXCEPT ![q] = r]
        /\ r.pc = "vote" /\ r.seen = decisions /\ r.needs = Required(Cardinality(Assigned))
    BY <2>1
  <2> HIDE DEF r
  <2>3. request'[q] = r /\ \A p \in Requests : p # q => request'[p] = request[p]
    BY <2>2, OneMoves
  <2>4. AllInserted /\ \A p \in Requests : Idle(p)
    BY <1>4 DEF BeginVote, Arrives, InTurn
  <2>5. Assigned = Targets /\ decisions' = decisions
    BY <1>4, <2>4 DEF AllInserted, Assigned, BeginVote
  <2>6. VoteAlone(q)'
    BY <2>2, <2>3, <2>5 DEF VoteAlone, Needed, Required
  <2>7. IsFiniteSet(decisions') /\ AllInserted'
    BY <1>4, <2>4, <2>5, InsertedStays DEF TurnInv
  <2> QED
    BY <2>2, <2>3, <2>4, <2>6, <2>7, TurnStep
<1>5. ASSUME NEW q \in Requests, InsertDecision(q), Next PROVE TurnInv'
  <2> DEFINE own == [by |-> request[q].by, from |-> q,
                     disposition |-> request[q].disposition]
  <2>1. request[q].pc = "vote" /\ decisions' = decisions \cup {own}
    BY <1>5 DEF InsertDecision
  <2>2. /\ request'[q].pc = "mark" /\ request'[q].by = request[q].by
        /\ request'[q].disposition = request[q].disposition
        /\ request'[q].seen = request[q].seen /\ request'[q].needs = request[q].needs
        /\ \A p \in Requests : p # q => request'[p] = request[p]
    BY <1>5, GoesOn DEF InsertDecision
  <2>3. VoteAlone(q) /\ ~Idle(q)
    BY <2>1 DEF TurnInv, Votes, Idle
  <2>4. VoteAlone(q)'
    BY <2>1, <2>2, <2>3 DEF VoteAlone, Needed, Required
  <2>5. IsFiniteSet(decisions')
    BY <2>1, FS_AddElement DEF TurnInv
  <2> QED
    BY <1>3, <1>5, <2>2, <2>3, <2>4, <2>5, TurnStep
<1>6. ASSUME NEW q \in Requests, MarkAssignment(q), Next PROVE TurnInv'
  <2>1. request[q].pc = "mark" /\ decisions' = decisions
    BY <1>6 DEF MarkAssignment
  <2>2. /\ request'[q].pc = "tally" /\ request'[q].by = request[q].by
        /\ request'[q].disposition = request[q].disposition
        /\ request'[q].seen = request[q].seen /\ request'[q].needs = request[q].needs
        /\ \A p \in Requests : p # q => request'[p] = request[p]
    BY <1>6, GoesOn DEF MarkAssignment
  <2>3. VoteAlone(q) /\ ~Idle(q)
    BY <2>1 DEF TurnInv, Votes, Idle
  <2>4. VoteAlone(q)'
    BY <2>1, <2>2, <2>3 DEF VoteAlone, Needed, Required
  <2>5. IsFiniteSet(decisions')
    BY <2>1 DEF TurnInv
  <2> QED
    BY <1>3, <1>6, <2>2, <2>3, <2>4, <2>5, TurnStep
<1>7. ASSUME NEW q \in Requests, Tally(q), Next PROVE TurnInv'
  <2>1. request[q].pc = "tally" /\ decisions' = decisions
    BY <1>7 DEF Tally
  <2>2. VoteAlone(q) /\ ~Idle(q) /\ IsFiniteSet(decisions)
    BY <2>1 DEF TurnInv, Votes, Idle
  <2>3. CASE request' = [request EXCEPT ![q].pc = "settle"]
    <3>1. /\ request'[q].pc = "settle"
          /\ \A p \in Requests : p # q => request'[p] = request[p]
      BY <2>3, GoesOn
    <3> QED
      BY <1>3, <1>7, <2>1, <2>2, <3>1, TurnStep DEF Votes
  <2>4. CASE ~ShouldAdvance(request[q]) /\ request' = [request EXCEPT ![q] = IdleRequest]
    <3>1. /\ request'[q].pc = "idle"
          /\ \A p \in Requests : p # q => request'[p] = request[p]
      BY <2>4, IsDone
    <3>2. ~ChangesRequested' => Cardinality(ApprovedBy') < Needed'
      BY <2>1, <2>2, <2>4, StillShort DEF ChangesRequested, ApprovedBy, Approvals, Needed, Required
    <3> QED
      BY <1>3, <1>7, <2>1, <2>2, <3>1, <3>2, TurnStep DEF Votes
  <2> QED
    BY <1>7, <2>3, <2>4 DEF Tally
<1>8. ASSUME NEW q \in Requests, SettleAssignments(q) \/ WithdrawAssignments(q), Next
      PROVE  TurnInv'
  <2>1. request[q].pc \in {"settle", "withdraw"} /\ decisions' = decisions /\ wait' = wait
    BY <1>8 DEF SettleAssignments, WithdrawAssignments
  <2>2. wait'.status # "OPEN" /\ ~Idle(q) /\ IsFiniteSet(decisions')
    BY <2>1 DEF MarkInv, MarkSound, TurnInv, Idle
  <2>3. /\ request'[q].pc = "idle"
        /\ \A p \in Requests : p # q => request'[p] = request[p]
    BY <1>8, IsDone DEF SettleAssignments, WithdrawAssignments
  <2> QED
    BY <1>3, <1>8, <2>2, <2>3, TurnStep DEF Votes
<1>9. ASSUME NEW q \in Requests, NEW u, NEW fault, NEW pc \in {"recall", "override"}, Next,
             BeginOther(q, u, fault, pc)
      PROVE  TurnInv'
  <2> DEFINE r == [IdleRequest EXCEPT !.pc = pc, !.by = u]
  <2>1. request' = [request EXCEPT ![q] = r] /\ decisions' = decisions
    BY <1>9 DEF BeginOther
  <2>2. r.pc = pc
    BY DEF IdleRequest
  <2> HIDE DEF r
  <2>3. /\ request'[q].pc = pc
        /\ \A p \in Requests : p # q => request'[p] = request[p]
    BY <2>1, <2>2, OneMoves
  <2>4. AllInserted /\ \A p \in Requests : Idle(p)
    BY <1>9 DEF BeginOther, Arrives, InTurn
  <2>5. IsFiniteSet(decisions') /\ AllInserted'
    BY <1>9, <2>1, <2>4, InsertedStays DEF TurnInv
  <2> QED
    BY <2>3, <2>4, <2>5, TurnStep DEF Votes
<1>10. ASSUME NEW q \in Requests, RecallAssignments(q) \/ SupersedeWait(q), Next
       PROVE  TurnInv'
  <2>1. ~Idle(q) /\ IsFiniteSet(decisions')
    BY <1>10 DEF RecallAssignments, SupersedeWait, Idle, TurnInv
  <2>2. /\ request'[q].pc \in {"object", "withdraw"}
        /\ \A p \in Requests : p # q => request'[p] = request[p]
    BY <1>10, GoesOn DEF RecallAssignments, SupersedeWait
  <2> QED
    BY <1>3, <1>10, <2>1, <2>2, TurnStep DEF Votes
<1>11. ASSUME NEW q \in Requests, InsertObjection(q), Next PROVE TurnInv'
  <2> DEFINE own == [by |-> request[q].by, from |-> q, disposition |-> "REQUEST_CHANGES"]
  <2>1. decisions' = decisions \cup {own} /\ ~Idle(q)
    BY <1>11 DEF InsertObjection, Idle
  <2>a. own \in decisions' /\ own.disposition = "REQUEST_CHANGES"
    BY <2>1
  <2> HIDE DEF own
  <2>2. IsFiniteSet(decisions') /\ ChangesRequested'
    BY <2>a, <2>1, FS_AddElement DEF TurnInv, ChangesRequested
  <2>3. /\ request'[q].pc = "idle"
        /\ \A p \in Requests : p # q => request'[p] = request[p]
    BY <1>11, IsDone DEF InsertObjection
  <2> QED
    BY <1>3, <1>11, <2>1, <2>2, <2>3, TurnStep DEF Votes
<1>12. ASSUME NEW t \in Targets, InsertAssignment(t), Next PROVE TurnInv'
  BY <1>1, <1>12, InsertedStays DEF InsertAssignment
<1>13. ASSUME CancelWait, Next PROVE TurnInv'
  BY <1>1, <1>13, InsertedStays, WaitStaysEnded DEF CancelWait
<1>14. ~ServerRestart
  BY DEF InTurn, ServerRestart
<1> QED
  <2>1. CASE \E q \in Requests : Vote(q)
    BY <1>4, <1>5, <1>6, <1>7, <1>8, <2>1 DEF Next, Vote
  <2>2. CASE \E q \in Requests : SendBack(q)
    BY <1>9, <1>10, <1>11, <2>2 DEF Next, SendBack, BeginSendBack
  <2>3. CASE \E q \in Requests : Delegate(q)
    BY <1>8, <1>9, <1>10, <2>3 DEF Next, Delegate, BeginDelegation
  <2> QED
    BY <1>2, <1>12, <1>13, <1>14, <2>1, <2>2, <2>3 DEF Next

LEMMA TurnInvInit == Init => TurnInv
<1> SUFFICES ASSUME Init PROVE TurnInv
  OBVIOUS
<1>1. decisions = {} /\ \A q \in Requests : request[q].pc = "idle"
  BY DEF Init, IdleRequest
<1>2. ApprovedBy = {}
  BY <1>1 DEF ApprovedBy, Approvals
<1>3. Cardinality(ApprovedBy) < Needed
  BY <1>2, FS_EmptySet, NeededPositive
<1> QED
  BY <1>1, <1>3, FS_EmptySet DEF TurnInv, Idle, Votes, Short

\* While votes come one after another and none is lost, a quiet open wait is short
\* of approvals: the vote that completes the policy is the one that ends the wait.
THEOREM HeldOnlyWhileShort ==
    ASSUME InTurn
    PROVE  Spec => []HeldMeansShort
<1>1. Init => MarkInv
  BY DEF Init, MarkInv, MarkSound, MarksFollowVotes, IdleRequest
<1>2. TypeOK /\ MarkInv /\ TurnInv /\ [Next]_vars => TurnInv'
  BY TurnInvNext
<1>3. TurnInv => HeldMeansShort
  BY DEF TurnInv, Short, HeldMeansShort, Quiet
<1> QED
  BY <1>1, <1>2, <1>3, TypeInit, TypeNext, MarkInvNext, TurnInvInit, PTL DEF Spec

-----------------------------------------------------------------------------
(* A seat for everybody.                                                   *)

\* Every target is somebody's, nobody's twice, no two people share a team, and
\* the policy asks for no more approvals than there are targets.
OneEach ==
    /\ \A t \in Targets : \E u \in Approvers : Answers(u, t)
    /\ \A u \in Approvers : \A t1, t2 \in Targets : Answers(u, t1) /\ Answers(u, t2) => t1 = t2
    /\ \A u, v \in Approvers : TeamsOf[u] \cap TeamsOf[v] # {} => u = v
    /\ Needed <= Cardinality(Targets)
\* Nobody asks for changes.
NoChanges == "sendback" \notin Faults /\ ~PostStep

\* An assignment leaves PENDING by the vote of the one it is assigned to, and
\* stays PENDING only until that vote has been counted.
SeatInv ==
    /\ \A d \in decisions : d.disposition = "APPROVE"
    /\ \A q \in Requests : request[q].pc \in Votes => request[q].disposition = "APPROVE"
    /\ \A q \in Requests : request[q].pc \notin {"recall", "object"}
    /\ \A q \in Requests : request[q].pc \in {"vote", "mark"} =>
         \A t \in Targets : Answers(request[q].by, t) /\ assignment[t] = "PENDING" =>
           request[q].target = t
    /\ wait.status = "OPEN" =>
         \A t \in Targets : assignment[t] \in {"ABSENT", "PENDING", "APPROVED"}
    /\ decisions # {} => AllInserted
    /\ wait.status = "OPEN" =>
         \A d \in decisions, t \in Targets :
           Answers(d.by, t) =>
             \/ assignment[t] # "PENDING"
             \/ \E q \in Requests : request[q].pc = "mark" /\ request[q].target = t

LEMMA SeatInvInit == Init => SeatInv
<1> SUFFICES ASSUME Init PROVE SeatInv
  OBVIOUS
<1>1. /\ decisions = {} /\ \A q \in Requests : request[q].pc = "idle"
      /\ \A t \in Targets : assignment[t] = "ABSENT"
  BY DEF Init, IdleRequest
<1> QED
  BY <1>1 DEF SeatInv, Votes

\* A request other than a vote, or the end of a vote: nothing is voted or marked.
LEMMA SeatStep ==
    ASSUME SeatInv, NEW q \in Requests, \A p \in Requests : p # q => Idle(p) /\ request'[p] = request[p],
           request[q].pc # "mark", request'[q].pc \notin {"recall", "object"},
           request'[q].pc = "tally" => request'[q].disposition = "APPROVE",
           request'[q].pc \notin {"vote", "mark"},
           decisions' = decisions, AllInserted => AllInserted',
           wait'.status = "OPEN" => wait.status = "OPEN" /\ assignment' = assignment
    PROVE  SeatInv'
<1>1. \A p \in Requests : p # q => request[p].pc = "idle" /\ request'[p].pc = "idle"
  BY DEF Idle
<1>2. \A p \in Requests : request[p].pc # "mark"
  BY <1>1
<1>3. \A d \in decisions' : d.disposition = "APPROVE"
  BY DEF SeatInv
<1>4. \A p \in Requests : /\ request'[p].pc \in Votes => request'[p].disposition = "APPROVE"
                          /\ request'[p].pc \notin {"recall", "object", "vote", "mark"}
  BY <1>1 DEF Votes
<1>5. wait'.status = "OPEN" =>
        \A t \in Targets : assignment'[t] \in {"ABSENT", "PENDING", "APPROVED"}
  BY DEF SeatInv
<1>6. wait'.status = "OPEN" =>
        \A d \in decisions', t \in Targets : Answers(d.by, t) => assignment'[t] # "PENDING"
  BY <1>2 DEF SeatInv
<1>7. decisions' # {} => AllInserted'
  BY DEF SeatInv
<1> QED
  BY <1>3, <1>4, <1>5, <1>6, <1>7 DEF SeatInv, Answers

LEMMA SeatInvNext ==
    ASSUME InTurn, OneEach, NoChanges, TypeOK, MarkInv, TurnInv, SeatInv, [Next]_vars
    PROVE  SeatInv'
<1>1. CASE UNCHANGED vars
  BY <1>1 DEF vars, SeatInv, AllInserted, Answers
<1>2. ASSUME NEW q \in Requests, ~Idle(q), Next
      PROVE  /\ \A p \in Requests : p # q => Idle(p)
             /\ AllInserted /\ AllInserted'
  BY <1>2, InsertedStays DEF TurnInv
<1>3. ASSUME NEW u \in Approvers, Arrives(u)
      PROVE  AllInserted /\ \A p \in Requests : Idle(p)
  BY <1>3 DEF Arrives, InTurn
<1>4. ASSUME NEW q \in Requests, NEW u \in Approvers, NEW d \in Dispositions,
             BeginVote(q, u, d), Next
      PROVE  SeatInv'
  <2> DEFINE own == {t \in Pending : Answers(u, t)}
  <2>1. PICK target \in IF own = {} THEN {None} ELSE own :
          request' = [request EXCEPT ![q] =
            [pc |-> "vote", by |-> u, disposition |-> d, seen |-> decisions,
             target |-> target, needs |-> Required(Cardinality(Assigned))]]
    BY <1>4 DEF BeginVote
  <2> DEFINE r == [pc |-> "vote", by |-> u, disposition |-> d, seen |-> decisions,
                   target |-> target, needs |-> Required(Cardinality(Assigned))]
  <2>2. /\ request' = [request EXCEPT ![q] = r]
        /\ r.pc = "vote" /\ r.by = u /\ r.target = target /\ r.disposition = d
    BY <2>1
  <2>3. \A t \in Targets : Answers(u, t) /\ assignment[t] = "PENDING" => target = t
    <3> SUFFICES ASSUME NEW t \in Targets, Answers(u, t), assignment[t] = "PENDING"
                 PROVE  target = t
      OBVIOUS
    <3>1. t \in own
      BY DEF Pending
    <3>2. target \in Targets /\ Answers(u, target)
      BY <2>1, <3>1 DEF Pending
    <3> QED
      BY <3>2 DEF OneEach
  <2>4. d = "APPROVE"
    BY <1>4 DEF BeginVote, NoChanges, Dispositions
  <2> HIDE DEF own, r
  <2>5. request'[q] = r /\ \A p \in Requests : p # q => request'[p] = request[p]
    BY <2>2, OneMoves
  <2>6. /\ decisions' = decisions /\ assignment' = assignment /\ wait' = wait
        /\ AllInserted /\ AllInserted'
        /\ \A p \in Requests : request[p].pc = "idle"
    BY <1>3, <1>4, InsertedStays DEF BeginVote, Idle
  <2>7. \A p \in Requests : /\ request'[p].pc \in Votes => request'[p].disposition = "APPROVE"
                            /\ request'[p].pc \in {"idle", "vote"}
    BY <2>2, <2>4, <2>5, <2>6 DEF Votes
  <2>8. \A p \in Requests : request'[p].pc \in {"vote", "mark"} =>
          \A t \in Targets : Answers(request'[p].by, t) /\ assignment'[t] = "PENDING" =>
            request'[p].target = t
    BY <2>2, <2>3, <2>5, <2>6
  <2>9. wait'.status = "OPEN" =>
          \A e \in decisions', t \in Targets : Answers(e.by, t) => assignment'[t] # "PENDING"
    BY <2>6 DEF SeatInv
  <2>10. /\ \A e \in decisions' : e.disposition = "APPROVE"
         /\ wait'.status = "OPEN" =>
              \A t \in Targets : assignment'[t] \in {"ABSENT", "PENDING", "APPROVED"}
    BY <2>6 DEF SeatInv
  <2> QED
    BY <2>6, <2>7, <2>8, <2>9, <2>10 DEF SeatInv, Answers
<1>5. ASSUME NEW q \in Requests, InsertDecision(q), Next PROVE SeatInv'
  <2>1. PICK own : /\ own.by = request[q].by /\ own.disposition = request[q].disposition
                   /\ decisions' = decisions \cup {own}
    BY <1>5 DEF InsertDecision
  <2>2. /\ request[q].pc = "vote" /\ assignment' = assignment /\ wait' = wait /\ ~Idle(q)
    BY <1>5 DEF InsertDecision, Idle
  <2>3. /\ request'[q].pc = "mark" /\ request'[q].by = request[q].by
        /\ request'[q].target = request[q].target
        /\ request'[q].disposition = request[q].disposition
        /\ \A p \in Requests : p # q => request'[p] = request[p]
    BY <1>5, GoesOn DEF InsertDecision
  <2>4. /\ AllInserted'
        /\ \A p \in Requests : p # q => request[p].pc = "idle"
    BY <1>2, <1>5, <2>2 DEF Idle
  <2>5. /\ request[q].disposition = "APPROVE"
        /\ \A t \in Targets : Answers(request[q].by, t) /\ assignment[t] = "PENDING" =>
             request[q].target = t
    BY <2>2 DEF SeatInv, Votes
  <2>6. \A e \in decisions' : e.disposition = "APPROVE"
    BY <2>1, <2>5 DEF SeatInv
  <2>7. \A p \in Requests : /\ request'[p].pc \in Votes => request'[p].disposition = "APPROVE"
                            /\ request'[p].pc \in {"idle", "mark"}
    BY <2>3, <2>4, <2>5 DEF Votes
  <2>8. \A p \in Requests : request'[p].pc \in {"vote", "mark"} =>
          \A t \in Targets : Answers(request'[p].by, t) /\ assignment'[t] = "PENDING" =>
            request'[p].target = t
    BY <2>2, <2>3, <2>4, <2>5
  <2>9. ASSUME wait'.status = "OPEN", NEW e \in decisions', NEW t \in Targets,
               Answers(e.by, t), assignment'[t] = "PENDING"
        PROVE  \E p \in Requests : request'[p].pc = "mark" /\ request'[p].target = t
    <3>1. CASE e \in decisions
      BY <2>2, <2>4, <2>9, <3>1 DEF SeatInv
    <3>2. CASE e = own
      BY <2>1, <2>2, <2>3, <2>5, <2>9, <3>2
    <3> QED
      BY <2>1, <3>1, <3>2
  <2>10. wait'.status = "OPEN" =>
           \A t \in Targets : assignment'[t] \in {"ABSENT", "PENDING", "APPROVED"}
    BY <2>2 DEF SeatInv
  <2> QED
    BY <2>4, <2>6, <2>7, <2>8, <2>9, <2>10 DEF SeatInv, Answers
<1>6. ASSUME NEW q \in Requests, MarkAssignment(q), Next PROVE SeatInv'
  <2>1. /\ request[q].pc = "mark" /\ assignment' = Marked(q) /\ wait' = wait
        /\ decisions' = decisions /\ ~Idle(q)
    BY <1>6 DEF MarkAssignment, Idle
  <2>2. /\ request'[q].pc = "tally" /\ request'[q].disposition = request[q].disposition
        /\ \A p \in Requests : p # q => request'[p] = request[p]
    BY <1>6, GoesOn DEF MarkAssignment
  <2>3. /\ AllInserted'
        /\ \A p \in Requests : p # q => request[p].pc = "idle"
    BY <1>2, <1>6, <2>1 DEF Idle
  <2>4. request[q].disposition = "APPROVE"
    BY <2>1 DEF SeatInv, Votes
  <2>5. \A t \in Targets : /\ t = request[q].target => assignment'[t] = "APPROVED"
                           /\ t # request[q].target => assignment'[t] = assignment[t]
    BY <2>1, <2>4, TargetsType DEF Marked, MarkOf, TypeOK
  <2>6. \A e \in decisions' : e.disposition = "APPROVE"
    BY <2>1 DEF SeatInv
  <2>7. \A p \in Requests : /\ request'[p].pc \in Votes => request'[p].disposition = "APPROVE"
                            /\ request'[p].pc \in {"idle", "tally"}
    BY <2>2, <2>3, <2>4 DEF Votes
  <2>8. wait'.status = "OPEN" =>
          \A e \in decisions', t \in Targets : Answers(e.by, t) => assignment'[t] # "PENDING"
    <3> SUFFICES ASSUME wait'.status = "OPEN", NEW e \in decisions, NEW t \in Targets,
                        Answers(e.by, t)
                 PROVE  assignment'[t] # "PENDING"
      BY <2>1
    <3>1. assignment[t] # "PENDING" \/ request[q].target = t
      BY <2>1, <2>3 DEF SeatInv
    <3> QED
      BY <2>5, <3>1
  <2>9. wait'.status = "OPEN" =>
          \A t \in Targets : assignment'[t] \in {"ABSENT", "PENDING", "APPROVED"}
    BY <2>1, <2>5 DEF SeatInv
  <2> QED
    BY <2>3, <2>6, <2>7, <2>8, <2>9 DEF SeatInv, Answers
<1>7. ASSUME NEW q \in Requests, Tally(q), Next PROVE SeatInv'
  <2>1. /\ request[q].pc = "tally" /\ decisions' = decisions /\ assignment' = assignment
        /\ ~Idle(q) /\ (wait'.status = "OPEN" => wait.status = "OPEN")
    BY <1>7, WaitStaysEnded DEF Tally, Idle
  <2>2. /\ request'[q].pc \in {"idle", "settle"}
        /\ \A p \in Requests : p # q => request'[p] = request[p]
    BY <1>7, IsDone, GoesOn DEF Tally
  <2> QED
    BY <1>2, <1>7, <2>1, <2>2, SeatStep
<1>8. ASSUME NEW q \in Requests, SettleAssignments(q) \/ WithdrawAssignments(q), Next
      PROVE  SeatInv'
  <2>1. request[q].pc \in {"settle", "withdraw"} /\ decisions' = decisions /\ wait' = wait
    BY <1>8 DEF SettleAssignments, WithdrawAssignments
  <2>2. wait'.status # "OPEN" /\ ~Idle(q)
    BY <2>1 DEF MarkInv, MarkSound, Idle
  <2>3. /\ request'[q].pc = "idle"
        /\ \A p \in Requests : p # q => request'[p] = request[p]
    BY <1>8, IsDone DEF SettleAssignments, WithdrawAssignments
  <2> QED
    BY <1>2, <1>8, <2>1, <2>2, <2>3, SeatStep
<1>9. ASSUME NEW q \in Requests, SendBack(q) PROVE FALSE
  BY <1>9 DEF SendBack, BeginSendBack, BeginOther, RecallAssignments, InsertObjection,
              SeatInv, NoChanges
<1>10. ASSUME NEW q \in Requests, NEW u \in Approvers, BeginDelegation(q, u), Next
       PROVE  SeatInv'
  <2> DEFINE r == [IdleRequest EXCEPT !.pc = "override", !.by = u]
  <2>1. /\ request' = [request EXCEPT ![q] = r] /\ decisions' = decisions
        /\ assignment' = assignment /\ wait' = wait /\ Arrives(u)
    BY <1>10 DEF BeginDelegation, BeginOther
  <2>2. r.pc = "override"
    BY DEF IdleRequest
  <2> HIDE DEF r
  <2>3. /\ request'[q].pc = "override"
        /\ \A p \in Requests : p # q => request'[p] = request[p]
    BY <2>1, <2>2, OneMoves
  <2>4. /\ \A p \in Requests : Idle(p)
        /\ request[q].pc = "idle" /\ (AllInserted => AllInserted')
    BY <1>3, <1>10, <2>1, InsertedStays DEF Idle
  <2> QED
    BY <2>1, <2>3, <2>4, SeatStep
<1>11. ASSUME NEW q \in Requests, SupersedeWait(q), Next PROVE SeatInv'
  <2>1. /\ request[q].pc = "override" /\ decisions' = decisions /\ wait'.status # "OPEN"
        /\ ~Idle(q)
    BY <1>11 DEF SupersedeWait, Idle
  <2>2. /\ request'[q].pc = "withdraw"
        /\ \A p \in Requests : p # q => request'[p] = request[p]
    BY <1>11, GoesOn DEF SupersedeWait
  <2> QED
    BY <1>2, <1>11, <2>1, <2>2, SeatStep
<1>12. ASSUME NEW t \in Targets, InsertAssignment(t), Next PROVE SeatInv'
  <2>1. /\ ~AllInserted /\ wait' = wait /\ decisions' = decisions /\ request' = request
        /\ assignment' = [assignment EXCEPT ![t] = "PENDING"]
    BY <1>12 DEF InsertAssignment, AllInserted
  <2>2. decisions = {} /\ \A q \in Requests : request[q].pc = "idle"
    BY <2>1 DEF SeatInv, TurnInv, Idle
  <2>3. wait.status = "OPEN" =>
          \A x \in Targets : assignment'[x] \in {"ABSENT", "PENDING", "APPROVED"}
    BY <2>1 DEF SeatInv
  <2> QED
    BY <2>1, <2>2, <2>3 DEF SeatInv, Votes
<1>13. ASSUME CancelWait PROVE SeatInv'
  <2>1. /\ wait'.status # "OPEN" /\ decisions' = decisions /\ request' = request
        /\ assignment' = assignment
    BY <1>13 DEF CancelWait, TypeOK
  <2> QED
    BY <2>1 DEF SeatInv, AllInserted, Answers
<1>14. ~ServerRestart
  BY DEF InTurn, ServerRestart
<1> QED
  <2>1. CASE \E q \in Requests : Vote(q)
    BY <1>4, <1>5, <1>6, <1>7, <1>8, <2>1 DEF Next, Vote
  <2>2. CASE \E q \in Requests : Delegate(q)
    BY <1>8, <1>10, <1>11, <2>2 DEF Next, Delegate
  <2> QED
    BY <1>1, <1>9, <1>12, <1>13, <1>14, <2>1, <2>2 DEF Next

LEMMA SeatIsFree ==
    ASSUME OneEach, TypeOK, TurnInv, MarksFollowVotes, SeatInv
    PROVE  SomebodyMayVote
<1> SUFFICES ASSUME wait.status = "OPEN", Quiet
             PROVE  \E u \in Approvers : MayApprove(u) /\ ~AlreadyVoted(u)
  BY DEF SomebodyMayVote
<1>1. AllInserted /\ \A q \in Requests : Idle(q) /\ request[q].pc = "idle"
  BY DEF Quiet, Idle
<1>2. ~ChangesRequested
  BY DEF SeatInv, ChangesRequested
<1>3. Cardinality(ApprovedBy) < Needed
  BY <1>1, <1>2 DEF TurnInv, Short
<1>4. CASE Pending # {}
  <2>1. PICK t \in Targets : assignment[t] = "PENDING"
    BY <1>4 DEF Pending
  <2>2. PICK u \in Approvers : Answers(u, t)
    BY DEF OneEach
  <2>3. MayApprove(u)
    BY <1>4, <2>1, <2>2 DEF MayApprove, Pending
  <2>4. ASSUME AlreadyVoted(u) PROVE FALSE
    <3>1. PICK d \in decisions : d.by = u \/ TeamsOf[u] \cap TeamsOf[d.by] # {}
      BY <2>4 DEF AlreadyVoted
    <3>2. d.by \in Approvers
      BY DEF TypeOK, Decisions
    <3>3. d.by = u
      BY <3>1, <3>2 DEF OneEach
    <3> QED
      BY <1>1, <2>1, <2>2, <3>3 DEF SeatInv
  <2> QED
    BY <2>3, <2>4
<1>5. CASE Pending = {}
  <2>1. ASSUME NEW t \in Targets
        PROVE  \E u \in ApprovedBy : Answers(u, t)
    <3>1. assignment[t] = "APPROVED"
      BY <1>1, <1>5 DEF SeatInv, AllInserted, Pending
    <3> QED
      BY <3>1 DEF MarksFollowVotes, ApprovedBy
  <2> DEFINE f == [t \in Targets |-> CHOOSE u \in ApprovedBy : Answers(u, t)]
  <2>2. \A t \in Targets : f[t] \in ApprovedBy /\ Answers(f[t], t)
    BY <2>1
  <2>3. ApprovedBy \subseteq Approvers
    BY DEF ApprovedBy, Approvals, TypeOK, Decisions
  <2>4. f \in [Targets -> ApprovedBy] /\ \A t1, t2 \in Targets : f[t1] = f[t2] => t1 = t2
    <3>1. f \in [Targets -> ApprovedBy]
      BY <2>2
    <3> HIDE DEF f
    <3>2. \A t1, t2 \in Targets : f[t1] = f[t2] => t1 = t2
      BY <2>2, <2>3 DEF OneEach
    <3> QED
      BY <3>1, <3>2
  <2> HIDE DEF f
  <2>5. f \in Injection(Targets, ApprovedBy)
    BY <2>4 DEF Injection, IsInjective
  <2>6. IsFiniteSet(ApprovedBy)
    <3> DEFINE g == [d \in Approvals(decisions) |-> d.by]
    <3>1. IsFiniteSet(Approvals(decisions))
      BY FS_Subset DEF TurnInv, Approvals
    <3>2. g \in Surjection(Approvals(decisions), ApprovedBy)
      BY DEF Surjection, ApprovedBy
    <3> QED
      BY <3>1, <3>2, FS_Surjection
  <2>7. Cardinality(Targets) <= Cardinality(ApprovedBy)
    BY <2>5, <2>6, FS_Injection
  <2>8. /\ Cardinality(Targets) \in Nat /\ Cardinality(ApprovedBy) \in Nat /\ Needed \in Nat
        /\ Needed <= Cardinality(Targets)
    BY <2>6, TargetsType, FS_CardinalityType, AssignedFinite DEF OneEach
  <2> QED
    BY <1>3, <2>7, <2>8
<1> QED
  BY <1>4, <1>5

\* When everybody has one assignment and a team of their own, and people approve
\* one after another, an open wait never runs out of people who may vote.
THEOREM SomebodyIsLeftToVote ==
    ASSUME InTurn, OneEach, NoChanges
    PROVE  Spec => []SomebodyMayVote
<1>1. Init => MarkInv
  BY DEF Init, MarkInv, MarkSound, MarksFollowVotes, IdleRequest
<1>2. TypeOK /\ MarkInv /\ TurnInv /\ SeatInv /\ [Next]_vars => TurnInv' /\ SeatInv'
  BY TurnInvNext, SeatInvNext
<1>3. TypeOK /\ MarkInv /\ TurnInv /\ SeatInv => SomebodyMayVote
  BY SeatIsFree DEF MarkInv
<1> QED
  BY <1>1, <1>2, <1>3, TypeInit, TypeNext, MarkInvNext, TurnInvInit, SeatInvInit, PTL
     DEF Spec
=============================================================================
