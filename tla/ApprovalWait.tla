---------------------------- MODULE ApprovalWait ----------------------------
(***************************************************************************)
(* One approval wait of a workflow run: its assignments, the decisions of  *)
(* the approvers, and the policy that says when the run goes on.           *)
(*                                                                         *)
(* Every vote is an HTTP request that reads the wait with its assignments  *)
(* and decisions, checks them, and then writes the decision, its own       *)
(* assignment and perhaps the end of the wait, in separate statements.     *)
(* Between two statements other requests vote, a reviewer sends the        *)
(* approval back for clarification, an operator hands the step to a human  *)
(* or cancels the run, and the server may restart.                         *)
(***************************************************************************)
EXTENDS Naturals, FiniteSets

CONSTANTS
    Approvers,   \* users that take part
    Teams,
    TeamsOf,     \* the teams of a user
    Roles,       \* targets of type CAPABILITY_ROLE
    Targets,     \* whom the policy assigns: users, teams, roles
    Implicit,    \* the targets are the fallback teams, not a policy's
    OwnerTeams,  \* teams that may approve when no assignment is pending
    ClaimOwner,  \* the user who claimed the work item, or None
    Mode,        \* the policy's mode
    Minimum,     \* policy.minimumApprovals, 0 when it is not given
    PostStep,    \* payload.postStepApproval: changes can be requested
    Requests,    \* slots for the requests in flight
    None,
    Faults       \* what this instance allows to happen

(* "overlap"  requests of different people overlap                         *)
(* "repeat"   requests of one person overlap: a double click, a retry      *)
(* "early"    requests arrive while the assignments are still inserted     *)
(* "sendback" reviewers send the approval back for clarification           *)
(* "delegate" operators hand the step to a human                           *)
(* "cancel"   operators cancel the run                                     *)
(* "server"   the server restarts, losing the requests in flight           *)
Happenings == {"overlap", "repeat", "early", "sendback", "delegate",
               "cancel", "server"}

ASSUME TeamsOfType == TeamsOf \in [Approvers -> SUBSET Teams]
ASSUME TargetsType == /\ Targets \subseteq Approvers \cup Teams \cup Roles
                      /\ IsFiniteSet(Targets)
                      /\ None \notin Targets \cup Approvers
ASSUME PolicyType  == /\ Mode \in {"ANY_ONE", "ALL_REQUIRED", "QUORUM"}
                      /\ Minimum \in Nat
                      /\ Implicit \in BOOLEAN
                      /\ PostStep \in BOOLEAN
ASSUME FaultsType  == Faults \subseteq Happenings

VARIABLES
    wait,       \* [status, resolution] of the wait's row
    assignment, \* target -> status of its row
    decisions,  \* rows of capability_approval_decisions
    request     \* slot -> the request in flight

vars == <<wait, assignment, decisions, request>>

Dispositions == {"APPROVE", "REQUEST_CHANGES"}
\* A row is told apart from its actor's other rows by the request it came in.
Decisions    == [by: Approvers, from: Requests, disposition: Dispositions]
Votes        == {"vote", "mark", "tally"}
RequestsInFlight ==
    {r \in [pc: {"idle", "settle", "recall", "object", "override", "withdraw"}
                  \cup Votes,
            by: Approvers \cup {None},
            disposition: Dispositions,
            seen: SUBSET Decisions,
            target: Targets \cup {None},
            needs: Nat] : r.by = None <=> r.pc = "idle"}

TypeOK ==
    /\ wait \in [status: {"OPEN", "RESOLVED", "CANCELLED"},
                 resolution: {"none", "approval", "delegation"}]
    /\ assignment \in [Targets -> {"ABSENT", "PENDING", "APPROVED",
                                   "REQUEST_CHANGES", "CANCELLED"}]
    /\ decisions \subseteq Decisions
    /\ request \in [Requests -> RequestsInFlight]

IdleRequest == [pc |-> "idle", by |-> None, disposition |-> "APPROVE",
                seen |-> {}, target |-> None, needs |-> 0]

\* createRunWait has inserted the wait, createApprovalAssignments follows.
Init ==
    /\ wait = [status |-> "OPEN", resolution |-> "none"]
    /\ assignment = [t \in Targets |-> "ABSENT"]
    /\ decisions = {}
    /\ request = [q \in Requests |-> IdleRequest]

-----------------------------------------------------------------------------
(* What a request reads, and what it decides from it.                      *)

Idle(q) == request[q].pc = "idle"
AllInserted == \A t \in Targets : assignment[t] # "ABSENT"
\* Mutant: assignments somebody voted on are no longer counted.
AssignedAndPending == {t \in Targets : assignment[t] = "PENDING"}
Assigned == {t \in Targets : assignment[t] # "ABSENT"}
Pending  == {t \in Targets : assignment[t] = "PENDING"}

Answers(u, t) == t = u \/ t \in TeamsOf[u] \/ t \in Roles

MayApprove(u) ==
    IF Pending = {}
      THEN TeamsOf[u] \cap OwnerTeams # {}
      ELSE \/ Implicit /\ u = ClaimOwner
           \/ \E t \in Pending : Answers(u, t)

AlreadyVoted(u) ==
    \E d \in decisions : d.by = u \/ TeamsOf[u] \cap TeamsOf[d.by] # {}

OrOne(n) == IF n = 0 THEN 1 ELSE n

\* requiredCount of the policy over n assignments.
Required(n) ==
    CASE Mode = "ANY_ONE"      -> 1
      [] Mode = "ALL_REQUIRED" -> OrOne(n)
      [] Mode = "QUORUM"       -> IF Minimum > 0 THEN Minimum
                                                 ELSE OrOne((n + 1) \div 2)

Approvals(ds) == {d \in ds : d.disposition = "APPROVE"}

\* Mutant: requested changes count towards the policy as well.
ShouldAdvanceOnAnyDecision(r) == Cardinality(r.seen) + 1 >= r.needs

\* Mutant: only the decisions read at the start count, not the vote itself.
ShouldAdvanceOnEarlierVotes(r) ==
    r.disposition = "APPROVE" /\ Cardinality(Approvals(r.seen)) >= r.needs

\* evaluateApprovalPolicy over the decisions read at the start of the request.
ShouldAdvance(r) ==
    r.disposition = "APPROVE" /\ Cardinality(Approvals(r.seen)) + 1 >= r.needs

\* Who may send a request now: an assumption on the instance, not a guard of
\* the code, which accepts any number of requests at any time.
Arrives(u) ==
    /\ "overlap" \in Faults \/ \A q \in Requests : Idle(q)
    /\ "repeat" \in Faults \/ \A q \in Requests : request[q].by # u
    /\ "early" \in Faults \/ AllInserted

-----------------------------------------------------------------------------
(* Opening the wait, and a vote.                                           *)

InsertAssignment(t) ==
    /\ assignment[t] = "ABSENT"
    /\ assignment' = [assignment EXCEPT ![t] = "PENDING"]
    /\ UNCHANGED <<wait, decisions, request>>

\* resolveRunWaitAndQueue up to its first write.
BeginVote(q, u, disposition) ==
    /\ Idle(q)
    /\ Arrives(u)
    /\ wait.status = "OPEN"
    /\ disposition = "REQUEST_CHANGES" => PostStep
    /\ MayApprove(u)
    /\ ~AlreadyVoted(u)
    /\ LET own == {t \in Pending : Answers(u, t)} IN
       \E target \in IF own = {} THEN {None} ELSE own :
         request' = [request EXCEPT ![q] =
            [pc |-> "vote", by |-> u, disposition |-> disposition,
             seen |-> decisions, target |-> target,
             needs |-> Required(Cardinality(Assigned))]]
    /\ UNCHANGED <<wait, assignment, decisions>>

\* createApprovalDecision.
InsertDecision(q) ==
    /\ request[q].pc = "vote"
    /\ decisions' = decisions \cup
         {[by |-> request[q].by, from |-> q,
           disposition |-> request[q].disposition]}
    /\ request' = [request EXCEPT ![q].pc = "mark"]
    /\ UNCHANGED <<wait, assignment>>

\* Mutant: the disposition itself becomes the assignment's status.
MarkAsDisposition(disposition) == disposition
MarkOf(disposition) == IF disposition = "APPROVE" THEN "APPROVED"
                                                  ELSE "REQUEST_CHANGES"

\* updateSingleApprovalAssignment, by the assignment's id.
\* Mutant: every pending assignment is marked with the vote.
MarkAllPending(q) ==
    [t \in Targets |-> IF assignment[t] = "PENDING"
                         THEN MarkOf(request[q].disposition) ELSE assignment[t]]
Marked(q) ==
    IF request[q].target = None THEN assignment
    ELSE [assignment EXCEPT ![request[q].target] =
                                MarkOf(request[q].disposition)]

MarkAssignment(q) ==
    /\ request[q].pc = "mark"
    /\ assignment' = Marked(q)
    /\ request' = [request EXCEPT ![q].pc = "tally"]
    /\ UNCHANGED <<wait, decisions>>

\* The wait stays open, or is resolved by its id alone.
Tally(q) ==
    /\ request[q].pc = "tally"
    /\ \/ /\ ~ShouldAdvance(request[q])
          /\ request' = [request EXCEPT ![q] = IdleRequest]
          /\ UNCHANGED wait
       \/ /\ ShouldAdvance(request[q])
          /\ wait' = [status |-> "RESOLVED", resolution |-> "approval"]
          /\ request' = [request EXCEPT ![q].pc = "settle"]
    /\ UNCHANGED <<assignment, decisions>>

\* updateApprovalAssignmentsForWait: the rows that are still PENDING.
PendingBecome(status) ==
    assignment' = [t \in Targets |-> IF assignment[t] = "PENDING"
                                       THEN status ELSE assignment[t]]

\* The remaining assignments are closed; the workflow then advances.
SettleAssignments(q) ==
    /\ request[q].pc = "settle"
    /\ PendingBecome("APPROVED")
    /\ request' = [request EXCEPT ![q] = IdleRequest]
    /\ UNCHANGED <<wait, decisions>>

-----------------------------------------------------------------------------
(* Other requests about the same wait.                                     *)

BeginOther(q, u, fault, pc) ==
    /\ fault \in Faults
    /\ Idle(q)
    /\ Arrives(u)
    /\ wait.status = "OPEN"
    /\ request' = [request EXCEPT ![q] = [IdleRequest EXCEPT !.pc = pc,
                                                             !.by = u]]
    /\ UNCHANGED <<wait, assignment, decisions>>

\* sendBackApprovalForClarification.
BeginSendBack(q, u) == BeginOther(q, u, "sendback", "recall")

RecallAssignments(q) ==
    /\ request[q].pc = "recall"
    /\ PendingBecome("REQUEST_CHANGES")
    /\ request' = [request EXCEPT ![q].pc = "object"]
    /\ UNCHANGED <<wait, decisions>>

InsertObjection(q) ==
    /\ request[q].pc = "object"
    /\ decisions' = decisions \cup {[by |-> request[q].by, from |-> q,
                                     disposition |-> "REQUEST_CHANGES"]}
    /\ request' = [request EXCEPT ![q] = IdleRequest]
    /\ UNCHANGED <<wait, assignment>>

\* delegateWorkflowRunToHuman.
BeginDelegation(q, u) == BeginOther(q, u, "delegate", "override")

SupersedeWait(q) ==
    /\ request[q].pc = "override"
    /\ wait' = [status |-> "RESOLVED", resolution |-> "delegation"]
    /\ request' = [request EXCEPT ![q].pc = "withdraw"]
    /\ UNCHANGED <<assignment, decisions>>

WithdrawAssignments(q) ==
    /\ request[q].pc = "withdraw"
    /\ PendingBecome("CANCELLED")
    /\ request' = [request EXCEPT ![q] = IdleRequest]
    /\ UNCHANGED <<wait, decisions>>

\* cancelOpenWaitsForRun, in one statement; the assignments stay as they are.
CancelWait ==
    /\ "cancel" \in Faults
    /\ wait.status = "OPEN"
    /\ wait' = [wait EXCEPT !.status = "CANCELLED"]
    /\ UNCHANGED <<assignment, decisions, request>>

\* The server stops; what its requests have not written is lost.
ServerRestart ==
    /\ "server" \in Faults
    /\ \E q \in Requests : ~Idle(q)
    /\ request' = [q \in Requests |-> IdleRequest]
    /\ UNCHANGED <<wait, assignment, decisions>>

Vote(q) ==
    \/ \E u \in Approvers, d \in Dispositions : BeginVote(q, u, d)
    \/ InsertDecision(q)
    \/ MarkAssignment(q)
    \/ Tally(q)
    \/ SettleAssignments(q)

SendBack(q) ==
    \/ \E u \in Approvers : BeginSendBack(q, u)
    \/ RecallAssignments(q)
    \/ InsertObjection(q)

Delegate(q) ==
    \/ \E u \in Approvers : BeginDelegation(q, u)
    \/ SupersedeWait(q)
    \/ WithdrawAssignments(q)

Next ==
    \/ \E t \in Targets : InsertAssignment(t)
    \/ \E q \in Requests : Vote(q) \/ SendBack(q) \/ Delegate(q)
    \/ CancelWait
    \/ ServerRestart

Spec == Init /\ [][Next]_vars

-----------------------------------------------------------------------------
(* Properties.                                                             *)

Needed == Required(Cardinality(Targets))
ApprovedBy == {d.by : d \in Approvals(decisions)}
PassedByApproval == wait.status = "RESOLVED" /\ wait.resolution = "approval"
Quiet == AllInserted /\ \A q \in Requests : Idle(q)
ChangesRequested == \E d \in decisions : d.disposition = "REQUEST_CHANGES"

\* The wait's rows and requests implement the promise of ApprovalGate.
GateState == IF wait.status = "OPEN" THEN "held"
             ELSE IF PassedByApproval THEN "passed" ELSE "withdrawn"
Quorums == {S \in SUBSET Approvers : Cardinality(S) >= Needed}
Gate == INSTANCE ApprovalGate WITH approvers <- ApprovedBy, gate <- GateState

\* Every step keeps the promise: the run goes on through this wait only when
\* as many different people approved as the policy requires.
ImplementsGate == Gate!Spec

\* The same as a state: a wait resolved by approval has enough approvers, for
\* any overlap of votes, send-backs, delegations, cancellations and restarts.
EnoughApprovers == PassedByApproval => Cardinality(ApprovedBy) >= Needed

\* On an open wait an assignment is shown as approved only when one of the
\* people it is assigned to approved.
MarksFollowVotes ==
    wait.status = "OPEN" =>
      \A t \in Targets :
        assignment[t] = "APPROVED" =>
          \E d \in Approvals(decisions) : Answers(d.by, t)

\* An open wait with no request in flight has an approver whose vote would be
\* accepted: true while people vote in turn, ask for no changes and share no
\* team or assignment.
SomebodyMayVote ==
    wait.status = "OPEN" /\ Quiet =>
      \E u \in Approvers : MayApprove(u) /\ ~AlreadyVoted(u)

\* "ALL_REQUIRED - every assignment target must approve" (service.ts:943), and no
\* more: a quiet wait is held only while approvals are missing.  True as long as
\* votes do not overlap: two that do each count the decisions they read.
HeldMeansShort ==
    wait.status = "OPEN" /\ Quiet /\ ~ChangesRequested =>
      Cardinality(ApprovedBy) < Needed
=============================================================================
