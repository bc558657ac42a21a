---------------------------- MODULE RunLifecycle ----------------------------
(***************************************************************************)
(* One workflow run from its first claim to its end: the executor that     *)
(* works through the graph, and the operators who pause, resume, cancel,   *)
(* delegate, force and answer it meanwhile.                                *)
(*                                                                         *)
(* Every operation reads the run once and writes the whole row back later, *)
(* in between come the statements on waits and steps; each of these is one *)
(* action.  Who may execute the run, and its lease, are the subject of     *)
(* ExecutionOwnership: here one executor claims it again whenever it is    *)
(* QUEUED, or RUNNING with a lease that is gone by then.  The votes before *)
(* an approval passes are the subject of ApprovalWait.                     *)
(***************************************************************************)
EXTENDS WorkflowGraph, FiniteSets

CONSTANTS
    First, Prefix, \* the starting node and the nodes ordered before it
    Requests,      \* slots for operators' requests in flight
    Worker,        \* the executor
    Kinds,         \* which requests this instance receives
    Outcomes,      \* how an agent's work on a step may end
    MaxAsked, MaxWaits, MaxStops

Procs == Requests \cup {Worker}
Ended == {"COMPLETED", "FAILED", "CANCELLED"}
\* CONFLICT_RESOLUTION is treated as INPUT is.
WaitTypes == {"APPROVAL", "INPUT", "HUMAN_TASK", "SUB_WORKFLOW_WAIT"}
\* Mutant: the wait's type becomes the run's status.
WaitingAsType(type) == type
WaitingFor(type) == CASE type = "APPROVAL" -> "WAITING_APPROVAL"
                      [] type = "HUMAN_TASK" -> "WAITING_HUMAN_TASK"
                      [] type = "INPUT" -> "WAITING_INPUT"
                      [] OTHER -> "WAITING_CONFLICT"
RunStates == {"QUEUED", "RUNNING", "PAUSED", "WAITING_APPROVAL", "WAITING_HUMAN_TASK",
              "WAITING_INPUT", "WAITING_CONFLICT"} \cup Ended
StepStates == {"PENDING", "RUNNING", "WAITING", "COMPLETED", "FAILED"}
AllKinds == {"pause", "resume", "cancel", "resolve", "delegate", "human", "force"}
AllOutcomes == {"complete", "diff", "ask", "seek", "fail", "throw"}

ASSUME LifecycleAssumption ==
    /\ First \in Nodes /\ Type[First] \in Visible
    /\ Prefix \subseteq Nodes \ {First}
    /\ Worker \notin Requests
    /\ Kinds \subseteq AllKinds
    /\ "complete" \in Outcomes /\ Outcomes \subseteq AllOutcomes
    /\ {MaxAsked, MaxWaits, MaxStops} \subseteq Nat

VARIABLES
    run,      \* the row: [status, node, branch]
    step,     \* status of every node's step row
    waits,    \* the run's waits, in the order they were created
    override, \* nodes the work item has a human override for, and its status
    op,       \* process -> the operation in flight
    asked,    \* requests so far
    stops,    \* times the executor or the server has stopped
    serial,   \* history: requests overlapped neither each other nor the executor, and none
              \* was cut short
    by        \* history: who let the run past an approval node: "agent", "force" or the
              \* node whose policy was met

vars == <<run, step, waits, override, op, asked, stops, serial, by>>

Rows == [status : RunStates, node : Nodes \cup {None}, branch : Branches]
\* closes: its approval completes the step; policy: the node whose policy it applies.
Waits == [node : Nodes, type : WaitTypes, status : {"OPEN", "RESOLVED", "CANCELLED"},
          closes : BOOLEAN, human : BOOLEAN, policy : Nodes]
NoBranch == [pending |-> {}, completed |-> {}]
Statements == {"idle", "load", "next", "step", "row", "reread", "override", "work",
               "decide", "done", "drain", "commit", "requeue", "finish",
               "check", "open", "hold", "park", "mark", "fail", "failrow", "reconcile",
               "answer", "retry", "queue", "pause", "resume", "cancel", "cancelrow",
               "supersede", "divert", "dismiss"}
Continuations == {"idle", "next", "mark", "requeue", "finish"}
Operations == [pc : Statements, snap : Rows, node : Nodes \cup {None}, wait : 0..MaxWaits,
               opens : WaitTypes, closes : BOOLEAN, human : BOOLEAN,
               policy : Nodes \cup {None}, branch : Branches, next : Nodes \cup {None},
               then : Continuations]

Created == [status |-> "QUEUED", node |-> First,
            branch |-> [pending |-> {First}, completed |-> Prefix]]
IdleOp == [pc |-> "idle", snap |-> Created, node |-> None, wait |-> 0, opens |-> "INPUT",
           closes |-> FALSE, human |-> FALSE, policy |-> None, branch |-> NoBranch,
           next |-> None, then |-> "idle"]

Init ==
    /\ run = Created
    /\ step = [n \in Nodes |-> IF n \in Prefix THEN "COMPLETED" ELSE "PENDING"]
    /\ waits = <<>>
    /\ override = [n \in Nodes |-> "NONE"]
    /\ op = [p \in Procs |-> IdleOp]
    /\ asked = 0 /\ stops = 0 /\ serial = TRUE
    /\ by = [n \in Nodes |-> None]

At(p, pc)   == op[p].pc = pc
\* Nothing read before these is used after them.
Goto(p, pc) == op' = [op EXCEPT ![p] = IF pc \in {"idle", "next", "reconcile"}
                                       THEN [IdleOp EXCEPT !.pc = pc]
                                       ELSE [@ EXCEPT !.pc = pc]]
Idle(p)     == At(p, "idle")
Stopped     == run.status \in {"CANCELLED", "PAUSED"}
Open        == {i \in DOMAIN waits : waits[i].status = "OPEN"}
\* The newest and the oldest of a set of waits, or 0.
Newest(S)   == IF S = {} THEN {0} ELSE {i \in S : \A j \in S : j <= i}
Oldest(S)   == IF S = {} THEN {0} ELSE {i \in S : \A j \in S : i <= j}
SetStep(n, state) == step' = [step EXCEPT ![n] = state]
SetWait(i, state) == waits' = [waits EXCEPT ![i].status = state]

\* updateWorkflowRun: every column, unless the run has ended or is paused.
Write(row) == run' = IF run.status \in Ended \cup {"PAUSED"} THEN run ELSE row
\* updateWorkflowRunControl: the same, but a paused run is written.
WriteControl(row) == run' = IF run.status \in Ended THEN run ELSE row

Same == UNCHANGED <<run, step, waits, override>>
Kept == UNCHANGED <<asked, stops, serial, by>>

-----------------------------------------------------------------------------
(* The executor: claim, processWorkflowRun, executeAutomatedStep.          *)

\* Mutant: only queued runs are claimed.
ClaimableIfQueued == run.status = "QUEUED"
Claimable == run.status \in {"QUEUED", "RUNNING"}

Claim ==
    /\ Idle(Worker)
    /\ Claimable
    /\ run' = [run EXCEPT !.status = "RUNNING"]
    /\ Goto(Worker, "load")
    /\ serial' = (serial /\ \A r \in Requests : Idle(r))
    /\ UNCHANGED <<step, waits, override, asked, stops, by>>

\* Reads the run, and goes on unless it is stopped or, after a first step, no longer running.
Load ==
    /\ At(Worker, "load") \/ At(Worker, "next")
    /\ op' = [op EXCEPT ![Worker] =
         IF \/ Stopped \/ run.node = None
            \/ At(Worker, "next") /\ run.status \notin {"QUEUED", "RUNNING"}
         THEN IdleOp
         ELSE [IdleOp EXCEPT !.snap = run, !.node = run.node, !.policy = run.node,
                !.pc = IF Type[run.node] = "HUMAN_APPROVAL" THEN "check" ELSE "step",
                !.opens = IF Type[run.node] = "HUMAN_APPROVAL" THEN "APPROVAL" ELSE "INPUT"]]
    /\ Same /\ Kept

StartStep ==
    /\ At(Worker, "step")
    /\ IF Stopped THEN Goto(Worker, "next") /\ UNCHANGED step
                  ELSE Goto(Worker, "row") /\ SetStep(op[Worker].node, "RUNNING")
    /\ UNCHANGED <<run, waits, override>> /\ Kept

RunRow ==
    /\ At(Worker, "row")
    /\ Write([op[Worker].snap EXCEPT !.status = "RUNNING"])
    /\ Goto(Worker, "reread")
    /\ UNCHANGED <<step, waits, override>> /\ Kept

Reread ==
    /\ At(Worker, "reread")
    /\ op' = [op EXCEPT ![Worker].pc = "override", ![Worker].snap = run]
    /\ Same /\ Kept

\* maybePauseForHumanStageOverride
CheckOverride ==
    /\ At(Worker, "override")
    /\ LET n == op[Worker].node IN
       IF override[n] = "ACTIVE"
       THEN /\ SetStep(n, "WAITING")
            /\ op' = [op EXCEPT ![Worker].pc = "check", ![Worker].opens = "HUMAN_TASK",
                                ![Worker].then = "mark"]
       ELSE Goto(Worker, "work") /\ UNCHANGED step
    /\ UNCHANGED <<run, waits, override>> /\ Kept

Work ==
    /\ At(Worker, "work")
    /\ Goto(Worker, IF Stopped THEN "next" ELSE "decide")
    /\ Same /\ Kept

Decide ==
    /\ At(Worker, "decide")
    /\ \E outcome \in Outcomes :
         /\ outcome \in {"diff", "ask", "seek"} => Len(waits) < MaxWaits
         /\ op' = [op EXCEPT ![Worker] =
              CASE outcome = "complete" -> [@ EXCEPT !.pc = "done"]
                [] outcome = "diff"     -> [@ EXCEPT !.pc = "check", !.opens = "APPROVAL",
                                                     !.closes = TRUE, !.then = "next"]
                [] outcome = "ask"      -> [@ EXCEPT !.pc = "check", !.then = "next"]
                [] outcome = "seek"     -> [@ EXCEPT !.pc = "check", !.opens = "APPROVAL",
                                                     !.then = "next"]
                [] outcome = "fail"     -> [@ EXCEPT !.pc = "fail", !.then = "next"]
                [] outcome = "throw"    -> [@ EXCEPT !.pc = "reconcile"]]
    /\ Same /\ Kept

-----------------------------------------------------------------------------
(* completeRunWithWait, on behalf of the executor or of a request.  What   *)
(* follows it is in "then".                                                *)

CheckStopped(p) ==
    /\ At(p, "check")
    /\ Goto(p, IF Stopped THEN op[p].then ELSE "open")
    /\ Same /\ Kept

OpenWait(p) ==
    /\ At(p, "open")
    /\ Len(waits) < MaxWaits
    /\ waits' = Append(waits, [node |-> op[p].node, type |-> op[p].opens, status |-> "OPEN",
                               closes |-> op[p].closes, human |-> op[p].human,
                               policy |-> op[p].policy])
    /\ Goto(p, "hold")
    /\ UNCHANGED <<run, step, override>> /\ Kept

HoldStep(p) ==
    /\ At(p, "hold")
    /\ SetStep(op[p].node, "WAITING")
    /\ Goto(p, "park")
    /\ UNCHANGED <<run, waits, override>> /\ Kept

ParkRun(p) ==
    /\ At(p, "park")
    /\ Write([op[p].snap EXCEPT !.status = WaitingFor(op[p].opens)])
    /\ Goto(p, op[p].then)
    /\ UNCHANGED <<step, waits, override>> /\ Kept

\* persistWorkItemStageOverride
MarkOverride(p) ==
    /\ At(p, "mark")
    /\ override' = [override EXCEPT ![op[p].node] = "ACTIVE"]
    /\ Goto(p, IF p = Worker THEN "next" ELSE "idle")
    /\ UNCHANGED <<run, step, waits>> /\ Kept

-----------------------------------------------------------------------------
(* A completed step and resolveGraphTransition.                            *)

\* The step is completed, and the run goes past the node of the row that was read.
CompleteStep(p) ==
    /\ At(p, "done")
    /\ SetStep(op[p].node, "COMPLETED")
    /\ IF op[p].snap.node = None
       THEN Goto(p, "reconcile")
       ELSE \E targets \in Selections(op[p].snap.node) :
              op' = [op EXCEPT ![p].pc = "drain", ![p].next = None,
                       ![p].branch = After(op[p].snap.branch, op[p].snap.node, targets)]
    /\ by' = [n \in Nodes |->
                IF n # op[p].snap.node \/ Type[n] # "HUMAN_APPROVAL" THEN by[n]
                ELSE CASE p = Worker -> "agent"
                       [] op[p].then = "finish" -> "force"
                       [] OTHER -> op[p].policy]
    /\ UNCHANGED <<run, waits, override, asked, stops, serial>>

\* One turn of the loop over the pending nodes.
Drain(p) ==
    /\ At(p, "drain")
    /\ \E n \in Foremost(op[p].branch) :
         \/ /\ Type[n] = "END"
            /\ SetStep(n, "COMPLETED")
            /\ op' = [op EXCEPT ![p].pc = "commit", ![p].branch = After(@, n, {})]
            /\ UNCHANGED waits
         \/ /\ Type[n] \in Relays
            /\ SetStep(n, "COMPLETED")
            /\ \E targets \in Selections(n) :
                 op' = [op EXCEPT ![p].branch = After(@, n, targets)]
            /\ UNCHANGED waits
         \/ /\ Type[n] = "SUB_WORKFLOW_AWAITED"
            /\ Len(waits) < MaxWaits
            /\ SetStep(n, "WAITING")
            /\ waits' = Append(waits, [node |-> n, type |-> "SUB_WORKFLOW_WAIT",
                                       status |-> "OPEN", closes |-> FALSE,
                                       human |-> FALSE, policy |-> n])
            /\ op' = [op EXCEPT ![p].pc = "commit", ![p].next = n,
                                ![p].branch.pending = @ \ {n}]
         \/ /\ Type[n] \in Visible
            /\ op' = [op EXCEPT ![p].pc = "commit", ![p].next = n]
            /\ UNCHANGED <<step, waits>>
    /\ UNCHANGED <<run, override>> /\ Kept

NothingPending(p) ==
    /\ At(p, "drain")
    /\ op[p].branch.pending = {}
    /\ Goto(p, "commit")
    /\ Same /\ Kept

\* The request that goes on uses the row as this update left it.
Commit(p) ==
    /\ At(p, "commit")
    /\ Write([status |-> IF op[p].next = None THEN "COMPLETED" ELSE "RUNNING",
              node |-> op[p].next, branch |-> op[p].branch])
    /\ op' = [op EXCEPT ![p].snap = run',
                        ![p].pc = IF p = Worker THEN "next"
                                  ELSE IF op[p].next = None THEN "finish" ELSE op[p].then]
    /\ UNCHANGED <<step, waits, override>> /\ Kept

-----------------------------------------------------------------------------
(* failRun and reconcileWorkflowRunFailure.                                *)

FailStep ==
    /\ At(Worker, "fail")
    /\ SetStep(op[Worker].node, "FAILED")
    /\ Goto(Worker, "failrow")
    /\ UNCHANGED <<run, waits, override>> /\ Kept

FailRow ==
    /\ At(Worker, "failrow")
    /\ Write([op[Worker].snap EXCEPT !.status = "FAILED"])
    /\ Goto(Worker, op[Worker].then)
    /\ UNCHANGED <<step, waits, override>> /\ Kept

\* Something has thrown: the run is read again, whatever has become of it.
ReadFailure ==
    /\ At(Worker, "reconcile")
    /\ op' = [op EXCEPT ![Worker] =
         IF run.node = None THEN IdleOp
         ELSE [IdleOp EXCEPT !.snap = run, !.node = run.node,
                 !.pc = IF step[run.node] \in {"FAILED", "COMPLETED"} THEN "failrow" ELSE "fail"]]
    /\ Same /\ Kept

WorkerStops ==
    /\ stops < MaxStops /\ stops' = stops + 1
    /\ ~Idle(Worker)
    /\ op' = [op EXCEPT ![Worker] = IdleOp]
    /\ Same /\ UNCHANGED <<asked, serial, by>>

-----------------------------------------------------------------------------
(* Requests of operators.                                                  *)

Ask(r, kind, first) ==
    /\ kind \in Kinds
    /\ Idle(r) /\ asked < MaxAsked /\ asked' = asked + 1
    /\ op' = [op EXCEPT ![r] = [first EXCEPT !.snap = run, !.node = run.node]]
    /\ serial' = (serial /\ \A p \in Procs : Idle(p))
    /\ Same /\ UNCHANGED <<stops, by>>

AskPause(r) ==
    /\ run.status \notin Ended \cup {"PAUSED"}
    /\ Ask(r, "pause", [IdleOp EXCEPT !.pc = "pause"])

PauseRow(r) ==
    /\ At(r, "pause")
    /\ WriteControl([op[r].snap EXCEPT !.status = "PAUSED"])
    /\ Goto(r, "idle")
    /\ UNCHANGED <<step, waits, override>> /\ Kept

\* Mutant: it waits for its newest wait again, answered or not.
AskResumeToLast(r) ==
    /\ run.status = "PAUSED"
    /\ \E i \in Newest(DOMAIN waits) : Ask(r, "resume", [IdleOp EXCEPT !.pc = "resume", !.wait = i])
\* The run waits again if it has an open wait, else it is queued.
AskResume(r) ==
    /\ run.status = "PAUSED"
    /\ \E i \in Newest(Open) : Ask(r, "resume", [IdleOp EXCEPT !.pc = "resume", !.wait = i])

ResumeRow(r) ==
    /\ At(r, "resume")
    /\ WriteControl([op[r].snap EXCEPT !.status =
                       IF op[r].wait = 0 THEN "QUEUED" ELSE WaitingFor(waits[op[r].wait].type)])
    /\ Goto(r, "idle")
    /\ UNCHANGED <<step, waits, override>> /\ Kept

AskCancel(r) == Ask(r, "cancel", [IdleOp EXCEPT !.pc = "cancel"])

CancelWaits(r) ==
    /\ At(r, "cancel")
    /\ waits' = [i \in DOMAIN waits |-> IF i \in Open THEN [waits[i] EXCEPT !.status = "CANCELLED"]
                                                      ELSE waits[i]]
    /\ Goto(r, "cancelrow")
    /\ UNCHANGED <<run, step, override>> /\ Kept

CancelRow(r) ==
    /\ At(r, "cancelrow")
    /\ WriteControl([op[r].snap EXCEPT !.status = "CANCELLED"])
    /\ Goto(r, "idle")
    /\ UNCHANGED <<step, waits, override>> /\ Kept

-----------------------------------------------------------------------------
(* resolveRunWaitAndQueue: input, a conflict's resolution, or the vote that *)
(* passes an approval.                                                     *)

AskResolve(r) ==
    /\ run.status # "PAUSED" /\ run.node # None
    /\ \E i \in Newest(Open) :
         /\ i # 0 /\ waits[i].type \in {"APPROVAL", "INPUT"}
         /\ Ask(r, "resolve", [IdleOp EXCEPT !.pc = "answer", !.wait = i])

\* The wait is closed by its id alone; the step and the run are those that were read.
Answer(r) ==
    /\ At(r, "answer")
    /\ SetWait(op[r].wait, "RESOLVED")
    /\ LET w == waits[op[r].wait] IN
       IF w.type = "APPROVAL" /\ (Type[op[r].node] = "HUMAN_APPROVAL" \/ w.closes)
       THEN op' = [op EXCEPT ![r].pc = "done", ![r].then = "requeue",
                             ![r].human = w.human, ![r].policy = w.policy]
       ELSE Goto(r, "retry")
    /\ UNCHANGED <<run, step, override>> /\ Kept

\* buildQueuedRunForExternalAdvance
Requeue(r) ==
    /\ At(r, "requeue")
    /\ WriteControl([op[r].snap EXCEPT !.status = "QUEUED"])
    /\ Goto(r, "finish")
    /\ UNCHANGED <<step, waits, override>> /\ Kept

\* Mutant: the step of the wait is retried instead of the run's.
RetryWaitingStep(r) ==
    /\ At(r, "retry")
    /\ SetStep(waits[op[r].wait].node, "PENDING")
    /\ Goto(r, "queue")
    /\ UNCHANGED <<run, waits, override>> /\ Kept
RetryStep(r) ==
    /\ At(r, "retry")
    /\ SetStep(op[r].node, "PENDING")
    /\ Goto(r, "queue")
    /\ UNCHANGED <<run, waits, override>> /\ Kept

RetryRow(r) ==
    /\ At(r, "queue")
    /\ Write([op[r].snap EXCEPT !.status = "QUEUED"])
    /\ Goto(r, "idle")
    /\ UNCHANGED <<step, waits, override>> /\ Kept

\* syncCompletedProjection, as far as the human override is concerned.
Finish(r) ==
    /\ At(r, "finish")
    /\ override' = IF op[r].human THEN [override EXCEPT ![op[r].node] =
                                          IF @ = "ACTIVE" THEN "COMPLETED" ELSE @]
                                  ELSE override
    /\ Goto(r, "idle")
    /\ UNCHANGED <<run, step, waits>> /\ Kept

-----------------------------------------------------------------------------
(* delegateWorkflowRunToHuman, completeWorkflowRunHumanTask, and a stage   *)
(* completed by force in continueWorkflowStageControl.                     *)

AskDelegate(r) ==
    /\ run.status \notin Ended \cup {"WAITING_HUMAN_TASK"} /\ run.node # None
    /\ \E i \in Newest(Open) :
         Ask(r, "delegate", [IdleOp EXCEPT !.pc = IF i = 0 THEN "divert" ELSE "supersede",
               !.wait = i, !.opens = "HUMAN_TASK", !.then = "mark", !.policy = run.node])

AskHumanDone(r) ==
    /\ run.node # None
    /\ \E i \in Newest({j \in Open : waits[j].type = "HUMAN_TASK"}) :
         /\ i # 0
         /\ Ask(r, "human", [IdleOp EXCEPT !.pc = "supersede", !.wait = i, !.opens = "APPROVAL",
               !.closes = TRUE, !.human = TRUE, !.policy = waits[i].policy])

Supersede(r) ==
    /\ At(r, "supersede")
    /\ SetWait(op[r].wait, "RESOLVED")
    /\ Goto(r, "divert")
    /\ UNCHANGED <<run, step, override>> /\ Kept

DivertStep(r) ==
    /\ At(r, "divert")
    /\ SetStep(op[r].node, "WAITING")
    /\ Goto(r, "check")
    /\ UNCHANGED <<run, waits, override>> /\ Kept

AskForce(r) ==
    /\ run.node # None
    /\ \E i \in Oldest(Open) :
         Ask(r, "force", [IdleOp EXCEPT !.pc = IF i = 0 THEN "done" ELSE "dismiss",
               !.wait = i, !.human = TRUE, !.then = "finish"])

\* Mutant: the stage is forced on while its wait stays open.
DismissNothing(r) ==
    /\ At(r, "dismiss")
    /\ Goto(r, "done")
    /\ Same /\ Kept
DismissWait(r) ==
    /\ At(r, "dismiss")
    /\ SetWait(op[r].wait, "RESOLVED")
    /\ Goto(r, "done")
    /\ UNCHANGED <<run, step, override>> /\ Kept

\* The requests in flight are lost with the server.
ServerStops ==
    /\ stops < MaxStops /\ stops' = stops + 1
    /\ \E r \in Requests : ~Idle(r)
    /\ op' = [p \in Procs |-> IF p = Worker THEN op[p] ELSE IdleOp]
    /\ serial' = FALSE
    /\ Same /\ UNCHANGED <<asked, by>>

-----------------------------------------------------------------------------

Park(p)     == CheckStopped(p) \/ OpenWait(p) \/ HoldStep(p) \/ ParkRun(p) \/ MarkOverride(p)
Advance(p)  == CompleteStep(p) \/ Drain(p) \/ NothingPending(p) \/ Commit(p)
Execute     == \/ Claim \/ Load \/ StartStep \/ RunRow \/ Reread \/ CheckOverride \/ Work \/ Decide
               \/ FailStep \/ FailRow \/ ReadFailure \/ Park(Worker) \/ Advance(Worker)
Arrive(r)   == \/ AskPause(r) \/ AskResume(r) \/ AskCancel(r) \/ AskResolve(r)
               \/ AskDelegate(r) \/ AskHumanDone(r) \/ AskForce(r)
Serve(r)    == \/ PauseRow(r) \/ ResumeRow(r) \/ CancelWaits(r) \/ CancelRow(r)
               \/ Answer(r) \/ Requeue(r) \/ RetryStep(r) \/ RetryRow(r) \/ Finish(r)
               \/ Supersede(r) \/ DivertStep(r) \/ DismissWait(r) \/ Park(r) \/ Advance(r)

Next ==
    \/ Execute \/ WorkerStops \/ ServerStops
    \/ \E r \in Requests : Arrive(r) \/ Serve(r)

Spec == Init /\ [][Next]_vars

\* The executor polls and goes on, and the server answers what it has begun.
Fairness == WF_vars(Execute) /\ \A r \in Requests : WF_vars(Serve(r))
FairSpec == Spec /\ Fairness

-----------------------------------------------------------------------------
(* Properties.                                                             *)

TypeOK ==
    /\ run \in Rows
    /\ step \in [Nodes -> StepStates]
    /\ waits \in Seq(Waits) /\ Len(waits) <= MaxWaits
    /\ override \in [Nodes -> {"NONE", "ACTIVE", "COMPLETED"}]
    /\ op \in [Procs -> Operations]
    /\ asked \in 0..MaxAsked /\ stops \in 0..MaxStops
    /\ serial \in BOOLEAN
    /\ by \in [Nodes -> Nodes \cup {None, "agent", "force"}]

(* A branch state: no node is both behind the run and to be visited; every *)
(* target of a split behind the run is behind it, to be visited or where   *)
(* the run is; and a join is only reached with all it joins behind.        *)
Sound(branch, node) ==
    /\ branch.pending \cap branch.completed = {}
    /\ \A n \in branch.completed \ Prefix : Type[n] = "PARALLEL_SPLIT" =>
         \A m \in Targets(n) : \/ Type[m] = "PARALLEL_JOIN"
                              \/ m \in branch.pending \cup branch.completed \cup {node}
    /\ \A n \in (branch.pending \cup branch.completed) \ Prefix :
         Type[n] = "PARALLEL_JOIN" => Inbound(n) \subseteq branch.completed

(* Whatever overlaps, and wherever executor and server are cut short, the  *)
(* row holds one sound branch state: resolveGraphTransition loses no       *)
(* branch of a split and passes no join early.                             *)
BranchesAreSound == Sound(run.branch, run.node)

(* A run is only completed once an END is behind it and nothing is left to *)
(* visit, with every branch of its splits and joins done.                  *)
AllBranchesDone ==
    run.status = "COMPLETED" =>
      /\ run.branch.pending = {}
      /\ \E n \in run.branch.completed : Type[n] = "END"
      /\ \A n \in run.branch.completed :
           /\ Type[n] = "PARALLEL_SPLIT" => Targets(n) \subseteq run.branch.completed
           /\ Type[n] = "PARALLEL_JOIN"  => Inbound(n) \subseteq run.branch.completed

(* standardWorkflow.ts:830: an approval node "always pauses for explicit   *)
(* human approval".  As long as requests are served one after the other,   *)
(* nothing crashes and the workflow awaits no child, no wait of another    *)
(* step is left behind that could answer for it: it is passed by its own   *)
(* approval, or by force.                                                  *)
GatesAreApproved ==
    serial /\ stops = 0 => \A n \in run.branch.completed \ Prefix :
      Type[n] = "HUMAN_APPROVAL" => by[n] \in {n, "force"}

(* When requests are served one after the other, away from the executor, a *)
(* run that waits has an open wait, the newest, of the type it waits for,  *)
(* wherever the executor crashed and however it was paused and resumed.    *)
WaitingHasItsWait ==
    /\ serial /\ (\A p \in Procs : Idle(p))
    /\ run.status \in {"WAITING_APPROVAL", "WAITING_HUMAN_TASK", "WAITING_INPUT", "WAITING_CONFLICT"}
    => \E i \in Newest(Open) : i # 0 /\ WaitingFor(waits[i].type) = run.status

(* Under the same condition the step rows follow the run: no operation     *)
(* reopens the step of a node that is behind the run.                      *)
StepsFollowRun ==
    serial /\ (\A p \in Procs : Idle(p)) =>
      \A n \in run.branch.completed : step[n] = "COMPLETED"

(* A queued or running run comes to wait, to pause or to end: a crash at   *)
(* any statement, or an operation that writes over another, leaves nothing *)
(* that the polling executor does not take up again.  (A run that goes on  *)
(* opening waits is exempt when MaxWaits is reached.)                      *)
RunsSettle ==
    run.status \in {"QUEUED", "RUNNING"} ~>
        run.status \notin {"QUEUED", "RUNNING"} \/ Len(waits) = MaxWaits
=============================================================================
