# A verification project for SingularityNeo

SingularityNeo is a control plane for agentic software delivery: an Express
server over Postgres, Electron desktop executors that run workflow steps on an
operator's machine, and a React client.  This directory holds TLA+ modules that
model its concurrent core, TLC configurations that check them on small
instances, and proofs for every size of the instance.

## Inventory

| Part | State it keeps | Operations | What is hard | Module |
|---|---|---|---|---|
| Execution ownership (`server/executionOwnership.ts`), run store (`server/execution/repository.ts`), desktop executor (`desktop/worker.ts`, `server/routes/executionRuntime.ts`) | registrations with a heartbeat, one owner row per capability, runs with executor and lease | register, heartbeat, claim, takeover, release, unregister, reconcile, dispatch; claim a run, write it back, renew, release | several statements without a transaction, a background sweep every 30 s, stale whole-row writes, lost and late RPCs | `ExecutionOwnership` |
| Run lifecycle (`server/execution/service.ts`) | run, steps, waits, human overrides | execute, wait, answer, pause, resume, cancel, delegate, force | operators racing the executing worker, crashes between statements | `RunLifecycle` |
| Workflow graph (`service.ts`, `src/lib/workflowGraph.ts`) | branch state: pending and completed nodes | advance, split, join, decide, end | join bookkeeping, END with pending branches | `WorkflowGraph` |
| Approval waits (`service.ts`, `server/approvalWorkspace.ts`) | wait, assignments and decisions | vote, request changes, send back, supersede, cancel | overlapping votes against a threshold, a vote lost with its request | `ApprovalWait`, `ApprovalGate` |
| Business workflows (`server/businessWorkflows.ts`, `businessWorkflowSweeper.ts`) | instances, active nodes, tasks, approvals, timers | start, complete, decide, send back, pause, cancel, add tasks, sweep | readings written back statements later, overlapping sweeps, row locks across connections | `BusinessWorkflow` |
| Workspace lock (`server/workspaceLock.ts`) | one lock row with a TTL | acquire, release | the look-up after a refused insert, expiry | `WorkspaceLock` |
| Swarm debates (`server/execution/swarmOrchestrator.ts`, `swarmRepository.ts`, `routes/swarmChat.ts`) | sessions, votes, artifacts, a flag in memory | start, debate, vote, review, promote, cancel | a background debate racing requests, an index that refuses late writes, failures half way | `SwarmDebate` |
| Segments (`server/execution/segments.ts`) | segment status, current run, priority | create, attach runs, mirror, complete | status mirrored late | - |
| Agent learning (`server/agentLearning/*`) | jobs, profile versions | queue, lease, commit, judge | retries, version pointer | - |
| Governance (`server/governance/*`) | exceptions, controls, signed bundles | request, decide, expire, sign | expiry against use | - |
| Incidents (`server/incidents/*`) | incidents, correlations, export jobs | ingest, correlate, export | overlapping worker ticks | - |
| Agent git (`server/agentGit/*`) | sessions, commits, pull request | start, commit, open, sync | external service lag | - |
| Context budget (`server/execution/contextBudget.ts`) | none | evict fragments to a budget | boundary arithmetic | - |

Chat, story planning, memory and code index, connectors, model providers,
reporting, access control, the schema, the Electron shell and the web client are
listed in `PROJECT.json` with the reason why they are left out.

Components meet in shared rows.  Operators (HTTP routes), executors (RPCs) and
timers (the reconcile every 30 s, worker ticks and sweeps every few seconds)
read a row, await, and write it without a common transaction; hardly a write
compares what it replaces.  That is the theme of every module: an action is one
statement of the database, or a group between which nothing the module tells
apart can happen, and everything a handler has read is kept in its record in
`op`, `request`, `worker` or `sweep` until it is used.

How the modules fit together: `ExecutionOwnership` says who executes a run, and
treats what happens inside a step as one status; `RunLifecycle` says what the run
does, with one executor that claims it again whenever its lease is gone, and
takes the end of an approval as one answer; `ApprovalWait` is that answer, vote
by vote, and implements `ApprovalGate`; `WorkflowGraph` holds the pure operators
on branches that `RunLifecycle` extends, and `WorkflowStrands` the condition on a
graph under which a run completes all its branches.  Business workflows, the workspace
lock and swarm debates share no row with these.

## Runs

| Run | Module | Shows |
|---|---|---|
| `ownership_handover` | `MCExecutionOwnership` | `QueuedRunsFollowOwner`, `WorkersRespectPause`, `TerminalIsFinal` under takeovers, releases, unregistrations and lost RPCs |
| `ownership_one_executor` | `MCExecutionOwnership` | `TypeOK`, `LeaseOnlyWhileRunning` under every disruption |
| `ownership_live` | `MCExecutionOwnership` | `ExclusiveExecution`; with fairness `OrphansAreRecovered`, `OwnedQueueDrains` |
| `approval_overlap` | `MCApprovalWait` | `TypeOK`, `MarksFollowVotes`, `ImplementsGate` |
| `approval_in_turn` | `MCApprovalWait` | `SomebodyMayVote`, `EnoughApprovers`, `HeldMeansShort` |
| `business_tasks` | `MCBusinessWorkflow` | `TypeOK`, `NoDuplicateWork`, `TimerActsOnce`, `WorkRemains`, `ActiveIsOpen`, `CancelLeavesNothing` |
| `run_lifecycle` | `MCRunLifecycle` | `TypeOK`, `BranchesAreSound`, `AllBranchesDone`, `WaitingHasItsWait`, `StepsFollowRun`, `GatesAreApproved` |
| `run_settles` | `MCRunLifecycle` | with fairness `RunsSettle` |
| `swarm` | `MCSwarmDebate` | `TypeOK`, `PlanIsUnanimous`, `ReviewsHavePlans`, `OneItemPerSession`, `VerdictStands`; with fairness `CancelStopsDebate`, `DebateEnds` |
| `business_auto_complete` | `MCBusinessWorkflow` | violation of `TimersAreServed`: a sweep that auto-completes a task waits for its own row lock |
| `business_join` | `MCBusinessWorkflow` | violation of `JoinsForward`: a join never counts its arrivals |
| `lock_race` | `MCWorkspaceLock` | violation of `StepsWriteAlone`: a step writes without a lock |

Every configuration says `CHECK_DEADLOCK FALSE`: runs, waits, instances and
sessions end, executors exit, and the numbers of requests, rows and restarts are
bounded, so all of them may really stop.

## ExecutionOwnership

| Variable | Code |
|---|---|
| `registration` | `desktop_executor_registrations`: row present and its heartbeat against the 45 s TTL |
| `owner` | `capability_execution_ownership.executor_id` |
| `run` | `capability_workflow_runs`: `status`, `assigned_executor_id`, the lease columns as none / live / expired |
| `step` | status of the run's current row in `capability_workflow_run_steps` |
| `worker` | the executor's process: where `processWorkflowRun` is, and the row it read |
| `request` | an operator's HTTP request between two awaited statements |
| `sweep` | `reconcileDesktopExecutionOwnerships` of the 30 s interval between two awaited statements |

An RPC of a worker is two steps: `RpcPass` is the ownership check of the route,
the write follows later, so a takeover can happen in between.
`updateWorkflowRun` writes the snapshot the worker read, guarded only by the
row's status: that is `Update`.

Abstractions: the four `WAITING_*` statuses are one; a run has one current step;
the reads and the one write of a handler that only concern the same row are one
step; the in-request reconcile (before a claim, a dispatch and a claim-next) is
one step, the background one is split at every await; heartbeats and leases
expire in steps of their own, and `ExpireHeartbeat` spares an executor with a
request in flight that began with a heartbeat, since a request is far shorter
than 45 s.  `Faults` names which disruptions an instance allows, so that each
property is checked under the widest set it survives.

Bounds: one capability and one run are enough for every interleaving of two
executors over one run, since handlers touch capabilities one at a time and
runs independently; two executors are the old and the new owner; one request
slot is a handler split at its awaits while workers and the sweep go on.

Fairness: `WF` on each worker's RPC loop (an interval timer and awaited
promises), on the expiry of a dead executor's heartbeat and of an unrenewed
lease (time passes), on admitted requests (the server answers) and on the sweep
(a 30 s interval).  Nothing is assumed of operators, of crashes or of restarts.

**Proved** (`ExecutionOwnership_proofs`), for any sets of executors,
capabilities, runs and requests, from the typing of `CapabilityOf`, `None` and
`Faults` alone:

* `TypeCorrect`: `Spec => []TypeOK`.
* `LeaseDiscipline`, `EndedRunsStayEnded`, `PausedRunsStayPaused`: all three rest
  on one lemma, `RowsMoveLegally`, that every step of the system moves every run
  row legally (`LegalMove`), with one case per action.  `LegalMove` is what makes
  the lease property inductive.
* `OneWorkerPerRun`: `Undisturbed` implies `Spec => []ExclusiveExecution`.
  Exclusive execution is not inductive: two workers could be on the same run
  because both own its capability in their own view.  The strengthening
  `SoleOwner` says that a worker executes only runs whose capability it owns,
  that a claim in flight found the capability vacant, and that only dead
  executors are stale or being swept, so ownership never leaves a live one.
* `QueueFollowsOwnership`: `ServedInTurn` implies `Spec => []QueuedRunsFollowOwner`.
  The property only speaks of moments without a request or a reconcile in flight,
  since handlers move ownership first and the queue after.  `Handover` says who
  still has to follow meanwhile: a queued run that is assigned to an executor other
  than its capability's owner is on the list of an adoption, a release or an
  unregistration in flight, or of the background reconcile; and what each of
  those has read still holds when it writes (`ClaimantsAreFresh`, `ClaimsHold`,
  `DispatchesHold`, `SweptAreGone`, `UnregisteredOwnNothing`).  `ServedInTurn` is
  the setting of `ownership_handover`: takeovers, releases, unregistrations,
  crashed executors and lost RPCs, but one request at a time, no server that
  stops half way, no executor that is alive without a heartbeat and none that is
  started again (a claim by one that is still on the list of the reconcile loses
  its capability to it, and then adopts the runs all the same).  With any one of these four
  disruptions added TLC finds the property violated, so the hypothesis is no
  stronger than it has to be.

Model-checked only: liveness.

## ApprovalWait

One approval wait, from its creation to its end.  `ApprovalGate` is what the wait
promises: people approve, the gate passes only when those who approved are one
of its quorums, and it may be withdrawn.  `ApprovalWait` is the code.

| Variable | Code |
|---|---|
| `wait` | the row of `capability_run_waits`: its status, and whether an approval or a delegation resolved it |
| `assignment` | the rows of `capability_approval_assignments`, one per target of the policy; ABSENT until inserted |
| `decisions` | the rows of `capability_approval_decisions` |
| `request` | a request in flight: the statement it is before, and what it read |

| Actions | Code |
|---|---|
| `InsertAssignment` | the loop of `createApprovalAssignments`, after `createRunWait` |
| `BeginVote`, `InsertDecision`, `MarkAssignment`, `Tally`, `SettleAssignments` | `resolveRunWaitAndQueue` with `canActorApproveWait` and `evaluateApprovalPolicy` |
| `BeginSendBack`, `RecallAssignments`, `InsertObjection` | `sendBackApprovalForClarification` |
| `BeginDelegation`, `SupersedeWait`, `WithdrawAssignments` | `delegateWorkflowRunToHuman`, as far as it concerns the wait |
| `CancelWait` | `cancelOpenWaitsForRun` |
| `ServerRestart` | the server process stops; requests in flight are gone, rows stay |

What a vote decides with (`seen`, `target`, `needs`) is read once, in `BeginVote`,
and used after the inserts, as in the code.  `Tally` writes the wait by its id
alone, whatever happened to it meanwhile.

Abstractions: the queries that read the wait, its assignments and its decisions
are one step; actors are identified users; of several pending assignments that
fit a voter any may be taken, the code takes the first of an array; due dates
only change messages; the guard on delegated approvals tests
`payload.isDelegated`, which no code sets.  The refusal of a vote on a paused
run, the review packet and the clarification conversation are left out.
`Arrives` is not a guard of the code: it is where an instance says, through
`Faults`, which requests overlap.

Bounds: three people are a first voter, an overlapping one and one who comes
later; two requests are every pair of handlers interleaved statement by
statement; a quorum of two needs an earlier vote to be seen or missed.  A
decision is told apart from its actor's others by its request's slot, so the
decisions are finite and nothing is capped.

`approval_overlap` lets requests of everybody overlap, with send-backs,
delegations, cancellations and restarts.  `approval_in_turn` takes requests one
at a time on three disjoint assignments that must all approve; there the wait
passes neither early (`EnoughApprovers`) nor late (`HeldMeansShort`).  All
three of its properties are false in wider settings: two overlapping approvals
that each miss the other leave an `ALL_REQUIRED` wait open with nobody left to
vote; a person whose requests overlap, or a vote before the assignments are all
inserted, counts against too few; send-backs leave no assignment pending; one
team mate's vote refuses the other.  These are listed as hazards.

No liveness is claimed for a wait: it ends when people act, and nothing obliges
them to.

**Proved** (`ApprovalWait_proofs`), for any policy, people, teams, targets and
number of requests: `TypeCorrect`; `PolicyIsMet` and `WaitImplementsGate`, both
under `Orderly` (neither `"repeat"` nor `"early"`): a wait resolved by approval
has as many different approvers as its policy requires, and the wait implements
`ApprovalGate`.  Neither is inductive by itself: the tally trusts a count made
earlier.  `Counted` adds what makes that count right: no two approvals are one
person's, no two requests in flight are, and a vote in flight was measured
against all assignments, saw only decisions that are still there, and its own
approval is among the decisions but not among those it saw.
`ApproversAreApprovals` turns the number of rows into a number of people by a
bijection, and `AdvanceIsJustified` is the step where the threshold is met.

The three invariants about assignments and votes are proved in the same module:

* `VotesBehindMarks` (`[]MarksFollowVotes`), without any hypothesis.  `MarkInv` adds
  that a request about to mark an assignment has its vote among the decisions and
  is assigned to it, and that one which closes the other assignments has ended the
  wait.
* `HeldOnlyWhileShort` (`[]HeldMeansShort`) under `InTurn`: requests of different
  people come one after another and none is lost.  `TurnInv` says that a vote in
  flight saw every decision but its own, so that the one which completes the policy
  is the one that counts it complete.
* `SomebodyIsLeftToVote` (`[]SomebodyMayVote`) under `InTurn`, `OneEach` (everybody
  has one assignment and a team of their own, and the policy asks for no more
  approvals than there are targets) and `NoChanges`.  `SeatInv` says that an
  assignment leaves `PENDING` only by the vote of its own person, so that each
  approver uses up one target; were nobody left, all targets would be used up by
  different approvers, and `TurnInv` says that the wait would be over.

These hypotheses are the setting of `approval_in_turn`; the paragraph above says
what goes wrong outside of it.  Everything the two runs check is proved.

## WorkflowGraph and RunLifecycle

`WorkflowGraph` translates `resolveGraphTransition`: a branch state is the set of
pending and of completed nodes, `Enqueued` and `After` are one turn of its queue,
`Selections` what `selectEdgesForNode` may choose.  The depth-first order that
decides which pending node is current is a constant, `Rank`; which condition of
a decision holds is chosen freely.

| Variable of `RunLifecycle` | Code |
|---|---|
| `run` | the row of `capability_workflow_runs`: status, current node, branch state |
| `step` | the status of every row of `capability_workflow_run_steps` |
| `waits` | the rows of `capability_run_waits`, in the order of their creation |
| `override` | the work item's human stage override |
| `op` | the executor, and the requests in flight: statement and reading |
| `asked`, `stops` | bounds: requests and crashes so far |
| `serial`, `by` | history: nothing overlapped; who let the run past an approval node |

| Actions | Code |
|---|---|
| `Claim`, `Load`, `StartStep`, `RunRow`, `Reread`, `CheckOverride`, `Work`, `Decide` | `claimNextRunnableRunForExecutor`, `processWorkflowRun`, `executeAutomatedStep` |
| `CheckStopped`, `OpenWait`, `HoldStep`, `ParkRun` | `completeRunWithWait` |
| `CompleteStep`, `Drain`, `NothingPending`, `Commit` | the completion of a step and `resolveGraphTransition` |
| `FailStep`, `FailRow`, `ReadFailure` | `failRun`, `reconcileWorkflowRunFailure` |
| `AskPause` .. `CancelRow` | `pauseWorkflowRun`, `resumeWorkflowRun`, `cancelWorkflowRun` |
| `AskResolve`, `Answer`, `RetryStep`, `RetryRow`, `Requeue`, `Finish` | `resolveRunWaitAndQueue` |
| `AskDelegate`, `DivertStep`, `MarkOverride`, `AskHumanDone`, `Supersede` | `delegateWorkflowRunToHuman`, `completeWorkflowRunHumanTask` |
| `AskForce`, `DismissWait` | `continueWorkflowStageControl` |
| `WorkerStops`, `ServerStops` | a crash; rows stay, what was read is gone |

Abstractions: an agent's work on a step is one action with one of the outcomes
complete, diff (its work waits for an approval of the diff), ask, seek (an
approval), fail and throw; `CONFLICT_RESOLUTION` is treated as `INPUT`; the
counters of a join and of visits in the branch state are left out, since the
code decides with the pending and completed sets; the bound `maxTransitions`,
restarts of a run, phase segments, the preparation of the execution context,
projections, artifacts and telemetry are left out.

`BranchesAreSound` and, in graphs whose joins match their splits,
`AllBranchesDone` hold whatever overlaps or crashes: whole-row writes replace one
consistent branch state by another.  They leave out
the nodes ordered before the first one, which the code marks completed
unseen.  `WaitingHasItsWait`, `StepsFollowRun` and `GatesAreApproved` relate rows
that are written by separate statements, and are stated for requests that
overlapped nothing: with overlap they are false, as the hazards say.

Bounds: `run_lifecycle` is a delivery, then a fork of a delivery and an
approval, joined again: a wait beside an open branch, a join, and an END.  Three
requests are, for instance, pause, resume and answer; two waits are that of the
approval and one more; one crash can hit any statement.  The outcomes complete,
seek and fail reach an approval inside a step that is retried, the end of a step
and a failure.  `run_settles` puts an awaited child workflow into the fork and
takes every outcome, with three waits.

`GatesAreApproved` is false in `run_settles`' graph: while a child workflow is
awaited the run stays `RUNNING` and its node is executed as a step
(`service.ts:3593-3708`), so a forced completion dismisses the child's wait, the
oldest, and leaves the step's own approval open, which later passes the approval
node.

Fairness in `run_settles`: the executor polls and goes on with what it started,
and requests that were admitted are answered; nothing is assumed of operators.
`RunsSettle` therefore ends in a wait, a pause or an end.

**Proved** (`RunLifecycle_proofs`), for every graph, number of requests, waits and
crashes: `TypeCorrect`, and `NoBranchIsLost` (`Spec => []BranchesAreSound`).  The
strengthening `SoundInv` says the same of every row that is still in some
operation's hands, and of the half-drained branch of a transition, because any
of them may be the next to be written; the heart is one lemma on `WorkflowGraph`
about one turn of the queue.

**Proved** (`RunInTurn_proofs`), for requests that are served one at a time, away
from the executor (the history variable `serial`, which the three properties name
themselves), every graph, any number of requests and waits:

* `StepsKeepUp` (`[]StepsFollowRun`), wherever the executor crashes.  `StepInv`:
  whoever is at work read the row as it is, works on the node the row is at, and
  that node is never behind the run.  So the step that is written is not one of a
  completed node.
* `WaitsAreKept` (`[]WaitingHasItsWait`), wherever the executor crashes.  `WaitInv`:
  a run that waits either has its wait, or a request that touched the waits is still
  to write the row (`Repairing`); the executor, once past its claim, never works
  on a run that waits; a resumed run has the wait its new status comes from.
* `GatesAreKept` (`[]GatesAreApproved`) under `NoChildren`, and without a crash, as
  the property says.  `GateInv`: at most one wait is open, under the policy of the
  run's node, and none while the run may go on; the operation that is to pass a
  node holds that node's policy.  `NoChildren` is needed for the reason given under
  the bounds; TLC finds the counterexample in the other graph.

**Proved** (`RunBranches_proofs`): `CompletionIsComplete` (`[]AllBranchesDone`),
whatever overlaps and wherever executor and server crash, for every workflow that
is `Structured`.  `WorkflowStrands` says what that is: the workflow's parallel
strands can be assigned to its nodes so that a split deals its strands out among
its targets, a join gathers those of all it joins, every other node hands on all of
its own, no edge leads past a join of its strands, and edges lead forward.
Decisions are free to choose among their targets.  `CoverInv` is a token argument:
of every strand there is one token, on a node to be visited or being worked on, or
held up at a completed node whose join is still missing others; an `END` takes them
all.  When the queue runs empty all tokens would be held before a join;
`NothingIsStuck` takes the join of least depth and finds all it waits for behind
the run, so that it would have been enqueued (well-founded induction on `Depth`
supplies the least one).  The invariant is stated of every row in an operation's
hands, as in `SoundInv`.

`Structured` is what the property needs and more than the code checks.
`createSharedCapabilityWorkflow` builds chains from `START` to `END`
(`standardWorkflow.ts:1136-1165`), which have one strand.  For drawn workflows
`validateWorkflowGraph` refuses dead ends, a missing `END` and a split that reaches
no join (`workflowGraph.ts:582-718`), not a decision inside a branch that leads
past the join, say to the `END`: the run is then `COMPLETED` with the other branch
still pending, as TLC finds when the first branch of the fork is such a decision.
Edges that lead back are refused only from a node to itself, though completed nodes
are never enqueued again.
`MCRunLifecycle` assumes, and TLC evaluates, that the graph of `run_lifecycle`
is structured (`ForkIsStructured`), so the theorem covers the run.

Model-checked only: liveness.

## BusinessWorkflow

| Variable | Code |
|---|---|
| `instance` | the row of `business_workflow_instances`: status and active nodes |
| `rows` | tasks and approvals in the order they were created |
| `timers` | scheduled timers, and how often this server life has applied each |
| `activated` | nodes with a `NODE_ACTIVATED` event |
| `op` | requests, and the completion or escalation a sweep performs |
| `sweep` | the sweep's transaction: what it has locked, handled and stamped |
| `asked`, `restarts`, `apart` | bounds, and whether operations have overlapped |

| Actions | Code |
|---|---|
| `StartInstance`, `ActivateRelay`, `ActivateWork`, `MarkActive`, `ActivateSaved`, `Reread`, `WalkEnds` | `startBusinessInstance`, `activateNode` |
| `BeginClose`, `CloseRow`, `CloseTooLate`, `ResumeAfterAdHoc`, `Advance`, `Disarm`, `SaveAdvance` | `completeBusinessTask`, `decideBusinessApproval`, `advanceFromCompletedNode` |
| `BeginSendBack`, `ReturnRow`, `RereadSentBack`, `DropActive`, `ReleaseTimers` | `sendBackBusinessTask`, `sendBackBusinessApproval`, `findJoinsBetween` |
| `BeginCancel`, `CascadeBegins`, `CascadeCommits` | `cancelBusinessInstance`, a transaction |
| `Pause`, `Resume`, `BeginAdHoc`, `InsertAdHoc`, `PauseForAdHoc` | the operations of those names |
| `SweepBegins`, `FireTimer`, `Escalate`, `Stamp`, `SweepCommits` | `sweepDueTimers`, `fireOneTimer`; the rows it selected stay locked |
| `TimerFallsDue`, `Restart` | time, and a server that stops |

A statement that needs a locked row waits: `CascadeCommits` and `Disarm` wait for
timers a sweep has selected, even when it is the sweep that called them on
another connection of the pool.

A send-back closes its row first.  If a join lies between its target and its task
(`JoinsBetween`), the next statement resets the join's counter and sets
`updated_at`, a column `capability_business_workflow_instances` does not have
(`businessWorkflows.ts:1982-1987`, `db.ts:3498-3515`): the request fails there, the
row stays SENT_BACK, the target is never activated and the token is lost.
`ReturnRow` does the same.  No run combines a join with send-backs, since what
would be false there is the project's `WorkRemains` and no statement of the
repository; on the line task, join, task TLC finds it violated.

Abstractions: OPEN, CLAIMED and IN_PROGRESS are one; conditions are chosen
freely; nodes of types nothing advances are `TIMER`; graphs in which two
synchronous paths of one walk meet are outside the model.  Overdue marks,
publication, documents, the context and custom node types are left out.
`Restart` only happens while something is in memory; otherwise it changes nothing.

Bounds of `business_tasks`: a task the sweep completes when its timer falls due,
and behind it two branches, an approval with a gate and a task with an escalation
timer and the END; two requests and two sweeps at a time, three requests in all,
four rows, three timers, one restart.  The first task has successors with rows of
their own, so a double click on it, or a click and the sweep, would hand their
work out twice if both completions advanced.  A completion the sweep begins on a
paused instance throws, so its timer is tried again by a later tick.  A
completion the sweep does carry out closes the row and then waits for the lock of
its own transaction, the violation of `business_auto_complete`, until the restart.

`NoDuplicateWork` and `TimerActsOnce` hold whatever overlaps; `WorkRemains`,
`ActiveIsOpen` and `CancelLeavesNothing` are stated for operations that did not
overlap, and are false otherwise: a status and active nodes that were read
before another operation are written over it.

Fairness in `business_auto_complete`: code that has been started goes on, and the
interval keeps sweeping.

**Proved** (`BusinessWorkflow_proofs`): `TypeCorrect` and `NoTimerActsTwice`, for
every graph and any number of sweeps, timers and operations, and
`WorkIsHandedOutOnce`.  The strengthening
`TimerInv` says that a timer whose action was applied is locked by one sweep,
which has it behind or in hand, or is fired already, and that no two sweeps lock
the same timer.

`WorkIsHandedOutOnce` (`[]NoDuplicateWork`) is proved for graphs that are `TreeLike`:
a node that hands on has one way in, where a node without successors and a join
that waits may have any number.  A node with two ways in is activated once for
each of them, which the code means.  `TokenInv`: of every such node there is one
token, carried by the one walk that is to activate it; then the node is activated,
and nobody carries it again; a task or approval keeps the token in its row until
one operation closes the row and leaves with it (`OneToken`, `OneLeaves`,
`ArcsSpent`, `RowsReached`).  Overlapping operations, stale readings and restarts
lose tokens and never copy one.

`BusinessAlone_proofs` proves what is stated for operations that do not overlap
(the history variable `apart`), for any number of requests, sweeps and restarts:

* `CancelIsComplete` (`[]CancelLeavesNothing`), for every graph.  `AloneInv`: the one
  operation at work writes back what it read, on an instance that is not cancelled;
  a cascade has locked every open row.
* `NoTokenIsDropped` (`[]WorkRemains`), for graphs that are `HandsAlwaysOn`: some
  condition always holds or there is a default, and joins wait for one arrival;
  and, where work may be sent back, have no joins (`NoJoinCrossed`).  Without the
  first the code itself stops at a node nothing follows; without the second a join
  drops what arrives, as `business_join` shows; without the third a send-back
  across a join throws and drops what it carries.  `KeptInv` says where
  the token is: in an unanswered row, at a node that is waited for, or in the hands
  of the operation at work.  It rests on `WorkInv` (only tasks and approvals of
  the graph are left, and a return knows where to) and on `PauseInv` (nobody leaves
  a node of a paused instance).
* `ShownIsUnanswered` (`[]ActiveIsOpen`), for `TreeLike` graphs.  `ShownInv`: the
  active nodes are those with an unanswered row, but for the node that is just
  being marked or left.

`HandsAlwaysOn`, `NoJoinCrossed` and `TreeLike` hold of the graph of `business_tasks`.

Model-checked only: nothing of `business_tasks`; the violations are found by TLC.

## WorkspaceLock

One row, inserted before each writing tool and deleted after it.  `Acquire` is the
insert, `LookUpHolder` the select after a refused one, `Expire` the five minutes,
`Die` an executor that stops with the lock.  `lock_race` has neither expiry nor
death: a refused step whose look-up finds the row gone goes on without a lock,
which the comment in the code calls safe, and the other step's next tool takes
it.

## SwarmDebate

| Variable | Code |
|---|---|
| `status`, `promoted` | the row of `capability_swarm_sessions` |
| `vote` | `last_vote` of the participants' rows |
| `artifacts`, `items` | the artifacts and work items written for a session |
| `cancelled` | the map `cancellationFlags` of the server process |
| `debate`, `ballot` | where `runSwarmDebate` is, and the votes as it knows them |
| `op` | requests between their reading of the session and their write |
| `faults`, `losses`, `serial` | bounds, and whether requests on a session have overlapped |

| Actions | Code |
|---|---|
| `AskKickoff`, `Create`, `CreateRefused`, `Start` | `POST /api/runtime/chat/swarm` |
| `Begin`, `TurnsEnd`, `VotesEnd`, `Tally`, `Report`, `Close` | `runSwarmDebate`, `terminate` |
| `DebateFails`, `RecordFails`, `CatchFailure`, `LoseFailure` | a call that throws, and the kickoff's catch |
| `AskReview`, `WriteReview`, `AskCancel`, `WriteCancel` | `.../review`, `.../cancel` |
| `AskPromote`, `CreateItem`, `Link`, `RequestFails` | `.../promote-to-work-item` |
| `Restart` | the server stops: debates, flags and requests are gone |

The check before a phase reads the flag and the budget with nothing awaited in
between, so it is part of the step that ends the phase before.  Every status is
written unconditionally; the unique index on open sessions of a scope turns the
write into an error when another session is open (`WriteStatus`), and the debate
then ends through the catch.  The votes' rows are written in parallel: when one
write fails any of the others may land.

Abstractions: whether the token budget allows a phase is chosen freely; the
transcript, the roster, the rate limit and the event stream are left out.  The
flag is kept only while something will read it, and a debate forgets its
ballot when it has used it.

Bounds: two sessions, since the index only tells one open session from another;
two peers, one who agrees and one who may not; two requests at a time, any
number one after another; two phases instead of four, the last of which is the
vote; one error, restart or lost catch at any point; at most two work items a
session.

Fairness: a debate goes on by itself (its promises are awaited in the server and
providers answer or fail), and a kickoff that created its session starts the
debate.  Nothing is assumed of requests.  `DebateEnds` excludes restarts, from
which nothing recovers a debate.

`OneItemPerSession` and `VerdictStands` are stated for sessions on which no
requests overlapped: two reviews, or a review and a cancellation, write over each
other, and two promotions create two work items.

**Proved** (`SwarmDebate_proofs`), for any number of sessions, peers, requests and
phases, from `PhasesType`, `ScopeType`, `NoneType` and `BoundsType`:

* `TypeCorrect`.  `TypeOK` is not inductive: a debate that closes writes its
  outcome as the status, so `SureDebates` says that a debate that is ending has
  one, and `SureOps` that a request that goes on is on a session.
* `PlansAreUnanimous` and `DecisionsHavePlans`.  `PlanInv` adds what keeps a plan
  and its votes together: a session with a plan has nothing left to record
  (`PlanPart`), what people can decide on is over (`SettledPart`), requests that
  passed their check still find a plan (`AskedPart`), and a debate is started
  once, for a session nobody could reach before (`UnbornPart`, `StartPart`).
* `VerdictsStand` and `OneItemEach`.  `SerialPart` says that requests which never
  overlapped are alone on their sessions and meet no verdict, and `ItemPart` that
  an item that is not linked yet has a request that is about to link it.

Model-checked only: liveness.

## What is not modelled

* *Segments.*  A segment's status follows its run in one place
  (`resolveGraphTransition`), although `segments.ts:11` speaks of every write of a
  run's status: the segment of a failed or cancelled run stays as it was, and a
  start that is refused leaves a queued one behind.  That is seen by reading; a
  model would add no interleaving to that of the run.
* *Agent learning.*  No learning job can be queued at this commit: both queueing
  functions refuse every reason that does not begin with `user:`, every caller
  passes another one, and left-over jobs are cancelled at startup.  The queue
  and the gate behind it have no reachable state.
* *The in-process worker* of the server mode differs from the desktop one in the
  WHERE clause of its claim.
* *Restarts of runs, stop-at-phase, the tool loop inside a step* and its model
  calls: the first two change which nodes are ahead and not how operations
  interleave; the third is one action with its outcomes.
* *Governance exceptions, incidents, agent git sessions, work item claims, story
  proposals*: each is a few handlers over rows of their own, most of them single
  statements; they meet no other component that is modelled.
* *The context budget and the prompt assembly*: sequential arithmetic over
  lists without shared state, which its unit tests reach.
* Everything else in `PROJECT.json` with status `not_modelled` is input and
  output, rendering, configuration or text processing.

Most of the repository is a web client, adapters to models and tools, and row
mapping; the modules cover a small share of its lines, but the parts where
several actors change shared state concurrently.

Hazards without a property: a server that stops between the statements of the
ownership reconcile strands runs (`executionOwnership.ts:520`); nothing in the
repository promises otherwise, and `QueuedRunsFollowOwner` is checked without that
disruption.  Jobs of the incident worker that were claimed are never claimed again
when their server stops (`incidents/repository.ts:787`), lease or not; that part is
not modelled.  A send-back across a join loses the token
(`businessWorkflows.ts:1984`, see BusinessWorkflow).  Requested changes do not keep a
later approval from passing a wait (`execution/service.ts:962`), which is the code's
rule.  Where a property is stated for requests that do not overlap, the
hazard's note says what fails when they do.

## What is proved, and what is not

Every invariant and every action property of the passing runs is stated by a
theorem, for every value of the constants that meets its hypotheses; the
hypotheses are met by the instances the runs check.  The theorems are listed in
`PROJECT.json`; `tlapm` proves them from the constants' named assumptions and those
hypotheses only.

What stays with TLC is liveness: `OrphansAreRecovered`, `OwnedQueueDrains`,
`RunsSettle`, `CancelStopsDebate` and `DebateEnds`.  They rest on fairness, and so on
`ENABLED`, which the prover does not treat.

## Plan for later work

1. Restarts of a run and phase segments in `RunLifecycle`.
2. Incident exports, agent git sessions and work item claims, in that order.
3. For the parts added, the same order as here: the invariants by TLC, then their
   strengthening, then the proof.
