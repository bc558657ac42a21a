------------------------- MODULE ExecutionOwnership -------------------------
(***************************************************************************)
(* Who may execute a workflow run.                                         *)
(*                                                                         *)
(* The control plane (an Express server over Postgres) keeps three tables: *)
(* the registered desktop executors, the executor that owns execution of   *)
(* each capability, and the workflow runs with the executor and the lease  *)
(* of each.  A desktop executor polls for a run of a capability it owns,   *)
(* executes it through RPCs that the control plane fences by capability    *)
(* ownership, and renews a lease while it works.  Operators claim, take    *)
(* over and release capabilities; a background loop reconciles the         *)
(* executors that stopped sending heartbeats.                              *)
(*                                                                         *)
(* Every step is one database statement, or a group of statements between  *)
(* which nothing that this module tells apart can happen, so handlers      *)
(* interleave where they await.  Time is abstracted to "fresh or not": the *)
(* 45 s heartbeat TTL and the 30 s run lease expire in steps of their own. *)
(***************************************************************************)
EXTENDS Naturals, FiniteSets

CONSTANTS
    Executors,      \* desktop executors, by their persisted id
    Capabilities,
    Runs,
    CapabilityOf,   \* the capability a run belongs to
    Requests,       \* slots for the operators' requests in flight
    None,           \* SQL NULL
    Faults          \* the disruptions this instance allows

(* "takeover"  an operator takes a capability from its owner by force       *)
(* "release"   an operator releases a capability or unregisters an executor *)
(* "suspicion" a live executor's heartbeats or leases lapse                 *)
(* "restart"   a desktop worker that exited is started again                *)
(* "server"    the control plane restarts, losing the requests in flight    *)
(* "network"   an RPC of an executor fails without reaching the database    *)
(* "overlap"   operators' requests overlap with each other                  *)
Disruptions == {"takeover", "release", "suspicion", "restart", "server",
                "network", "overlap"}

ASSUME CapabilityOfType == CapabilityOf \in [Runs -> Capabilities]
ASSUME NoneIsNull == None \notin Executors \cup Runs \cup Capabilities
ASSUME FaultsType == Faults \subseteq Disruptions

VARIABLES
    registration, \* executor -> heartbeat status of its registration row
    owner,        \* capability -> executor_id of its ownership row
    run,          \* run -> [status, assigned, lease] of its row
    step,         \* run -> status of its current step's row
    worker,       \* executor -> control point and snapshot of its process
    request,      \* slot -> the operator's request in flight
    sweep         \* the background reconcile in flight

vars == <<registration, owner, run, step, worker, request, sweep>>

Heartbeats == {"OFFLINE", "FRESH", "STALE"}
Leases     == {"NONE", "LIVE", "EXPIRED"}
Terminal   == {"COMPLETED", "FAILED", "CANCELLED"}
\* ACTIVE_RUN_STATUSES, the four WAITING_* statuses taken as one.
Active     == {"QUEUED", "RUNNING", "PAUSED", "WAITING"}

\* Control points of a worker that executes a run: its next move is an RPC.
Rpc == {"load", "start", "work", "release", "failing"}

RunRows  == [status: {"NEW"} \cup Active \cup Terminal,
             assigned: Executors \cup {None},
             lease: Leases]
Steps    == {"PENDING", "RUNNING", "DONE", "WAITING", "FAILED"}
Workers  == {w \in [pc: {"idle", "claim", "exited"} \cup Rpc,
                    pass: BOOLEAN,
                    owned: SUBSET Capabilities,
                    run: Runs \cup {None},
                    assigned: Executors \cup {None},
                    lease: Leases] :
               /\ w.pc \in Rpc => w.run # None
               /\ w.pass => w.pc \in Rpc}
RequestsInFlight ==
            [kind: {"idle", "upsert", "adopt", "release", "unregister",
                    "dispatch"},
             executor: Executors \cup {None},
             caps: SUBSET Capabilities,
             run: Runs \cup {None}]
Sweeps   == [stale: SUBSET Executors,
             executor: Executors \cup {None},
             caps: SUBSET Capabilities,
             requeued: SUBSET Runs]

TypeOK ==
    /\ registration \in [Executors -> Heartbeats]
    /\ owner \in [Capabilities -> Executors \cup {None}]
    /\ run \in [Runs -> RunRows]
    /\ step \in [Runs -> Steps]
    /\ worker \in [Executors -> Workers]
    /\ request \in [Requests -> RequestsInFlight]
    /\ sweep \in Sweeps

IdleWorker  == [pc |-> "idle", pass |-> FALSE, owned |-> {}, run |-> None,
                assigned |-> None, lease |-> "NONE"]
IdleRequest == [kind |-> "idle", executor |-> None, caps |-> {}, run |-> None]
IdleSweep   == [stale |-> {}, executor |-> None, caps |-> {}, requeued |-> {}]

Init ==
    /\ registration = [e \in Executors |-> "OFFLINE"]
    /\ owner = [c \in Capabilities |-> None]
    /\ run = [r \in Runs |->
                [status |-> "NEW", assigned |-> None, lease |-> "NONE"]]
    /\ step = [r \in Runs |-> "PENDING"]
    /\ worker = [e \in Executors |-> IdleWorker]
    /\ request = [q \in Requests |-> IdleRequest]
    /\ sweep = IdleSweep

-----------------------------------------------------------------------------
(* Statements shared by the handlers.                                      *)

Alive(e) == worker[e].pc # "exited"
Executes(e, r) == worker[e].pc \in Rpc /\ worker[e].run = r

Owned(e) == {c \in Capabilities : owner[c] = e}
Owns(e, r) == owner[CapabilityOf[r]] = e
StaleExecutors == {e \in Executors : registration[e] = "STALE"}

\* Mutants of Requeue: a status no reader knows, a lease left behind, an
\* assignment left behind.
RequeueAsReady(row) == [status |-> "READY", assigned |-> None, lease |-> "NONE"]
RequeueWithLease(row) ==
    [row EXCEPT !.status = IF @ \in {"RUNNING", "PAUSED"} THEN "QUEUED" ELSE @,
                !.assigned = None]
RequeueToSameExecutor(row) ==
    [row EXCEPT !.status = IF @ \in {"RUNNING", "PAUSED"} THEN "QUEUED" ELSE @,
                !.lease = "NONE"]

\* The requeue of a lost executor's run: RUNNING and PAUSED become QUEUED.
Requeue(row) ==
    [status   |-> IF row.status \in {"RUNNING", "PAUSED"} THEN "QUEUED"
                                                          ELSE row.status,
     assigned |-> None,
     lease    |-> "NONE"]

Requeued(e, c) == {r \in Runs : /\ CapabilityOf[r] = c
                                /\ run[r].assigned = e
                                /\ run[r].status \in Active}

RequeueRuns(rs) ==
    run' = [r \in Runs |-> IF r \in rs THEN Requeue(run[r]) ELSE run[r]]

FailRunningSteps(rs) ==
    step' = [r \in Runs |-> IF r \in rs /\ step[r] = "RUNNING" THEN "FAILED"
                                                               ELSE step[r]]

DropOwners(cs) ==
    owner' = [c \in Capabilities |-> IF c \in cs THEN None ELSE owner[c]]

\* registerDesktopExecutor gives both tables a heartbeat of now, and a claim
\* follows one, so an ownership row is as fresh as its executor's registration.
Beat(e) == registration' = [registration EXCEPT ![e] = "FRESH"]
\* Mutant: the claim does not look at the current owner's heartbeat.
OwnerNeverCounts(c) == FALSE
OwnerIsFresh(c) == owner[c] # None /\ registration[owner[c]] = "FRESH"

Lost(stale) == {c \in Capabilities : owner[c] \in stale}

\* The reconcile that claims and dispatches run first, as one step: its
\* statements interleave with other handlers in the background task below.
Reconcile(stale) ==
    LET rs == UNION {Requeued(owner[c], c) : c \in Lost(stale)} IN
    /\ DropOwners(Lost(stale))
    /\ RequeueRuns(rs)
    /\ FailRunningSteps(rs)

\* A request of executor e that starts with its heartbeat and a reconcile.
BeatAndReconcile(e) == Reconcile(StaleExecutors \ {e}) /\ Beat(e)

-----------------------------------------------------------------------------
(* The desktop worker's loop.                                              *)

\* syncExecutorRegistration, at every tick and around every claim.
SyncRegistration(e) ==
    /\ worker[e].pc = "idle"
    /\ Beat(e)
    /\ UNCHANGED <<owner, run, step, worker, request, sweep>>

\* POST runs/claim-next up to the list of owned capabilities: heartbeat,
\* reconcile the other stale executors, read what this executor owns.
ClaimNextBegin(e) ==
    /\ worker[e].pc = "idle"
    /\ registration[e] # "OFFLINE"
    /\ BeatAndReconcile(e)
    /\ worker' = [worker EXCEPT ![e].pc = "claim", ![e].owned = Owned(e)]
    /\ UNCHANGED <<request, sweep>>

\* Mutants: an orphaned RUNNING run is not picked up again; a run dispatched to
\* this executor by name is not either.
ClaimableIfQueued(e, r) ==
    run[r].status = "QUEUED" /\ run[r].assigned \in {None, e}
ClaimableIfUnassigned(e, r) ==
    /\ run[r].status \in {"QUEUED", "RUNNING"}
    /\ run[r].assigned = None
    /\ run[r].lease # "LIVE"

Claimable(e, r) ==
    /\ run[r].status \in {"QUEUED", "RUNNING"}
    /\ run[r].assigned \in {None, e}
    /\ run[r].lease # "LIVE"

\* The claim transaction: one run, FOR UPDATE SKIP LOCKED.
ClaimNextTake(e) ==
    /\ worker[e].pc = "claim"
    /\ LET candidates == {r \in Runs : CapabilityOf[r] \in worker[e].owned
                                       /\ Claimable(e, r)}
       IN  \/ /\ candidates = {}
              /\ worker' = [worker EXCEPT ![e] = IdleWorker]
              /\ UNCHANGED run
           \/ \E r \in candidates :
                /\ run' = [run EXCEPT ![r] = [status |-> "RUNNING",
                                              assigned |-> e,
                                              lease |-> "LIVE"]]
                /\ worker' = [worker EXCEPT ![e] =
                                [IdleWorker EXCEPT !.pc = "load", !.run = r]]
    /\ UNCHANGED <<registration, owner, step,
                   request, sweep>>

\* requireExecutorActor and assertExecutorCapabilityAccess, on every RPC.
Admissible(e) == registration[e] # "OFFLINE" /\ Owns(e, worker[e].run)

\* executeClaimedRun reads the run's detail.  A worker keeps the row it read:
\* its later updates write that row back whole.
LoadDetail(e) ==
    LET row == run[worker[e].run] IN
    /\ worker[e].pc = "load"
    /\ Admissible(e)
    /\ worker' = [worker EXCEPT ![e].pc = "start",
                                ![e].assigned = row.assigned,
                                ![e].lease = row.lease]
    /\ UNCHANGED <<registration, owner, run, step,
                   request, sweep>>

\* Before it starts a step, and when the model's decision is there, the worker
\* reads the status and lets go of a paused or cancelled run.  Otherwise its
\* write is admitted, to take effect in a later step.
RpcPass(e) ==
    /\ worker[e].pc \in Rpc \ {"load"}
    /\ ~worker[e].pass
    /\ Admissible(e)
    /\ worker' = [worker EXCEPT ![e] =
                    IF /\ worker[e].pc \in {"start", "work"}
                       /\ run[worker[e].run].status \in {"CANCELLED", "PAUSED"}
                      THEN IdleWorker
                      ELSE [@ EXCEPT !.pass = TRUE]]
    /\ UNCHANGED <<registration, owner, run, step,
                   request, sweep>>

\* A refused RPC ends processWorkflowRun with an exception; the worker then
\* tries to mark the run failed, and gives up when that is refused as well.
AfterRpcError(e) == IF worker[e].pc = "failing"
                      THEN IdleWorker
                      ELSE [IdleWorker EXCEPT !.pc = "failing",
                                              !.run = worker[e].run]

RpcRefused(e) ==
    /\ worker[e].pc \in Rpc
    /\ ~worker[e].pass
    /\ ~Admissible(e) \/ "network" \in Faults
    /\ worker' = [worker EXCEPT ![e] = AfterRpcError(e)]
    /\ UNCHANGED <<registration, owner, run, step,
                   request, sweep>>

\* An exception of the model provider or of the worker itself.
StepThrows(e) ==
    /\ worker[e].pc = "work"
    /\ ~worker[e].pass
    /\ worker' = [worker EXCEPT ![e] = AfterRpcError(e)]
    /\ UNCHANGED <<registration, owner, run, step,
                   request, sweep>>

\* An admitted write of worker e takes effect and the worker goes on at pc.
Admitted(e, pc) == worker[e].pc = pc /\ worker[e].pass
GoTo(e, pc) == [IdleWorker EXCEPT !.pc = pc, !.run = worker[e].run]

\* updateWorkflowRun: the whole row, unless it is terminal or paused.
\* Mutants: the WHERE clause forgets PAUSED, or the terminal statuses.
WritableWhilePaused(row) == row.status \notin Terminal
WritableWhenEnded(row) == row.status # "PAUSED"
Writable(row) == row.status \notin Terminal \cup {"PAUSED"}
Update(row, new) == IF Writable(row) THEN new ELSE row

\* executeAutomatedStep: the step is RUNNING, by step id alone, and the run is
\* RUNNING with the executor and the lease of the snapshot.
StartStep(e) ==
    LET r   == worker[e].run
        row == Update(run[r], [status   |-> "RUNNING",
                               assigned |-> worker[e].assigned,
                               lease    |-> worker[e].lease])
    IN  /\ Admitted(e, "start")
        /\ step' = [step EXCEPT ![r] = "RUNNING"]
        /\ run' = [run EXCEPT ![r] = row]
        /\ worker' = [worker EXCEPT ![e] =
                        [GoTo(e, "work") EXCEPT !.assigned = row.assigned]]
        /\ UNCHANGED <<registration, owner, request, sweep>>

\* How a step ends: the status of the step's row and of the run's.
Endings == [advance  |-> [step |-> "DONE",    run |-> "RUNNING"],
            complete |-> [step |-> "DONE",    run |-> "COMPLETED"],
            wait     |-> [step |-> "WAITING", run |-> "WAITING"],
            fail     |-> [step |-> "FAILED",  run |-> "FAILED"]]

\* resolveGraphTransition, completeRunWithWait or failRun.  The run's lease is
\* cleared in every case, also when the same worker goes on with the next
\* step, which is then the run's current one.
CloseStep(e, ending) ==
    LET r   == worker[e].run
        row == Update(run[r], [status   |-> Endings[ending].run,
                               assigned |-> worker[e].assigned,
                               lease    |-> "NONE"])
        advances == ending = "advance"
    IN  /\ Admitted(e, "work")
        /\ run' = [run EXCEPT ![r] = row]
        /\ step' = [step EXCEPT ![r] = IF advances /\ Writable(run[r])
                                         THEN "PENDING"
                                         ELSE Endings[ending].step]
        /\ worker' = [worker EXCEPT ![e] =
                        IF ~advances THEN GoTo(e, "release")
                        ELSE IF row.status # "RUNNING" THEN IdleWorker
                        ELSE [GoTo(e, "start") EXCEPT
                                !.assigned = row.assigned]]
        /\ UNCHANGED <<registration, owner, request, sweep>>

\* releaseRunLease, by run id alone; the worker polls again.
ReleaseLease(e) ==
    /\ Admitted(e, "release")
    /\ run' = [run EXCEPT ![worker[e].run].lease = "NONE"]
    /\ worker' = [worker EXCEPT ![e] = IdleWorker]
    /\ UNCHANGED <<registration, owner, step,
                   request, sweep>>

\* reconcileWorkflowRunFailure reads the row afresh and fails run and step.
FailClaimedRun(e) ==
    LET r == worker[e].run IN
    /\ Admitted(e, "failing")
    /\ step' = [step EXCEPT ![r] = IF @ = "DONE" THEN @ ELSE "FAILED"]
    /\ run' = [run EXCEPT ![r] = Update(@, [@ EXCEPT !.status = "FAILED",
                                                     !.lease = "NONE"])]
    /\ worker' = [worker EXCEPT ![e] = GoTo(e, "release")]
    /\ UNCHANGED <<registration, owner, request, sweep>>

\* heartbeatActiveRun: fenced like an RPC, it renews the lease of a run that
\* is still RUNNING and assigned to this executor.
HeartbeatRun(e) ==
    LET r == worker[e].run IN
    /\ worker[e].pc \in Rpc
    /\ Admissible(e)
    /\ Beat(e)
    /\ run' = [run EXCEPT ![r].lease =
                 IF run[r].status = "RUNNING" /\ run[r].assigned = e
                   THEN "LIVE" ELSE @]
    /\ UNCHANGED <<owner, step, worker, request, sweep>>

\* The fifth heartbeat in a row was refused: process.exit(1).
HeartbeatGiveUp(e) ==
    /\ worker[e].pc \in Rpc
    /\ ~worker[e].pass
    /\ ~Admissible(e) \/ "network" \in Faults
    /\ worker' = [worker EXCEPT ![e] = [IdleWorker EXCEPT !.pc = "exited"]]
    /\ UNCHANGED <<registration, owner, run, step,
                   request, sweep>>

\* The machine or the worker process goes away.  An RPC already admitted is
\* served first: the server does not notice that its caller is gone.
Crash(e) ==
    /\ Alive(e)
    /\ ~worker[e].pass
    /\ worker' = [worker EXCEPT ![e] = [IdleWorker EXCEPT !.pc = "exited"]]
    /\ UNCHANGED <<registration, owner, run, step,
                   request, sweep>>

Restart(e) ==
    /\ "restart" \in Faults
    /\ worker[e].pc = "exited"
    /\ worker' = [worker EXCEPT ![e] = IdleWorker]
    /\ UNCHANGED <<registration, owner, run, step,
                   request, sweep>>

-----------------------------------------------------------------------------
(* Operators' requests, and the background reconcile.                      *)

\* A new request in slot q.
Begins(q) ==
    /\ request[q].kind = "idle"
    /\ "overlap" \in Faults \/ \A p \in Requests : request[p].kind = "idle"

\* claimCapabilityExecution up to the read of the current owner.  Only a
\* forced takeover goes on against a fresh owner.
TakeOwnershipBegin(q, e, c) ==
    /\ Begins(q)
    /\ Alive(e)
    /\ BeatAndReconcile(e)
    /\ request' = IF owner[c] = e \/ ~OwnerIsFresh(c) \/ "takeover" \in Faults
                    THEN [request EXCEPT ![q] = [kind |-> "upsert",
                                                 executor |-> e,
                                                 caps |-> {c},
                                                 run |-> None]]
                    ELSE request
    /\ UNCHANGED <<worker, sweep>>

\* INSERT ... ON CONFLICT DO UPDATE, whoever owns the capability by now.  The
\* foreign key refuses an executor that was unregistered meanwhile.
TakeOwnershipUpsert(q) ==
    LET e == request[q].executor IN
    /\ request[q].kind = "upsert"
    /\ \/ /\ registration[e] # "OFFLINE"
          /\ owner' = [c \in Capabilities |->
                         IF c \in request[q].caps THEN e ELSE owner[c]]
          /\ request' = [request EXCEPT ![q].kind = "adopt"]
       \/ /\ registration[e] = "OFFLINE"
          /\ request' = [request EXCEPT ![q] = IdleRequest]
          /\ UNCHANGED owner
    /\ UNCHANGED <<registration, run, step, worker, sweep>>

\* The new owner gets the capability's QUEUED runs; a RUNNING run keeps the
\* executor it was assigned to.
TakeOwnershipAdopt(q) ==
    /\ request[q].kind = "adopt"
    /\ run' = [r \in Runs |->
                 IF CapabilityOf[r] \in request[q].caps /\ run[r].status = "QUEUED"
                   THEN [run[r] EXCEPT !.assigned = request[q].executor]
                   ELSE run[r]]
    /\ request' = [request EXCEPT ![q] = IdleRequest]
    /\ UNCHANGED <<registration, owner, step, worker, sweep>>

\* releaseCapabilityExecution and unregisterDesktopExecutor delete the
\* ownership rows first; a release requeues even if there was none.
ReleaseBegin(q, e, c) ==
    /\ "release" \in Faults
    /\ Begins(q)
    /\ request' = [request EXCEPT ![q] = [kind |-> "release", executor |-> e,
                                          caps |-> {c}, run |-> None]]
    /\ DropOwners({c} \cap Owned(e))
    /\ UNCHANGED <<registration, run, step, worker, sweep>>

UnregisterBegin(q, e) ==
    /\ "release" \in Faults
    /\ Begins(q)
    /\ registration[e] # "OFFLINE"
    /\ request' = [request EXCEPT ![q] = [kind |-> "unregister", executor |-> e,
                                          caps |-> Owned(e), run |-> None]]
    /\ DropOwners(Owned(e))
    /\ UNCHANGED <<registration, run, step, worker, sweep>>

\* UPDATE capability_workflow_runs, one capability at a time.
RequestRequeue(q) ==
    /\ request[q].kind \in {"release", "unregister"}
    /\ \E c \in request[q].caps :
         /\ RequeueRuns(Requeued(request[q].executor, c))
         /\ request' = [request EXCEPT ![q] =
                          IF request[q].kind = "release"
                            THEN IdleRequest
                            ELSE [request[q] EXCEPT !.caps = @ \ {c}]]
    /\ UNCHANGED <<registration, owner, step, worker, sweep>>

\* The deleted registration takes the ownership rows with it by foreign key.
UnregisterEnd(q) ==
    LET e == request[q].executor IN
    /\ request[q].kind = "unregister"
    /\ request[q].caps = {}
    /\ registration' = [registration EXCEPT ![e] = "OFFLINE"]
    /\ DropOwners(Owned(e))
    /\ request' = [request EXCEPT ![q] = IdleRequest]
    /\ UNCHANGED <<run, step, worker, sweep>>

\* reconcileDesktopExecutionOwnerships in the background: the stale
\* executors are listed once ...
SweepBegin ==
    /\ sweep = IdleSweep
    /\ StaleExecutors # {}
    /\ sweep' = [IdleSweep EXCEPT !.stale = StaleExecutors]
    /\ UNCHANGED <<registration, owner, run, step, worker, request>>

\* ... and lose their ownership one by one, fresh again by then or not.
SweepExecutor ==
    /\ sweep.caps = {}
    /\ sweep.requeued = {}
    /\ \E e \in sweep.stale :
         /\ sweep' = [IdleSweep EXCEPT
                        !.stale = sweep.stale \ {e},
                        !.executor = IF Owned(e) = {} THEN None ELSE e,
                        !.caps = Owned(e)]
         /\ DropOwners(Owned(e))
    /\ UNCHANGED <<registration, run, step, worker, request>>

\* Its runs of one capability go back to the queue ...
SweepRequeue ==
    /\ sweep.requeued = {}
    /\ \E c \in sweep.caps :
         LET rs   == Requeued(sweep.executor, c)
             more == rs # {} \/ sweep.caps # {c}
         IN  /\ RequeueRuns(rs)
             /\ sweep' = [sweep EXCEPT
                            !.caps = @ \ {c}, !.requeued = rs,
                            !.executor = IF more THEN @ ELSE None]
    /\ UNCHANGED <<registration, owner, step, worker, request>>

\* ... and then the running steps of these runs fail.
SweepFailSteps ==
    /\ sweep.requeued # {}
    /\ FailRunningSteps(sweep.requeued)
    /\ sweep' = [sweep EXCEPT !.requeued = {},
                              !.executor = IF sweep.caps = {} THEN None ELSE @]
    /\ UNCHANGED <<registration, owner, run, worker, request>>

-----------------------------------------------------------------------------
(* Operators: the runs.                                                    *)

\* resolveQueuedRunDispatch, for a new run, a resumed one or one whose wait
\* was resolved: reconcile, then the owner if it is fresh.
DispatchResolve(q, r) ==
    LET c == CapabilityOf[r] IN
    /\ Begins(q)
    /\ \/ run[r].status \in {"NEW", "WAITING"}
       \/ run[r].status = "PAUSED" /\ step[r] # "WAITING"
    /\ Reconcile(StaleExecutors)
    /\ request' = [request EXCEPT ![q] =
                     [kind |-> "dispatch",
                      executor |-> IF OwnerIsFresh(c) THEN owner[c] ELSE None,
                      caps |-> {}, run |-> r]]
    /\ UNCHANGED <<registration, worker, sweep>>

\* The row is inserted or written with the dispatch that was read.
DispatchEnqueue(q) ==
    LET r == request[q].run IN
    /\ request[q].kind = "dispatch"
    /\ run' = [run EXCEPT ![r] = IF @.status \in Terminal THEN @
                                 ELSE [status |-> "QUEUED",
                                       assigned |-> request[q].executor,
                                       lease |-> "NONE"]]
    /\ step' = [step EXCEPT ![r] = IF @ = "WAITING" THEN "PENDING" ELSE @]
    /\ request' = [request EXCEPT ![q] = IdleRequest]
    /\ UNCHANGED <<registration, owner, worker, sweep>>

\* resumeWorkflowRun of a run whose wait is still open.
ResumeWaiting(r) ==
    /\ run[r].status = "PAUSED"
    /\ step[r] = "WAITING"
    /\ run' = [run EXCEPT ![r].status = "WAITING", ![r].lease = "NONE"]
    /\ UNCHANGED <<registration, owner, step, worker,
                   request, sweep>>

\* pauseWorkflowRun
PauseRun(r) ==
    /\ run[r].status \in Active \ {"PAUSED"}
    /\ run' = [run EXCEPT ![r].status = "PAUSED", ![r].lease = "NONE"]
    /\ UNCHANGED <<registration, owner, step, worker,
                   request, sweep>>

\* cancelWorkflowRun
CancelRun(r) ==
    /\ run[r].status \in Active
    /\ run' = [run EXCEPT ![r].status = "CANCELLED", ![r].lease = "NONE"]
    /\ UNCHANGED <<registration, owner, step, worker,
                   request, sweep>>

-----------------------------------------------------------------------------
(* Time and failures of the control plane.                                 *)

\* 45 s without a heartbeat.  Requests that began with one are far shorter.
ExpireHeartbeat(e) ==
    /\ registration[e] = "FRESH"
    /\ worker[e].pc # "claim"
    /\ \A q \in Requests :
         request[q].kind \in {"upsert", "adopt", "dispatch"} =>
           request[q].executor # e
    /\ ~Alive(e) \/ "suspicion" \in Faults
    /\ registration' = [registration EXCEPT ![e] = "STALE"]
    /\ UNCHANGED <<owner, run, step, worker, request, sweep>>

\* 30 s without a renewal, which the run's heartbeat makes every 10 s.
ExpireLease(r) ==
    /\ run[r].lease = "LIVE"
    /\ \/ "suspicion" \in Faults
       \/ ~\E e \in Executors : /\ Executes(e, r)
                                 /\ run[r].assigned = e
                                 /\ Owns(e, r)
    /\ run' = [run EXCEPT ![r].lease = "EXPIRED"]
    /\ UNCHANGED <<registration, owner, step, worker,
                   request, sweep>>

ServerRestart ==
    /\ "server" \in Faults
    /\ request' = [q \in Requests |-> IdleRequest]
    /\ sweep' = IdleSweep
    /\ worker' = [e \in Executors |->
                    CASE worker[e].pass -> AfterRpcError(e)
                      [] worker[e].pc = "claim" -> IdleWorker
                      [] OTHER -> worker[e]]
    /\ UNCHANGED <<registration, owner, run, step>>

-----------------------------------------------------------------------------

WorkerStep(e) ==
    \/ ClaimNextBegin(e) \/ ClaimNextTake(e)
    \/ RpcPass(e) \/ RpcRefused(e)
    \/ LoadDetail(e) \/ StartStep(e)
    \/ \E ending \in DOMAIN Endings : CloseStep(e, ending)
    \/ ReleaseLease(e) \/ FailClaimedRun(e)

ExecutorStep(e) ==
    \/ SyncRegistration(e) \/ WorkerStep(e) \/ StepThrows(e)
    \/ HeartbeatRun(e) \/ HeartbeatGiveUp(e) \/ Crash(e) \/ Restart(e)
    \/ ExpireHeartbeat(e)

SweepStep ==
    SweepBegin \/ SweepExecutor \/ SweepRequeue \/ SweepFailSteps

RequestBegin(q) ==
    \/ \E e \in Executors :
         \/ UnregisterBegin(q, e)
         \/ \E c \in Capabilities :
              TakeOwnershipBegin(q, e, c) \/ ReleaseBegin(q, e, c)
    \/ \E r \in Runs : DispatchResolve(q, r)

RequestStep(q) ==
    \/ TakeOwnershipUpsert(q) \/ TakeOwnershipAdopt(q)
    \/ RequestRequeue(q) \/ UnregisterEnd(q) \/ DispatchEnqueue(q)

RunStep(r) ==
    ResumeWaiting(r) \/ PauseRun(r) \/ CancelRun(r) \/ ExpireLease(r)

Next ==
    \/ \E e \in Executors : ExecutorStep(e)
    \/ \E q \in Requests : RequestBegin(q) \/ RequestStep(q)
    \/ \E r \in Runs : RunStep(r)
    \/ SweepStep
    \/ ServerRestart

Spec == Init /\ [][Next]_vars

\* Timers fire, admitted requests are served, live workers go on.  Nothing is
\* assumed of operators, nor of executors that are not running.
Fairness ==
    /\ \A e \in Executors : /\ WF_vars(WorkerStep(e))
                            /\ WF_vars(~Alive(e) /\ ExpireHeartbeat(e))
    /\ \A q \in Requests : WF_vars(RequestStep(q))
    /\ \A r \in Runs : WF_vars(ExpireLease(r))
    /\ WF_vars(SweepStep)

FairSpec == Spec /\ Fairness

-----------------------------------------------------------------------------
(* Safety.                                                                 *)

\* Only a RUNNING run has a lease: whoever pauses, cancels, requeues, ends or
\* suspends a run also clears its lease, and no renewal or stale write of a
\* worker that lost the run puts one back.
LeaseOnlyWhileRunning ==
    \A r \in Runs : run[r].lease # "NONE" => run[r].status = "RUNNING"

\* A run that completed, failed or was cancelled never changes again: workers
\* that lost it, reconciles, releases and requeues in flight included.
TerminalIsFinal ==
    [][\A r \in Runs : run[r].status \in Terminal =>
                          run'[r].status = run[r].status]_vars

\* A paused run goes back to the queue, to its open wait or to CANCELLED; a
\* worker that still executes it cannot take it out of PAUSED.
WorkersRespectPause ==
    [][\A r \in Runs : run[r].status = "PAUSED" =>
         run'[r].status \in {"PAUSED", "QUEUED", "WAITING", "CANCELLED"}]_vars

\* Once the requests in flight are served, a queued run that is assigned waits
\* for the owner of its capability, and no other executor has to come back for
\* it: the claim, release, reconcile and dispatch each keep two tables in step.
QueuedRunsFollowOwner ==
    (sweep = IdleSweep /\ \A q \in Requests : request[q] = IdleRequest) =>
        \A r \in Runs : run[r].status = "QUEUED" =>
                            run[r].assigned \in {None, owner[CapabilityOf[r]]}

\* No two workers execute one run.  Holds while no operator moves ownership,
\* claims do not overlap, no live executor is taken for dead and none is
\* started again.
Undisturbed ==
    Faults \subseteq {"server", "network"}

ExclusiveExecution ==
    \A r \in Runs : \A e1, e2 \in Executors :
        Executes(e1, r) /\ Executes(e2, r) => e1 = e2

-----------------------------------------------------------------------------
(* Liveness.                                                               *)

\* A RUNNING run that no worker executes.
Orphaned(r) == /\ run[r].status = "RUNNING"
               /\ \A e \in Executors : ~Executes(e, r)

\* The reconcile, or the owner's next poll, gets every orphaned run going.
OrphansAreRecovered == \A r \in Runs : Orphaned(r) ~> ~Orphaned(r)

\* The live owner of a capability gets to a run that is queued for it.
OwnedQueueDrains ==
    \A r \in Runs : \A e \in Executors :
        (run[r].status = "QUEUED" /\ Owns(e, r) /\ Alive(e))
          ~> (run[r].status # "QUEUED" \/ ~Owns(e, r) \/ ~Alive(e))

=============================================================================
